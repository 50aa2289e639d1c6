------------------------------ MODULE Discovery ------------------------------
(***************************************************************************)
(* The inventory of the sources (files.ts) and the cache of their          *)
(* fingerprints (source-fingerprint-cache.ts): several inventories of one  *)
(* project run while its files are edited and removed.                     *)
(*                                                                         *)
(* A path, a content and the name of a directory are abstract.  Every      *)
(* write of a file gives it a new stamp: size, times, device, inode and    *)
(* mode as one value.  Two writes that leave all of these alike are not    *)
(* told apart by the code either, except in strict mode.                   *)
(***************************************************************************)
EXTENDS Helpers

CONSTANTS
    Files,        \* absolute paths
    Place,        \* [Files -> [key, names, readme, sensitive, supported]]
    Settings,     \* [raw, sources, legacy, defaults, strict, save, concurrency]; an exclusion
                  \* has, besides its files, the pairs of a root and a file it matches "below" the root
    Fixed,        \* names that no walk enters: DEFAULT_FAST_GLOB_IGNORES
    Default,      \* DEFAULT_EXCLUDED_DIRECTORIES and DEFAULT_EXCLUDED_FILES
    Contents,     \* the contents of a file, and its checksum
    Oversized,    \* those that are larger than maxFileBytes
    Inventories,
    MaxWrites     \* bound on the writes of files

VARIABLES
    disk,     \* [Files -> [content, stamp] or None]
    written,  \* the content of each stamp
    cache,    \* the fingerprint cache: a set of [file, stamp, checksum]
    inventory \* [Inventories -> what an inventory knows]

discoveryVars == <<disk, written, cache, inventory>>

-----------------------------------------------------------------------------
(* The rules of the project.                                                *)

\* sourceInputs: the raw directory is number 0, before the entries of the
\* configuration and those of the legacy file.
Entries == Settings.sources \o Settings.legacy
Numbers == 0 .. Len(Entries)
EntryAt(n) == IF n = 0 THEN Settings.raw ELSE Entries[n]
EntriesOf(kind) == {n \in Numbers : EntryAt(n).kind = kind}
Roots == EntriesOf("path")
Patterns == EntriesOf("glob")
Ignored == UNION {EntryAt(n).files : n \in EntriesOf("ignore")}

\* defaultExcludeGlobs: what an entry names is not excluded below it.
DefaultExcludes(entry) == IF Settings.defaults THEN Default \ entry.names ELSE {}

\* patternGroupsByDefaultExcludes: the patterns that exclude the same are
\* walked together, in the place of the first of them.
Group(n) == {m \in Patterns : DefaultExcludes(EntryAt(m)) = DefaultExcludes(EntryAt(n))}
PatternGroups == {n \in Patterns : \A m \in Group(n) : n <= m}

\* Variant for the checks: all patterns share what any of them names.
WalkOf_Shared(n) ==
    IF n \in Roots THEN EntryAt(n)
    ELSE [kind |-> "glob", names |-> UNION {EntryAt(m).names : m \in Patterns},
          files |-> UNION {EntryAt(m).files : m \in Group(n)}]

\* What one call of fast-glob looks for.
WalkOf(n) ==
    IF n \in Roots THEN EntryAt(n)
    ELSE [kind |-> "glob", names |-> EntryAt(n).names,
          files |-> UNION {EntryAt(m).files : m \in Group(n)}]

\* The roots come first, then the groups of patterns.
Before(n, m) == (n \in Roots /\ m \notin Roots) \/ ((n \in Roots <=> m \in Roots) /\ n <= m)

\* What a walk of fast-glob passes over: a root is entered whatever it is called.
PassedOver(entry, f) ==
    \/ Place[f].names \cap DefaultExcludes(entry) # {}
    \/ (IF entry.kind = "glob" THEN Place[f].names ELSE Place[f].names \ entry.names) \cap Fixed # {}

\* ignorePatternsForRoot: an exclusion that starts with * is tried on the paths within a root, too.
IgnoredIn(n) == {f \in Files : n \in Roots /\ \E m \in EntriesOf("ignore") : <<n, f>> \in EntryAt(m).below}

\* sourceExclusionMatcher, on the canonical path, whichever entry led here.
IsExcluded(f) == f \in Ignored \/ Place[f].readme

\* skippedSourceFile, isSupportedSourceFile and the size, in this order.
SkipReason(f, content) ==
    IF Place[f].sensitive THEN "sensitive-name"
    ELSE IF ~Place[f].supported THEN "unsupported-extension"
    ELSE IF content \in Oversized THEN "oversized"
    ELSE None

ASSUME DiscoveryAssumption ==
    /\ Len(Entries) \in Nat
    /\ \A n \in Numbers : EntryAt(n).files \subseteq Files

-----------------------------------------------------------------------------
(* Discovery (discoverSourceCandidates).                                    *)

NoInventory == [phase |-> "idle", since |-> 0, begun |-> 0, walks |-> {}, listed |-> {},
                candidates |-> {}, skipped |-> <<>>, usable |-> {}, queue |-> {},
                hashing |-> {}, files |-> {}, unmatched |-> {}, copies |-> {}]

KeyOf(c) == Place[c.file].key
Skipping(run, at, why) ==
    [run EXCEPT !.skipped = [x \in DOMAIN run.skipped \cup {at} |-> IF x = at THEN why ELSE run.skipped[x]]]

\* recordSourceCandidate: a citation path belongs to the first file found there.
RecordSourceCandidate(run, entry) ==
    LET existing == {c \in run.candidates : KeyOf(c) = KeyOf(entry)}
        reason == SkipReason(entry.file, entry.content)
    IN  IF IsExcluded(entry.file) THEN run
        ELSE IF existing # {}
        THEN IF \E c \in existing : c.file = entry.file THEN run
             ELSE Skipping(run, entry.file, "path-collision")
        ELSE IF reason # None THEN Skipping(run, KeyOf(entry), reason)
        ELSE [run EXCEPT !.candidates = @ \cup {entry}]

Present(files) == {f \in files : disk[f] # None}

StartInventory(i) ==
    /\ inventory[i].phase = "idle"
    /\ inventory' = [inventory EXCEPT ![i] =
            [@ EXCEPT !.phase = "walk", !.since = Len(written), !.begun = Len(written),
                      !.walks = {n \in Roots : Present(EntryAt(n).files) # {}} \cup PatternGroups]]
    /\ UNCHANGED <<disk, written, cache>>

IsNext(n, run) == n \in run.walks /\ \A m \in run.walks : Before(n, m)
Found(n) == {f \in Present(WalkOf(n).files) : ~PassedOver(WalkOf(n), f)} \ IgnoredIn(n)
EntryOf(f) == [file |-> f, stamp |-> disk[f].stamp, content |-> disk[f].content]

\* The walk comes upon a file, in any order, and takes its stat.  What it lists is
\* recorded once it has ended, in this order, which nobody can tell from recording it now.
Walk(i) ==
    /\ inventory[i].phase = "walk"
    /\ \E n \in inventory[i].walks : IsNext(n, inventory[i]) /\
          \E f \in Found(n) \ inventory[i].listed :
              inventory' = [inventory EXCEPT ![i] =
                  RecordSourceCandidate([inventory[i] EXCEPT !.listed = @ \cup {f}], EntryOf(f))]
    /\ UNCHANGED <<disk, written, cache>>

\* A walk may miss what was written after it had begun, and nothing else.
EndWalk(i) ==
    /\ inventory[i].phase = "walk"
    /\ \E n \in inventory[i].walks :
          /\ IsNext(n, inventory[i])
          /\ \A f \in Found(n) \ inventory[i].listed : disk[f].stamp > inventory[i].begun
          /\ inventory' = [inventory EXCEPT
                ![i].walks = @ \ {n}, ![i].listed = {}, ![i].begun = Len(written)]
    /\ UNCHANGED <<disk, written, cache>>

-----------------------------------------------------------------------------
(* Fingerprints (inventorySourceFiles).                                     *)

\* The cache is read once, and not at all in strict mode.
LoadCache(i) ==
    /\ inventory[i].phase = "walk" /\ inventory[i].walks = {}
    /\ inventory' = [inventory EXCEPT ![i] =
            [@ EXCEPT !.phase = "hash", !.queue = inventory[i].candidates,
                      !.usable = IF Settings.strict THEN {} ELSE cache]]
    /\ UNCHANGED <<disk, written, cache>>

Fingerprint(c, checksum) == [file |-> c.file, stamp |-> c.stamp, checksum |-> checksum]

\* reusableSourceFingerprint
Reusable(run, c) == {r \in run.usable : r.file = c.file /\ r.stamp = c.stamp}

Working(run) == run.phase = "hash" /\ Cardinality(run.hashing) < Settings.concurrency

Reuse(i) ==
    /\ Working(inventory[i])
    /\ \E c \in inventory[i].queue : \E r \in Reusable(inventory[i], c) :
          inventory' = [inventory EXCEPT ![i].queue = @ \ {c}, ![i].files = @ \cup {r}]
    /\ UNCHANGED <<disk, written, cache>>

\* checksumFile, for a file without a usable fingerprint, or with an aged one.
Checksum(i, aged) ==
    /\ Working(inventory[i])
    /\ \E c \in inventory[i].queue :
          /\ disk[c.file] # None
          /\ aged <=> Reusable(inventory[i], c) # {}
          /\ inventory' = [inventory EXCEPT
                ![i].queue = @ \ {c},
                ![i].hashing = @ \cup {Fingerprint(c, disk[c.file].content)}]
    /\ UNCHANGED <<disk, written, cache>>

Failed(i) == inventory' = [inventory EXCEPT ![i] = [NoInventory EXCEPT !.phase = "failed"]]

\* Variant for the checks: the file is not looked at again.
StatAgain_Trusts(i) ==
    /\ inventory[i].phase = "hash"
    /\ \E h \in inventory[i].hashing :
          inventory' = [inventory EXCEPT ![i].hashing = @ \ {h}, ![i].files = @ \cup {h}]
    /\ UNCHANGED <<disk, written, cache>>

\* A file that changed while it was hashed fails the inventory.
StatAgain(i) ==
    /\ inventory[i].phase = "hash"
    /\ \E h \in inventory[i].hashing :
          IF disk[h.file] # None /\ disk[h.file].stamp = h.stamp
          THEN inventory' = [inventory EXCEPT ![i].hashing = @ \ {h}, ![i].files = @ \cup {h}]
          ELSE Failed(i)
    /\ UNCHANGED <<disk, written, cache>>

\* writeSourceFingerprintCache replaces the file in one rename.
WriteFingerprints(i) ==
    /\ inventory[i].phase = "hash"
    /\ inventory[i].queue = {} /\ inventory[i].hashing = {}
    /\ inventory' = [inventory EXCEPT ![i].phase = "done"]
    /\ cache' = IF Settings.save THEN inventory[i].files ELSE cache
    /\ UNCHANGED <<disk, written>>

\* A root or a file is gone, a read or a write fails, or the caller aborts.
Fail(i) ==
    /\ inventory[i].phase \in {"walk", "hash"}
    /\ Failed(i)
    /\ UNCHANGED <<disk, written, cache>>

\* sourceRuleDiagnostics: rules that select nothing, and excluded files whose
\* content is indexed under another path.
Unmatched(files) ==
    LET found(n) ==
            IF EntryAt(n).kind = "glob" THEN EntryAt(n).files \cap {r.file : r \in files}
            ELSE Present(EntryAt(n).files)
    IN  {n \in Numbers \ {0} : found(n) = {}}
Copies(files) ==
    {f \in Present(Ignored) : disk[f].content \notin Oversized /\ \E r \in files : r.checksum = disk[f].content}

Diagnose(i) ==
    /\ inventory[i].phase = "done"
    /\ inventory' = [inventory EXCEPT ![i] =
            [@ EXCEPT !.phase = "end", !.unmatched = Unmatched(inventory[i].files),
                      !.copies = Copies(inventory[i].files)]]
    /\ UNCHANGED <<disk, written, cache>>

-----------------------------------------------------------------------------
(* The files.                                                               *)

WriteFile(f, content) ==
    /\ Len(written) < MaxWrites
    /\ written' = Append(written, content)
    /\ disk' = [disk EXCEPT ![f] = [content |-> content, stamp |-> Len(written')]]
    /\ UNCHANGED <<cache, inventory>>

RemoveFile(f) ==
    /\ disk[f] # None /\ Len(written) < MaxWrites
    /\ written' = Append(written, None)
    /\ disk' = [disk EXCEPT ![f] = None]
    /\ UNCHANGED <<cache, inventory>>

\* The files that are there at first, all with one content.
DiscoveryInit(present, content) ==
    /\ disk = [f \in Files |-> IF f \in present THEN [content |-> content, stamp |-> 1] ELSE None]
    /\ written = <<content>> /\ cache = {}
    /\ inventory = [i \in Inventories |-> NoInventory]

DiscoveryNext ==
    \/ \E i \in Inventories :
          \/ StartInventory(i) \/ Walk(i) \/ EndWalk(i) \/ LoadCache(i)
          \/ Reuse(i) \/ (\E aged \in BOOLEAN : Checksum(i, aged))
          \/ StatAgain(i) \/ WriteFingerprints(i) \/ Fail(i) \/ Diagnose(i)
    \/ \E f \in Files : RemoveFile(f) \/ \E content \in Contents : WriteFile(f, content)

DiscoverySpec(present, content) == DiscoveryInit(present, content) /\ [][DiscoveryNext]_discoveryVars

-----------------------------------------------------------------------------
(* Properties.                                                              *)

\* inventorySourceFiles: whatever edits and other inventories run meanwhile, a
\* fingerprint that is kept or returned is that of the content the file had
\* under these times, and not of another one.
FingerprintsTrue ==
    LET true(r) == written[r.stamp] = r.checksum
    IN  /\ \A r \in cache : true(r)
        /\ \A i \in Inventories : inventory[i].phase \in {"done", "end"} =>
              \A r \in inventory[i].files : true(r)

\* An entry reaches a file: it selects it, and no rule of its own walk passes it over.
Reaches(n, f) == f \in EntryAt(n).files /\ ~PassedOver(EntryAt(n), f) /\ f \notin IgnoredIn(n)

\* discoverSourceCandidates: a file that stayed as it was is indexed under its
\* citation path or reported, if the walk of any entry reaches it, and only then; two files
\* of one citation path are not both indexed unseen; and no rule that selected an
\* indexed file is called unmatched.
SelectionTrue ==
    \A i \in Inventories : inventory[i].phase \in {"hash", "done", "end"} =>
      LET run == inventory[i]
          reached == {f \in Files : ~IsExcluded(f) /\ \E n \in Roots \cup Patterns : Reaches(n, f)}
          steady == {f \in Present(Files) : disk[f].stamp <= run.since}
          known == {KeyOf(c) : c \in run.candidates} \cup DOMAIN run.skipped
          indexed == {c.file : c \in run.candidates}
      IN  /\ indexed \subseteq reached
          /\ \A f \in steady \cap reached : Place[f].key \in known
          /\ \A f, g \in steady \cap reached :
                f # g /\ Place[f].key = Place[g].key
                  => \/ {f, g} \cap DOMAIN run.skipped # {}
                     \/ Place[f].key \in DOMAIN run.skipped
          /\ run.phase = "end" => \A n \in run.unmatched :
                EntryAt(n).kind = "glob" => EntryAt(n).files \cap indexed = {}

\* `sources` lists folders, files, and globs relative to the project root, a leading ! excludes
\* (configuration.md:212): a file that stayed as it was is indexed or reported when an entry selects
\* it and no exclusion matches its path from the project root.
ExcludedFromProjectRoot ==
    \A i \in Inventories : inventory[i].phase \in {"hash", "done", "end"} =>
      LET run == inventory[i]
      IN  \A f \in Present(Files), n \in Roots \cup Patterns :
             (/\ disk[f].stamp <= run.since /\ ~IsExcluded(f)
              /\ f \in EntryAt(n).files /\ ~PassedOver(EntryAt(n), f))
                => Place[f].key \in {KeyOf(c) : c \in run.candidates} \cup DOMAIN run.skipped

DiscoverySound == FingerprintsTrue /\ SelectionTrue

=============================================================================
