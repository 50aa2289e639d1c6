---------------------------- MODULE ProjectConfig ----------------------------
(***************************************************************************)
(* The two files of settings of a project (config.ts): the file of this      *)
(* machine and the one the team shares, whose keys the first overrides; and   *)
(* the commands of one process that change them, one after the other for      *)
(* each file (project-config-file.ts, sources.ts, semantic-config.ts,         *)
(* config-migration.ts).  The user edits the files meanwhile.                 *)
(***************************************************************************)
EXTENDS Helpers, FiniteSets

CONSTANTS
    Changes,   \* the calls that change the settings
    MaxTweaks  \* bound on the edits of the user

VARIABLES
    settings,  \* [file -> its keys, or None]; a key that is not there is None
    writes,    \* [file -> the calls in its queue]
    change,    \* [call -> what it does and how far it is]
    backups,   \* the retired settings that were saved
    granted,   \* (history) the calls that have reported the entry, or the provider, they wrote
    undone,    \* (history) those of them whose file initProject has written over since
    tweaks     \* how many edits there were

configVars == <<settings, writes, change, backups, granted, undone, tweaks>>

LocalFile == "local"
SharedFile == "shared"
ConfigFiles == {LocalFile, SharedFile}
NoSettings == [sources |-> None, provider |-> None, model |-> None, digest |-> None, retired |-> None]
InitialConfig == [sources |-> {}, provider |-> "hash", model |-> "default", digest |-> None, retired |-> None]
NoChange == [does |-> "nothing", at |-> "idle", entry |-> None, fetched |-> None, file |-> None, read |-> None]

\* The values of keys: the digest is known by the model it is of.
SourceEntries == {"docs", "specs"}
Models == {"default", "ours", "theirs"}
SettingKeys == [sources : (SUBSET SourceEntries) \cup {None}, provider : {"hash", "transformers", None},
                model : Models \cup {None}, digest : Models \cup {None}, retired : {"masking", None}]
ASSUME ConfigAssumption ==
    /\ None \notin SettingKeys /\ \A sources \in SUBSET SourceEntries : sources # None
    /\ None \notin {"hash", "transformers", "masking"} \cup Models

ConfigInit ==
    /\ settings \in [ConfigFiles -> {None, [InitialConfig EXCEPT !.retired = "masking"],
                                     [NoSettings EXCEPT !.model = "ours"], [NoSettings EXCEPT !.sources = {"docs"}]}]
    /\ writes = [file \in ConfigFiles |-> <<>>]
    /\ change = [c \in Changes |-> NoChange]
    /\ backups = {} /\ granted = {} /\ undone = {} /\ tweaks = 0

\* findProjectConfig: where changes go.
ConfigPath == IF settings[LocalFile] = None /\ settings[SharedFile] # None THEN SharedFile ELSE LocalFile

\* readMergedProjectConfig: key by key.
Keys(file) == IF settings[file] = None THEN NoSettings ELSE settings[file]
Merged == [key \in DOMAIN NoSettings |->
              IF Keys(LocalFile)[key] # None THEN Keys(LocalFile)[key] ELSE Keys(SharedFile)[key]]
RetiredConfigKeys(keys) == keys.retired # None
Loads == ~RetiredConfigKeys(Merged)
Model(keys) == IF keys.model = None THEN "default" ELSE keys.model

-----------------------------------------------------------------------------
(* The calls: load, find the file, wait for its queue, read, write.           *)

Is(c, does, at) == change[c].does = does /\ change[c].at = at
Becomes(c, record) == change' = [change EXCEPT ![c] = record]
Steps(c, at) == Becomes(c, [change[c] EXCEPT !.at = at])

AddSourceEntries(c, entry) ==
    /\ change[c] = NoChange
    /\ Becomes(c, [NoChange EXCEPT !.does = "add", !.at = IF Loads THEN "locate" ELSE "refused", !.entry = entry])
    /\ UNCHANGED <<settings, writes, backups, granted, undone, tweaks>>

\* enableSemanticEmbeddings, alone or with the model that setup or `models pull` has fetched.
EnableSemanticEmbeddings(c, fetched) ==
    /\ change[c] = NoChange
    /\ Becomes(c, [NoChange EXCEPT !.does = "enable", !.at = IF fetched /\ ~Loads THEN "refused" ELSE "init",
                                  !.fetched = IF fetched /\ Loads THEN Model(Merged) ELSE None])
    /\ UNCHANGED <<settings, writes, backups, granted, undone, tweaks>>

\* initProject looks whether a file is there ...
CheckConfig(c) ==
    /\ Is(c, "enable", "init")
    /\ Steps(c, IF settings = [file \in ConfigFiles |-> None] THEN "initialize" ELSE "locate")
    /\ UNCHANGED <<settings, writes, backups, granted, undone, tweaks>>

\* ... and, once the directory is made, writes the defaults over whatever is there by now, outside the queue.
WriteInitial(c) ==
    /\ Is(c, "enable", "initialize") /\ Steps(c, "locate")
    /\ settings' = [settings EXCEPT ![LocalFile] = InitialConfig]
    /\ undone' = undone \cup {d \in granted : change[d].file = LocalFile}
    /\ UNCHANGED <<writes, backups, granted, tweaks>>

MigrateRetiredConfig(c) ==
    /\ change[c] = NoChange /\ Becomes(c, [NoChange EXCEPT !.does = "migrate", !.at = "locate"])
    /\ UNCHANGED <<settings, writes, backups, granted, undone, tweaks>>

Locate(c) ==
    /\ change[c].at = "locate"
    /\ Becomes(c, [change[c] EXCEPT !.at = "enqueue", !.file = ConfigPath])
    /\ UNCHANGED <<settings, writes, backups, granted, undone, tweaks>>

\* mutateProjectConfig
Enqueue(c) ==
    /\ change[c].at = "enqueue" /\ Steps(c, "queued")
    /\ writes' = [writes EXCEPT ![change[c].file] = Append(@, c)]
    /\ UNCHANGED <<settings, backups, granted, undone, tweaks>>

Turned_Unqueued(c) == change[c].at = "queued"
Turned(c) == change[c].at = "queued" /\ Head(writes[change[c].file]) = c
ReadSettings(c) ==
    /\ Turned(c)
    /\ Becomes(c, [change[c] EXCEPT !.at = "mutate", !.read = Keys(change[c].file)])
    /\ UNCHANGED <<settings, writes, backups, granted, undone, tweaks>>

\* What a call makes of the keys it has read.
Entries(keys) == IF keys.sources = None THEN {} ELSE keys.sources
Mutated(op) ==
    CASE op.does = "add" -> [op.read EXCEPT !.sources = Entries(op.read) \cup {op.entry}]
      [] op.does = "enable" -> [op.read EXCEPT !.provider = "transformers", !.model = Model(op.read),
                                            !.digest = IF op.fetched # None THEN op.fetched ELSE @]
      [] op.does = "migrate" -> [op.read EXCEPT !.retired = None]
NothingToChange(op) ==
    \/ op.does = "add" /\ op.entry \in Entries(op.read)
    \/ op.does = "migrate" /\ ~RetiredConfigKeys(op.read)

Leave(c, at) ==
    /\ Steps(c, at) /\ writes' = [writes EXCEPT ![change[c].file] = Tail(@)]
Skip(c) ==
    /\ change[c].at = "mutate" /\ NothingToChange(change[c]) /\ Leave(c, "done")
    /\ UNCHANGED <<settings, backups, granted, undone, tweaks>>
BackUp(c) ==
    /\ Is(c, "migrate", "mutate") /\ ~NothingToChange(change[c]) /\ Steps(c, "write")
    /\ backups' = backups \cup {<<change[c].file, change[c].read.retired>>}
    /\ UNCHANGED <<settings, writes, granted, undone, tweaks>>

\* writeProjectConfigObject: a temporary file, renamed.
WriteSettings(c) ==
    /\ change[c].at = IF change[c].does = "migrate" THEN "write" ELSE "mutate"
    /\ ~NothingToChange(change[c]) /\ Leave(c, "done")
    /\ settings' = [settings EXCEPT ![change[c].file] = Mutated(change[c])]
    /\ granted' = IF change[c].does = "migrate" THEN granted ELSE granted \cup {c}
    /\ UNCHANGED <<backups, undone, tweaks>>

\* An I/O error in the queue; the next call takes its turn all the same.
ChangeFails(c) ==
    /\ change[c].at \in {"mutate", "write"} \/ Turned(c)
    /\ Leave(c, "failed")
    /\ UNCHANGED <<settings, backups, granted, undone, tweaks>>

\* The user, between the commands that read the file and those that write it.
NobodyHolds(file) == \A c \in Changes : change[c].at \in {"mutate", "write"} => change[c].file # file
TweakSettings(file) ==
    /\ tweaks < MaxTweaks /\ tweaks' = tweaks + 1 /\ NobodyHolds(file)
    /\ \/ settings[file] = None /\ settings' = [settings EXCEPT ![file] = [NoSettings EXCEPT !.provider = "hash"]]
       \/ settings[file] # None /\ settings' = [settings EXCEPT ![file].model = "theirs"]
    /\ UNCHANGED <<writes, change, backups, granted, undone>>

ConfigNext ==
    \/ \E c \in Changes :
          \/ \E entry \in SourceEntries : AddSourceEntries(c, entry)
          \/ \E fetched \in BOOLEAN : EnableSemanticEmbeddings(c, fetched)
          \/ CheckConfig(c) \/ WriteInitial(c) \/ MigrateRetiredConfig(c)
          \/ Locate(c) \/ Enqueue(c) \/ ReadSettings(c)
          \/ Skip(c) \/ BackUp(c) \/ WriteSettings(c) \/ ChangeFails(c)
    \/ \E file \in ConfigFiles : TweakSettings(file)

ConfigSpec == ConfigInit /\ [][ConfigNext]_configVars

-----------------------------------------------------------------------------
(* Properties.                                                              *)

Made(c) ==
    /\ settings[change[c].file] # None
    /\ change[c].does = "add" => change[c].entry \in Entries(settings[change[c].file])
    /\ change[c].does = "enable" => settings[change[c].file].provider = "transformers"

\* Whatever other calls of the process write after it, an entry that was reported as added is in
\* the file, and a provider that was reported as enabled is enabled (sources.test.ts:80).
ChangesKept == \A c \in granted : Made(c)

\* The same of every call whose file was not initialized again since: those that wait for each
\* other in the queue keep what the others have written.
KeptUnlessReset == \A c \in granted \ undone : Made(c)

\* A retired setting that a file had at first is in it, or in a backup.
RetiredBackedUp ==
    \A c \in Changes : (Is(c, "migrate", "done") /\ RetiredConfigKeys(change[c].read)) =>
        <<change[c].file, change[c].read.retired>> \in backups

\* After the migration of `rgr upgrade` a retired setting is only in the file it does not write to.
UpgradeMigrates ==
    \A c \in Changes : Is(c, "migrate", "done") => ~RetiredConfigKeys(Keys(change[c].file))

\* The model that `models pull --enable` has fetched is the one that is enabled: without edits of
\* the user the settings name it.
FetchedIsEnabled ==
    \A c \in Changes : (Is(c, "enable", "done") /\ change[c].fetched # None /\ tweaks = 0) =>
        Model(Merged) = change[c].fetched

\* What calls add or enable is undone by no call of the queue, only by an initialization that found
\* no file before; and what a migration takes away is backed up, and gone.
ConfigSound == KeptUnlessReset /\ RetiredBackedUp /\ UpgradeMigrates
=============================================================================
