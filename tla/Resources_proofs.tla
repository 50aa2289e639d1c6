-------------------------- MODULE Resources_proofs --------------------------
(* Proofs about the cached pipelines, the queue for the library's environment *)
(* and the installation of models, for any calls, clients, pulls and keys, and *)
(* about the texts that an OCR command reads, for any PDFs and engines.        *)
EXTENDS Embeddings, Extraction, FiniteSetTheorems, SequenceTheorems, TLAPS

-----------------------------------------------------------------------------
(* The inductive invariant.                                                 *)

Jobs == Entries \cup Pulls
Records ==
    [key : Keys \cup {None}, creation : {"none", "queued", "loading", "ready", "failed"},
     retry : BOOLEAN, leases : Nat, retired : BOOLEAN,
     disposal : {"none", "begun", "running", "done"}]

NoTwice(s) == \A i, j \in DOMAIN s : s[i] = s[j] => i = j

TypeInv ==
    /\ entry \in [Entries -> Records]
    /\ cache \in Seq(Entries) /\ NoTwice(cache) /\ Len(cache) <= MaxPipelines
    /\ queue \in Seq(Jobs) /\ NoTwice(queue)
    /\ env \in Jobs \cup {None}
    /\ saved \in [Jobs -> Jobs \cup {None}]
    /\ pc \in [Calls -> {"idle", "acquiring", "embedding", "leaving", "settled"}]
    /\ on \in [Calls -> Entries \cup {None}]
    /\ pull \in [Pulls -> {"idle", "queued", "loading", "checking", "aside", "swap", "rollback",
                           "cleanup", "ended"}]

\* The calls that have a lease on an entry.
Holders(e) == {c \in Calls : pc[c] \in {"acquiring", "embedding"} /\ on[c] = e}

LeaseInv ==
    /\ \A c \in Calls : pc[c] \in {"acquiring", "embedding"} => on[c] # None
    /\ \A e \in Entries :
          /\ entry[e].leases = Cardinality(Holders(e))
          /\ entry[e].retired <=> entry[e].disposal # "none"
          /\ entry[e].disposal \in {"running", "done"} => entry[e].leases = 0
          /\ entry[e].disposal = "running" => entry[e].creation = "ready"
          /\ entry[e].disposal = "done" => entry[e].creation \in {"none", "failed"}

\* An entry that is not retired is in the cache, unless its creation failed.
CacheInv ==
    \A e \in Entries :
        /\ e \in ToSet(cache) => ~entry[e].retired /\ entry[e].creation # "none"
        /\ entry[e].creation \in {"queued", "loading", "ready"} /\ ~entry[e].retired
              => e \in ToSet(cache)

\* Only the first job of the queue has the environment.
Loads(j) == IF j \in Entries THEN entry[j].creation = "loading" ELSE pull[j] = "loading"
Waits(j) == IF j \in Entries THEN entry[j].creation = "queued" ELSE pull[j] = "queued"

QueueInv ==
    /\ \A j \in Jobs : j \in ToSet(queue) <=> Waits(j) \/ Loads(j)
    /\ \A j \in Jobs : Loads(j) => env = j
    /\ env # None => queue # <<>> /\ queue[1] = env /\ Loads(env) /\ saved[env] = None
    /\ \A p \in Pulls : p \in Elsewhere => pull[p] \in {"idle", "ended"}

IInv == TypeInv /\ LeaseInv /\ CacheInv /\ QueueInv

\* A model that is away is aside, at a pull that is still to bring one back or was cut off.
ModelInv ==
    /\ aside \in [Pulls -> Pulls \cup {"old", None}]
    /\ model \in Pulls \cup {"old", None}
    /\ \A p \in Pulls : pull[p] = "rollback" => aside[p] # None
    /\ model = None => \E p \in Pulls : aside[p] # None /\ pull[p] # "cleanup"
    /\ model = None /\ ~died =>
          \E p \in Pulls : aside[p] # None /\ pull[p] \in {"swap", "rollback"}

-----------------------------------------------------------------------------
(* Sequences without repetitions.                                           *)

LEMMA WithoutOne ==
  ASSUME NEW S, NEW s \in Seq(S), NoTwice(s), NEW x
  PROVE  /\ Without(s, x) \in Seq(S) /\ NoTwice(Without(s, x))
         /\ ToSet(Without(s, x)) = ToSet(s) \ {x}
         /\ Len(Without(s, x)) = IF x \in ToSet(s) THEN Len(s) - 1 ELSE Len(s)
<1>1. CASE x \notin ToSet(s)
  BY <1>1 DEF Without, ToSet
<1>2. CASE x \in ToSet(s)
  <2> DEFINE n == Len(s)
             p == Position(x, s)
             w == RemoveAt(s, p)
  <2>0. p \in DOMAIN s /\ s[p] = x
    <3>1. \E i \in DOMAIN s : s[i] = x
      BY <1>2 DEF ToSet
    <3> QED
      BY <3>1 DEF Position
  <2>1. /\ n \in Nat /\ DOMAIN s = 1 .. n /\ p \in 1 .. n /\ s[p] = x
        /\ \A i \in 1 .. n : s[i] \in S
    BY <2>0
  <2> HIDE DEF p, n
  <2>2. /\ SubSeq(s, 1, p - 1) \in Seq(S) /\ Len(SubSeq(s, 1, p - 1)) = p - 1
        /\ \A i \in 1 .. p - 1 : SubSeq(s, 1, p - 1)[i] = s[i]
    BY <2>1 DEF n
  <2>3. /\ SubSeq(s, p + 1, n) \in Seq(S) /\ Len(SubSeq(s, p + 1, n)) = n - p
        /\ \A i \in 1 .. n - p : SubSeq(s, p + 1, n)[i] = s[p + i]
    <3>1. p + 1 \in Int /\ n \in Int /\ \A i \in p + 1 .. n : s[i] \in S
      BY <2>1
    <3>2. /\ SubSeq(s, p + 1, n) \in Seq(S)
          /\ Len(SubSeq(s, p + 1, n)) = IF p + 1 <= n THEN n - (p + 1) + 1 ELSE 0
          /\ \A i \in 1 .. n - (p + 1) + 1 : SubSeq(s, p + 1, n)[i] = s[p + 1 + i - 1]
      BY <3>1, SubSeqProperties
    <3> QED
      BY <2>1, <3>2
  <2>4. w = SubSeq(s, 1, p - 1) \o SubSeq(s, p + 1, n)
    BY DEF RemoveAt, n
  <2>5. /\ w \in Seq(S) /\ Len(w) = n - 1
        /\ \A i \in 1 .. n - 1 : w[i] = IF i < p THEN s[i] ELSE s[i + 1]
    <3>1. w \in Seq(S) /\ Len(w) = n - 1
      BY <2>1, <2>2, <2>3, <2>4
    <3>2. ASSUME NEW i \in 1 .. n - 1 PROVE w[i] = IF i < p THEN s[i] ELSE s[i + 1]
      BY <2>1, <2>2, <2>3, <2>4, ConcatProperties
    <3> QED
      BY <3>1, <3>2
  <2> HIDE DEF w
  <2>n. \A i, j \in 1 .. n : s[i] = s[j] => i = j
    BY <2>1 DEF NoTwice
  <2>i. ASSUME NEW i \in 1 .. n - 1
        PROVE  \E k \in 1 .. n : w[i] = s[k] /\ k # p /\ k = IF i < p THEN i ELSE i + 1
    <3>1. CASE i < p
      BY <2>1, <2>5, <3>1
    <3>2. CASE i >= p
      BY <2>1, <2>5, <3>2
    <3> QED
      BY <2>1, <3>1, <3>2
  <2>6. ASSUME NEW i \in 1 .. n - 1, NEW j \in 1 .. n - 1, w[i] = w[j] PROVE i = j
    <3>1. PICK k \in 1 .. n : w[i] = s[k] /\ k = IF i < p THEN i ELSE i + 1
      BY <2>i
    <3>2. PICK l \in 1 .. n : w[j] = s[l] /\ l = IF j < p THEN j ELSE j + 1
      BY <2>i
    <3>3. k = l
      BY <2>6, <2>n, <3>1, <3>2
    <3> QED
      BY <2>1, <3>1, <3>2, <3>3
  <2>7. \A u \in ToSet(w) : u \in ToSet(s) /\ u # x
    <3>1. ASSUME NEW i \in 1 .. n - 1 PROVE w[i] \in ToSet(s) /\ w[i] # x
      BY <2>1, <2>i, <2>n DEF ToSet
    <3> QED
      BY <3>1, <2>5 DEF ToSet
  <2>8. ASSUME NEW u \in ToSet(s), u # x PROVE u \in ToSet(w)
    <3>1. PICK i \in 1 .. n : s[i] = u
      BY <2>1, <2>8 DEF ToSet
    <3>2. CASE i < p
      BY <2>1, <2>5, <3>1, <3>2 DEF ToSet
    <3>3. CASE i > p
      <4>1. i - 1 \in 1 .. n - 1 /\ w[i - 1] = u
        BY <2>1, <2>5, <3>1, <3>3
      <4> QED
        BY <4>1, <2>5 DEF ToSet
    <3> QED
      BY <2>1, <2>8, <3>1, <3>2, <3>3
  <2>9. Without(s, x) = w
    BY <1>2 DEF Without, w, p
  <2>10. DOMAIN w = 1 .. n - 1
    BY <2>5
  <2>11. NoTwice(Without(s, x))
    BY <2>6, <2>9, <2>10 DEF NoTwice
  <2> QED
    BY <1>2, <2>5, <2>7, <2>8, <2>9, <2>11 DEF n
<1> QED
  BY <1>1, <1>2

LEMMA AppendOne ==
  ASSUME NEW S, NEW s \in Seq(S), NoTwice(s), NEW x \in S, x \notin ToSet(s)
  PROVE  /\ Append(s, x) \in Seq(S) /\ NoTwice(Append(s, x))
         /\ ToSet(Append(s, x)) = ToSet(s) \cup {x}
         /\ Len(Append(s, x)) = Len(s) + 1
         /\ \A i \in 1 .. Len(s) : Append(s, x)[i] = s[i]
<1> DEFINE n == Len(s)
           a == Append(s, x)
<1>1. n \in Nat /\ DOMAIN s = 1 .. n
  OBVIOUS
<1>2. /\ a \in Seq(S) /\ Len(a) = n + 1 /\ DOMAIN a = 1 .. n + 1
      /\ \A i \in 1 .. n : a[i] = s[i]
      /\ a[n + 1] = x
  BY <1>1
<1> HIDE DEF a, n
<1>3. \A i \in 1 .. n : s[i] # x
  BY <1>1 DEF ToSet
<1>4. \A i, j \in 1 .. n + 1 : a[i] = a[j] => i = j
  BY <1>1, <1>2, <1>3 DEF NoTwice
<1>5. \A u : (\E i \in 1 .. n + 1 : a[i] = u) <=> (\E i \in 1 .. n : s[i] = u) \/ u = x
  BY <1>1, <1>2
<1>6. ToSet(a) = ToSet(s) \cup {x}
  BY <1>1, <1>2, <1>5 DEF ToSet
<1> QED
  BY <1>2, <1>4, <1>6 DEF a, n, NoTwice

\* The first member of a queue stays the first when others come or go behind it.
LEMMA FirstMember ==
  ASSUME NEW S, NEW s \in Seq(S), s # <<>>
  PROVE  s[1] \in ToSet(s) /\ s[1] \in S /\ Len(s) >= 1
<1>1. Len(s) \in Nat /\ Len(s) # 0 /\ DOMAIN s = 1 .. Len(s)
  OBVIOUS
<1>2. 1 \in DOMAIN s
  BY <1>1
<1> QED
  BY <1>1, <1>2 DEF ToSet

-----------------------------------------------------------------------------
(* What the operations do to the record of an entry.                        *)

LEMMA NoEntryRecord == NoEntry \in Records
BY DEF NoEntry, Records

LEMMA DisposedRecord ==
  /\ Disposed \in Records
  /\ Disposed.creation = "none" /\ Disposed.leases = 0 /\ Disposed.retired
  /\ Disposed.disposal = "done"
BY DEF Disposed, NoEntry, Records

LEMMA QueuedRecord ==
  ASSUME NEW k \in Keys
  PROVE  /\ Queued(k) \in Records
         /\ Queued(k).creation = "queued" /\ Queued(k).leases = 1 /\ ~Queued(k).retired
         /\ Queued(k).disposal = "none"
BY DEF Queued, Records

Leased(r, n) == [r EXCEPT !.leases = n]
Created(r, s) == [r EXCEPT !.creation = s]
InDisposal(r, s) == [r EXCEPT !.disposal = s]

LEMMA LeasesRecord ==
  ASSUME NEW r \in Records, NEW n \in Nat
  PROVE  /\ Leased(r, n) \in Records
         /\ Leased(r, n).creation = r.creation
         /\ Leased(r, n).leases = n
         /\ Leased(r, n).retired = r.retired
         /\ Leased(r, n).disposal = r.disposal
BY DEF Leased, Records

LEMMA CreationRecord ==
  ASSUME NEW r \in Records, NEW s \in {"loading", "ready"}
  PROVE  /\ Created(r, s) \in Records
         /\ Created(r, s).creation = s
         /\ Created(r, s).leases = r.leases
         /\ Created(r, s).retired = r.retired
         /\ Created(r, s).disposal = r.disposal
BY DEF Created, Records

LEMMA DisposalRecord ==
  ASSUME NEW r \in Records, NEW s \in {"running", "done"}
  PROVE  /\ InDisposal(r, s) \in Records
         /\ InDisposal(r, s).creation = r.creation
         /\ InDisposal(r, s).leases = r.leases
         /\ InDisposal(r, s).retired = r.retired
         /\ InDisposal(r, s).disposal = s
BY DEF InDisposal, Records

LEMMA FailedRecord ==
  ASSUME NEW r \in Records
  PROVE  /\ Failed(r) \in Records
         /\ Failed(r).creation = IF r.retry THEN "queued" ELSE "failed"
         /\ Failed(r).leases = r.leases
         /\ Failed(r).retired = r.retired
         /\ Failed(r).disposal = r.disposal
BY DEF Failed, Records

LEMMA RetiredRecord ==
  ASSUME NEW r \in Records
  PROVE  /\ Retired(r) \in Records
         /\ Retired(r).creation = r.creation
         /\ Retired(r).leases = r.leases
         /\ Retired(r).retired = TRUE
         /\ Retired(r).disposal = IF r.disposal = "none" THEN "begun" ELSE r.disposal
BY DEF Retired, Records

-----------------------------------------------------------------------------
(* The steps.                                                               *)

\* Steps that only bring a pull on, which neither waits nor loads.
LEMMA QuietStep ==
  ASSUME IInv, UNCHANGED <<pipelines, library, calls>>,
         pull' \in [Pulls -> {"idle", "queued", "loading", "checking", "aside", "swap",
                              "rollback", "cleanup", "ended"}],
         \A p \in Pulls : \/ pull'[p] = pull[p]
                         \/ {pull[p], pull'[p]} \cap {"queued", "loading"} = {},
         \A p \in Pulls : p \in Elsewhere => pull'[p] \in {"idle", "ended"}
  PROVE  IInv'
<1> USE DEF pipelines, library, calls
<1>1. TypeInv'
  BY DEF IInv, TypeInv
<1>2. LeaseInv'
  BY DEF IInv, LeaseInv, Holders
<1>3. CacheInv'
  BY DEF IInv, CacheInv
<1>4. \A j \in Jobs : (Loads(j)' <=> Loads(j)) /\ (Waits(j)' <=> Waits(j))
  BY DEF Loads, Waits, Jobs
<1>5. env \in Jobs \cup {None}
  BY DEF IInv, TypeInv
<1>6. QueueInv'
  BY <1>4, <1>5 DEF IInv, QueueInv
<1> QED
  BY <1>1, <1>2, <1>3, <1>6 DEF IInv

\* Steps of a call that keep its lease, or that it has none for.
LEMMA CallStep ==
  ASSUME IInv, UNCHANGED <<pipelines, library, pull>>, NEW c \in Calls,
         pc' \in [Calls -> {"idle", "acquiring", "embedding", "leaving", "settled"}],
         on' \in [Calls -> Entries \cup {None}],
         \A d \in Calls \ {c} : pc'[d] = pc[d] /\ on'[d] = on[d],
         pc[c] \in {"acquiring", "embedding"} <=> pc'[c] \in {"acquiring", "embedding"},
         pc[c] \in {"acquiring", "embedding"} => on'[c] = on[c]
  PROVE  IInv'
<1> USE DEF pipelines, library
<1>1. TypeInv'
  BY DEF IInv, TypeInv
<1>2. \A e \in Entries : Holders(e)' = Holders(e)
  BY DEF Holders
<1>3. \A d \in Calls : pc'[d] \in {"acquiring", "embedding"} => on'[d] # None
  BY DEF IInv, LeaseInv
<1>4. LeaseInv'
  BY <1>2, <1>3 DEF IInv, LeaseInv
<1>5. CacheInv'
  BY DEF IInv, CacheInv
<1>6. \A j : (Loads(j)' <=> Loads(j)) /\ (Waits(j)' <=> Waits(j))
  BY DEF Loads, Waits
<1>7. QueueInv'
  BY <1>6 DEF IInv, QueueInv
<1> QED
  BY <1>1, <1>4, <1>5, <1>7 DEF IInv

\* Entries are taken from the cache and retired.
LEMMA RetireStep ==
  ASSUME IInv, UNCHANGED <<library, calls, pull>>, NEW gone \in SUBSET ToSet(cache),
         entry' = Retire(entry, gone),
         cache' \in Seq(Entries), NoTwice(cache'), Len(cache') <= MaxPipelines,
         ToSet(cache') = ToSet(cache) \ gone
  PROVE  IInv'
<1> USE DEF library, calls
<1>t. entry \in [Entries -> Records]
  BY DEF IInv, TypeInv
<1>0. ASSUME NEW e \in Entries
      PROVE  /\ entry'[e] \in Records
             /\ entry'[e].creation = entry[e].creation /\ entry'[e].leases = entry[e].leases
             /\ e \notin gone => entry'[e] = entry[e]
             /\ e \in gone =>
                  /\ entry'[e].retired
                  /\ entry'[e].disposal = IF entry[e].disposal = "none" THEN "begun"
                                                                    ELSE entry[e].disposal
  <2>1. entry[e] \in Records
    BY <1>t
  <2>2. entry'[e] = IF e \in gone THEN Retired(entry[e]) ELSE entry[e]
    BY DEF Retire
  <2> QED
    BY <2>1, <2>2, RetiredRecord
<1>1. entry' \in [Entries -> Records]
  BY <1>0 DEF Retire
<1>2. TypeInv'
  BY <1>1 DEF IInv, TypeInv
<1>3. LeaseInv'
  <2>1. \A e \in Entries : Holders(e)' = Holders(e)
    BY DEF Holders
  <2>2. ASSUME NEW e \in Entries
        PROVE  /\ entry'[e].leases = Cardinality(Holders(e))
               /\ entry'[e].retired <=> entry'[e].disposal # "none"
               /\ entry'[e].disposal \in {"running", "done"} => entry'[e].leases = 0
               /\ entry'[e].disposal = "running" => entry'[e].creation = "ready"
               /\ entry'[e].disposal = "done" => entry'[e].creation \in {"none", "failed"}
    BY <1>0 DEF IInv, LeaseInv
  <2> QED
    BY <2>1, <2>2 DEF IInv, LeaseInv
<1>4. CacheInv'
  BY <1>0 DEF IInv, CacheInv
<1>5. \A j \in Jobs : (Loads(j)' <=> Loads(j)) /\ (Waits(j)' <=> Waits(j))
  BY <1>0 DEF Loads, Waits, Jobs
<1>6. QueueInv'
  <2>1. env \in Jobs \cup {None}
    BY DEF IInv, TypeInv
  <2> QED
    BY <1>5, <2>1 DEF IInv, QueueInv
<1> QED
  BY <1>2, <1>3, <1>4, <1>6 DEF IInv

LEMMA HoldersFinite ==
  ASSUME EmbeddingsAssumption, NEW e
  PROVE  IsFiniteSet(Holders(e)) /\ Cardinality(Holders(e)) \in Nat
<1>1. IsFiniteSet(Calls) /\ Holders(e) \subseteq Calls
  BY DEF EmbeddingsAssumption, Holders
<1>2. IsFiniteSet(Holders(e))
  BY <1>1, FS_Subset
<1> QED
  BY <1>2, FS_CardinalityType

\* One entry has another number of leases, which is that of its holders.
LEMMA LeasesStep ==
  ASSUME IInv, UNCHANGED <<library, pull>>, NEW e \in Entries, NEW n \in Nat,
         entry' = [entry EXCEPT ![e].leases = n], n = Cardinality(Holders(e)'),
         \A x \in Entries \ {e} : Holders(x)' = Holders(x),
         entry[e].disposal \in {"running", "done"} => n = 0,
         pc' \in [Calls -> {"idle", "acquiring", "embedding", "leaving", "settled"}],
         on' \in [Calls -> Entries \cup {None}],
         \A c \in Calls : pc'[c] \in {"acquiring", "embedding"} => on'[c] # None,
         cache' \in Seq(Entries), NoTwice(cache'), Len(cache') <= MaxPipelines,
         ToSet(cache') = ToSet(cache)
  PROVE  IInv'
<1> USE DEF library
<1>t. entry \in [Entries -> Records]
  BY DEF IInv, TypeInv
<1>0. ASSUME NEW x \in Entries
      PROVE  /\ entry'[x] \in Records
             /\ entry'[x].creation = entry[x].creation
             /\ entry'[x].leases = IF x = e THEN n ELSE entry[x].leases
             /\ entry'[x].retired = entry[x].retired
             /\ entry'[x].disposal = entry[x].disposal
  <2>1. entry[x] \in Records
    BY <1>t
  <2>2. entry'[x] = IF x = e THEN Leased(entry[x], n) ELSE entry[x]
    BY <1>t DEF Leased
  <2> QED
    BY <2>1, <2>2, LeasesRecord
<1>1. entry' \in [Entries -> Records]
  BY <1>0, <1>t
<1>2. TypeInv'
  BY <1>1 DEF IInv, TypeInv
<1>3. LeaseInv'
  <2>1. ASSUME NEW x \in Entries
        PROVE  /\ entry'[x].leases = Cardinality(Holders(x)')
               /\ entry'[x].retired <=> entry'[x].disposal # "none"
               /\ entry'[x].disposal \in {"running", "done"} => entry'[x].leases = 0
               /\ entry'[x].disposal = "running" => entry'[x].creation = "ready"
               /\ entry'[x].disposal = "done" => entry'[x].creation \in {"none", "failed"}
    <3>1. CASE x = e
      BY <1>0, <3>1 DEF IInv, LeaseInv
    <3>2. CASE x # e
      BY <1>0, <3>2 DEF IInv, LeaseInv
    <3> QED
      BY <3>1, <3>2
  <2> QED
    BY <2>1 DEF LeaseInv
<1>4. CacheInv'
  BY <1>0 DEF IInv, CacheInv
<1>5. \A j \in Jobs : (Loads(j)' <=> Loads(j)) /\ (Waits(j)' <=> Waits(j))
  BY <1>0 DEF Loads, Waits, Jobs
<1>6. QueueInv'
  <2>1. env \in Jobs \cup {None}
    BY DEF IInv, TypeInv
  <2> QED
    BY <1>5, <2>1 DEF IInv, QueueInv
<1> QED
  BY <1>2, <1>3, <1>4, <1>6 DEF IInv

LEMMA ReleaseStep ==
  ASSUME EmbeddingsAssumption, IInv, NEW c \in Calls, pc[c] \in {"acquiring", "embedding"},
         Release(c), UNCHANGED <<cache, library, pull>>
  PROVE  IInv'
<1>e. PICK e \in Entries : e = on[c]
  BY DEF IInv, TypeInv, LeaseInv
<1>n. PICK n : n = entry[e].leases - 1
  OBVIOUS
<1>1. /\ e \in Entries
      /\ entry \in [Entries -> Records]
      /\ pc \in [Calls -> {"idle", "acquiring", "embedding", "leaving", "settled"}]
      /\ on \in [Calls -> Entries \cup {None}]
  BY DEF IInv, TypeInv, LeaseInv
<1>2. /\ \A d \in Calls \ {c} : pc'[d] = pc[d] /\ on'[d] = on[d]
      /\ pc'[c] \in {"leaving", "settled"}
      /\ on'[c] \in Entries \cup {None}
      /\ pc' \in [Calls -> {"idle", "acquiring", "embedding", "leaving", "settled"}]
      /\ on' \in [Calls -> Entries \cup {None}]
  BY <1>1, <1>e DEF Release
<1>3. Holders(e)' = Holders(e) \ {c} /\ c \in Holders(e)
  BY <1>2, <1>e DEF Holders
<1>4. \A x \in Entries \ {e} : Holders(x)' = Holders(x)
  BY <1>2, <1>e DEF Holders
<1>5. entry[e].leases = Cardinality(Holders(e))
  BY <1>1 DEF IInv, LeaseInv
<1>6. n = Cardinality(Holders(e)') /\ n \in Nat /\ entry[e].leases # 0
  <2>1. IsFiniteSet(Holders(e)) /\ Cardinality(Holders(e)) \in Nat
    BY HoldersFinite
  <2>2. IsFiniteSet(Holders(e)')
    BY <1>3, <2>1, FS_Subset
  <2>3. Cardinality(Holders(e)') = Cardinality(Holders(e)) - 1
    BY <1>3, <2>1, FS_RemoveElement
  <2>4. Cardinality(Holders(e)') \in Nat
    BY <2>2, FS_CardinalityType
  <2> QED
    BY <1>5, <1>n, <2>1, <2>2, <2>3, <2>4
<1>7. entry' = [entry EXCEPT ![e].leases = n]
  BY <1>1, <1>e, <1>n DEF Release
<1>8. entry[e].disposal \notin {"running", "done"}
  BY <1>1, <1>6 DEF IInv, LeaseInv
<1>9. \A d \in Calls : pc'[d] \in {"acquiring", "embedding"} => on'[d] # None
  BY <1>2 DEF IInv, LeaseInv
<1>10. cache \in Seq(Entries) /\ NoTwice(cache) /\ Len(cache) <= MaxPipelines
  BY DEF IInv, TypeInv
<1> QED
  BY <1>1, <1>2, <1>4, <1>6, <1>7, <1>8, <1>9, <1>10, LeasesStep

LEMMA CachedEntry ==
  ASSUME NEW k
  PROVE  Cached(k) = None \/ Cached(k) \in ToSet(cache)
<1> DEFINE found == {e \in ToSet(cache) : entry[e].key = k}
<1>1. Cached(k) = IF found = {} THEN None ELSE CHOOSE e \in found : TRUE
  BY DEF Cached
<1>2. CASE found = {}
  BY <1>1, <1>2
<1>3. CASE found # {}
  <2>1. PICK e : e \in found
    BY <1>3
  <2>2. (CHOOSE x \in found : TRUE) \in found
    BY <2>1, Zenon
  <2>3. found \subseteq ToSet(cache)
    OBVIOUS
  <2> HIDE DEF found
  <2> QED
    BY <1>1, <1>3, <2>2, <2>3
<1> QED
  BY <1>2, <1>3

LEMMA AcquireCachedStep ==
  ASSUME EmbeddingsAssumption, IInv, NEW c \in Calls, NEW k \in Keys, AcquireCached(c, k)
  PROVE  IInv'
<1>e. PICK e : e = Cached(k)
  OBVIOUS
<1>n. PICK n : n = entry[e].leases + 1
  OBVIOUS
<1>1. /\ entry \in [Entries -> Records]
      /\ cache \in Seq(Entries) /\ NoTwice(cache) /\ Len(cache) <= MaxPipelines
      /\ pc \in [Calls -> {"idle", "acquiring", "embedding", "leaving", "settled"}]
      /\ on \in [Calls -> Entries \cup {None}]
  BY DEF IInv, TypeInv
<1>2. e # None /\ e \in ToSet(cache) /\ e \in Entries
  <2>1. e # None /\ e \in ToSet(cache)
    BY <1>e, CachedEntry DEF AcquireCached
  <2> QED
    BY <1>1, <2>1 DEF ToSet
<1>3. /\ pc[c] = "idle" /\ pc'[c] = "acquiring" /\ on'[c] = e
      /\ \A d \in Calls \ {c} : pc'[d] = pc[d] /\ on'[d] = on[d]
      /\ pc' \in [Calls -> {"idle", "acquiring", "embedding", "leaving", "settled"}]
      /\ on' \in [Calls -> Entries \cup {None}]
  BY <1>e, <1>1, <1>2 DEF AcquireCached
<1>4. Holders(e)' = Holders(e) \cup {c} /\ c \notin Holders(e)
  BY <1>3 DEF Holders
<1>5. \A x \in Entries \ {e} : Holders(x)' = Holders(x)
  BY <1>3 DEF Holders
<1>6. n = Cardinality(Holders(e)') /\ n \in Nat
  <2>1. IsFiniteSet(Holders(e)) /\ Cardinality(Holders(e)) \in Nat
    BY HoldersFinite
  <2>2. Cardinality(Holders(e)') = Cardinality(Holders(e)) + 1
    BY <1>4, <2>1, FS_AddElement
  <2>3. entry[e].leases = Cardinality(Holders(e))
    BY <1>2 DEF IInv, LeaseInv
  <2> QED
    BY <1>n, <2>1, <2>2, <2>3
<1>7. entry' = [entry EXCEPT ![e].leases = n]
  BY <1>e, <1>n DEF AcquireCached
<1>8. entry[e].disposal = "none"
  BY <1>2 DEF IInv, CacheInv, LeaseInv
<1>9. \A d \in Calls : pc'[d] \in {"acquiring", "embedding"} => on'[d] # None
  BY <1>2, <1>3 DEF IInv, LeaseInv
<1>10. /\ cache' \in Seq(Entries) /\ NoTwice(cache') /\ Len(cache') <= MaxPipelines
       /\ ToSet(cache') = ToSet(cache)
  <2> DEFINE w == Without(cache, e)
  <2>1. /\ w \in Seq(Entries) /\ NoTwice(w) /\ ToSet(w) = ToSet(cache) \ {e}
        /\ Len(w) = Len(cache) - 1
    BY <1>1, <1>2, WithoutOne
  <2>2. cache' = Append(w, e)
    BY <1>e DEF AcquireCached
  <2> HIDE DEF w
  <2>3. /\ cache' \in Seq(Entries) /\ NoTwice(cache') /\ ToSet(cache') = ToSet(w) \cup {e}
        /\ Len(cache') = Len(w) + 1
    <3>1. e \notin ToSet(w)
      BY <2>1
    <3> QED
      BY <1>2, <2>1, <2>2, <3>1, AppendOne
  <2>4. Len(cache') = Len(cache)
    BY <1>1, <2>1, <2>3
  <2> QED
    BY <1>1, <1>2, <2>1, <2>3, <2>4
<1>11. UNCHANGED <<library, pull>>
  BY DEF AcquireCached, install
<1> QED
  BY <1>2, <1>3, <1>5, <1>6, <1>7, <1>8, <1>9, <1>10, <1>11, LeasesStep

LEMMA AcquireNewStep ==
  ASSUME EmbeddingsAssumption, IInv, NEW c \in Calls, NEW k \in Keys, AcquireNew(c, k)
  PROVE  IInv'
<1>e. PICK e : e = NewEntry
  OBVIOUS
<1>v. PICK v : v = Evicted(Append(cache, e))
  OBVIOUS
<1>1. /\ entry \in [Entries -> Records]
      /\ cache \in Seq(Entries) /\ NoTwice(cache) /\ Len(cache) <= MaxPipelines
      /\ queue \in Seq(Jobs) /\ NoTwice(queue)
      /\ env \in Jobs \cup {None}
      /\ pc \in [Calls -> {"idle", "acquiring", "embedding", "leaving", "settled"}]
      /\ on \in [Calls -> Entries \cup {None}]
  BY DEF IInv, TypeInv
<1>2. e \in Entries /\ Unreachable(e)
  <2>1. \E x \in Entries : Unreachable(x)
    BY DEF AcquireNew
  <2> QED
    BY <1>e, <2>1 DEF NewEntry
<1>a. e # None /\ e \notin Pulls /\ e \in Jobs
  BY <1>2 DEF EmbeddingsAssumption, Jobs
<1>3. /\ entry[e].creation \in {"none", "failed"}
      /\ e \notin ToSet(cache)
      /\ \A d \in Calls : on[d] # e
  BY <1>2 DEF Unreachable, ToSet, IInv, LeaseInv
<1>4. /\ Append(cache, e) \in Seq(Entries) /\ NoTwice(Append(cache, e))
      /\ ToSet(Append(cache, e)) = ToSet(cache) \cup {e}
      /\ Len(Append(cache, e)) = Len(cache) + 1
      /\ \A i \in 1 .. Len(cache) : Append(cache, e)[i] = cache[i]
  BY <1>1, <1>2, <1>3, AppendOne
<1>5. \/ v = None /\ Len(cache) + 1 <= MaxPipelines
      \/ v \in ToSet(cache) /\ v # e
  <2>0. Len(cache) \in Nat /\ MaxPipelines \in Nat \ {0}
    BY <1>1 DEF EmbeddingsAssumption
  <2>1. CASE Len(cache) + 1 <= MaxPipelines
    BY <1>4, <1>v, <2>1 DEF Evicted
  <2>2. CASE ~(Len(cache) + 1 <= MaxPipelines)
    <3>1. cache # <<>> /\ 1 \in 1 .. Len(cache)
      BY <1>1, <2>0, <2>2
    <3>2. v = cache[1]
      BY <1>4, <1>v, <2>2, <3>1 DEF Evicted
    <3>3. cache[1] \in ToSet(cache)
      BY <1>1, <3>1, FirstMember
    <3> QED
      BY <1>3, <3>2, <3>3
  <2> QED
    BY <2>1, <2>2
<1>6. /\ cache' \in Seq(Entries) /\ NoTwice(cache') /\ Len(cache') <= MaxPipelines
      /\ ToSet(cache') = (ToSet(cache) \cup {e}) \ {v}
  <2>0. Len(cache) \in Nat /\ MaxPipelines \in Nat
    BY <1>1 DEF EmbeddingsAssumption
  <2>1. cache' = Without(Append(cache, e), v)
    BY <1>e, <1>v DEF AcquireNew
  <2>2. /\ cache' \in Seq(Entries) /\ NoTwice(cache')
        /\ ToSet(cache') = ToSet(Append(cache, e)) \ {v}
        /\ Len(cache') = IF v \in ToSet(Append(cache, e)) THEN Len(Append(cache, e)) - 1
                                                         ELSE Len(Append(cache, e))
    BY <1>4, <2>1, WithoutOne
  <2>3. Len(cache') <= MaxPipelines
    BY <1>1, <1>4, <1>5, <2>0, <2>2
  <2> QED
    BY <1>4, <2>2, <2>3
<1>7. ASSUME NEW x \in Entries
      PROVE  /\ entry'[x] \in Records
             /\ entry'[x].creation = IF x = e THEN "queued" ELSE entry[x].creation
             /\ entry'[x].leases = IF x = e THEN 1 ELSE entry[x].leases
             /\ x # e /\ x # v => entry'[x] = entry[x]
             /\ x = e => ~entry'[x].retired /\ entry'[x].disposal = "none"
             /\ x = v /\ x # e =>
                  /\ entry'[x].retired
                  /\ entry'[x].disposal = IF entry[x].disposal = "none" THEN "begun"
                                                                    ELSE entry[x].disposal
  <2>1. entry'[x] = IF x = v THEN Retired(entry[x]) ELSE IF x = e THEN Queued(k) ELSE entry[x]
    BY <1>e, <1>v, <1>1, <1>2, <1>3, <1>5 DEF AcquireNew, Retire
  <2>2. entry[x] \in Records /\ v # e
    BY <1>1, <1>a, <1>5
  <2>3. CASE x = v
    BY <2>1, <2>2, <2>3, RetiredRecord
  <2>4. CASE x = e
    BY <2>1, <2>2, <2>4, QueuedRecord
  <2>5. CASE x # e /\ x # v
    BY <2>1, <2>2, <2>5
  <2> QED
    BY <2>3, <2>4, <2>5
<1>8. entry' \in [Entries -> Records]
  BY <1>7 DEF AcquireNew, Retire
<1>9. /\ queue' \in Seq(Jobs) /\ NoTwice(queue') /\ ToSet(queue') = ToSet(queue) \cup {e}
      /\ queue # <<>> => queue' # <<>> /\ queue'[1] = queue[1]
      /\ e \notin ToSet(queue)
  <2>1. e \notin ToSet(queue)
    BY <1>2, <1>3, <1>a DEF IInv, QueueInv, Waits, Loads
  <2>2. queue' = Append(queue, e)
    BY <1>e DEF AcquireNew
  <2>3. /\ queue' \in Seq(Jobs) /\ NoTwice(queue') /\ ToSet(queue') = ToSet(queue) \cup {e}
        /\ Len(queue') = Len(queue) + 1
        /\ \A i \in 1 .. Len(queue) : queue'[i] = queue[i]
    BY <1>1, <1>a, <2>1, <2>2, AppendOne
  <2>4. ASSUME queue # <<>> PROVE queue' # <<>> /\ queue'[1] = queue[1]
    <3>1. Len(queue) >= 1 /\ Len(queue) \in Nat
      BY <1>1, <2>4, FirstMember
    <3> QED
      BY <2>3, <3>1
  <2> QED
    BY <2>1, <2>3, <2>4
<1>10. /\ pc[c] = "idle" /\ pc'[c] = "acquiring" /\ on'[c] = e
       /\ \A d \in Calls \ {c} : pc'[d] = pc[d] /\ on'[d] = on[d]
       /\ pc' \in [Calls -> {"idle", "acquiring", "embedding", "leaving", "settled"}]
       /\ on' \in [Calls -> Entries \cup {None}]
  BY <1>e, <1>1, <1>2 DEF AcquireNew
<1>11. UNCHANGED <<env, saved, pull>>
  BY DEF AcquireNew, install
<1>12. TypeInv'
  BY <1>6, <1>8, <1>9, <1>10, <1>11 DEF IInv, TypeInv
<1>13. LeaseInv'
  <2>1. Holders(e)' = {c}
    BY <1>3, <1>10 DEF Holders
  <2>2. \A x \in Entries \ {e} : Holders(x)' = Holders(x)
    BY <1>10 DEF Holders
  <2>3. Cardinality({c}) = 1
    BY FS_Singleton
  <2>4. \A d \in Calls : pc'[d] \in {"acquiring", "embedding"} => on'[d] # None
    BY <1>a, <1>10 DEF IInv, LeaseInv
  <2>5. ASSUME NEW x \in Entries
        PROVE  /\ entry'[x].leases = Cardinality(Holders(x)')
               /\ entry'[x].retired <=> entry'[x].disposal # "none"
               /\ entry'[x].disposal \in {"running", "done"} => entry'[x].leases = 0
               /\ entry'[x].disposal = "running" => entry'[x].creation = "ready"
               /\ entry'[x].disposal = "done" => entry'[x].creation \in {"none", "failed"}
    <3>1. CASE x = e
      BY <1>7, <2>1, <2>3, <3>1
    <3>2. CASE x # e
      BY <1>7, <2>2, <3>2 DEF IInv, LeaseInv
    <3> QED
      BY <3>1, <3>2
  <2> QED
    BY <2>4, <2>5 DEF LeaseInv
<1>14. CacheInv'
  <2>1. v # e
    BY <1>a, <1>5
  <2>2. ASSUME NEW x \in Entries
        PROVE  /\ x \in ToSet(cache') => ~entry'[x].retired /\ entry'[x].creation # "none"
               /\ entry'[x].creation \in {"queued", "loading", "ready"} /\ ~entry'[x].retired
                     => x \in ToSet(cache')
    BY <1>6, <1>7, <2>1 DEF IInv, CacheInv
  <2> QED
    BY <2>2 DEF CacheInv
<1>15. QueueInv'
  <2>1. \A j \in Jobs : Loads(j)' <=> Loads(j)
    BY <1>3, <1>7, <1>11 DEF Loads, Jobs
  <2>2. \A j \in Jobs : Waits(j)' <=> Waits(j) \/ j = e
    BY <1>2, <1>7, <1>11 DEF Waits, Jobs
  <2> QED
    BY <1>1, <1>9, <1>11, <2>1, <2>2 DEF IInv, QueueInv
<1> QED
  BY <1>12, <1>13, <1>14, <1>15 DEF IInv

\* One entry has another record, with as many leases.
LEMMA RecordStep ==
  ASSUME IInv, UNCHANGED <<cache, calls>>, NEW e \in Entries, NEW r \in Records,
         entry' = [entry EXCEPT ![e] = r],
         r.leases = entry[e].leases,
         r.retired <=> r.disposal # "none",
         r.disposal \in {"running", "done"} => r.leases = 0,
         r.disposal = "running" => r.creation = "ready",
         r.disposal = "done" => r.creation \in {"none", "failed"},
         e \in ToSet(cache) => ~r.retired /\ r.creation # "none",
         r.creation \in {"queued", "loading", "ready"} /\ ~r.retired => e \in ToSet(cache)
  PROVE  entry' \in [Entries -> Records] /\ LeaseInv' /\ CacheInv'
<1> USE DEF calls
<1>t. entry \in [Entries -> Records]
  BY DEF IInv, TypeInv
<1>1. entry' \in [Entries -> Records]
  BY <1>t
<1>2. \A x \in Entries : entry'[x] = IF x = e THEN r ELSE entry[x]
  BY <1>t
<1>3. \A x \in Entries : Holders(x)' = Holders(x)
  BY DEF Holders
<1>4. LeaseInv'
  <2>1. ASSUME NEW x \in Entries
        PROVE  /\ entry'[x].leases = Cardinality(Holders(x)')
               /\ entry'[x].retired <=> entry'[x].disposal # "none"
               /\ entry'[x].disposal \in {"running", "done"} => entry'[x].leases = 0
               /\ entry'[x].disposal = "running" => entry'[x].creation = "ready"
               /\ entry'[x].disposal = "done" => entry'[x].creation \in {"none", "failed"}
    <3>1. CASE x = e
      BY <1>2, <1>3, <3>1 DEF IInv, LeaseInv
    <3>2. CASE x # e
      BY <1>2, <1>3, <3>2 DEF IInv, LeaseInv
    <3> QED
      BY <3>1, <3>2
  <2> QED
    BY <2>1 DEF IInv, LeaseInv
<1>5. CacheInv'
  <2>1. ASSUME NEW x \in Entries
        PROVE  /\ x \in ToSet(cache) => ~entry'[x].retired /\ entry'[x].creation # "none"
               /\ entry'[x].creation \in {"queued", "loading", "ready"} /\ ~entry'[x].retired
                     => x \in ToSet(cache)
    BY <1>2 DEF IInv, CacheInv
  <2> QED
    BY <2>1 DEF CacheInv
<1> QED
  BY <1>1, <1>4, <1>5

\* A job comes to its end: the environment is nobody's, and the job is not there any
\* more, or is again behind all others.
LEMMA JobEnds ==
  ASSUME EmbeddingsAssumption, IInv, NEW j \in Jobs, Loads(j), RestoreEnvironment(j),
         \/ queue' = Without(queue, j) /\ ~Waits(j)'
         \/ queue' = Append(Without(queue, j), j) /\ Waits(j)',
         ~Loads(j)',
         \A i \in Jobs \ {j} : (Loads(i)' <=> Loads(i)) /\ (Waits(i)' <=> Waits(i)),
         \A p \in Pulls : p \in Elsewhere => pull'[p] \in {"idle", "ended"}
  PROVE  /\ queue' \in Seq(Jobs) /\ NoTwice(queue')
         /\ env' \in Jobs \cup {None} /\ saved' \in [Jobs -> Jobs \cup {None}]
         /\ QueueInv'
<1>1. /\ queue \in Seq(Jobs) /\ NoTwice(queue)
      /\ saved \in [Jobs -> Jobs \cup {None}]
      /\ None \notin Jobs
  BY DEF IInv, TypeInv, EmbeddingsAssumption, Jobs
<1>2. env = j /\ saved[j] = None
  BY <1>1 DEF IInv, QueueInv
<1>3. env' = None /\ saved' \in [Jobs -> Jobs \cup {None}]
  BY <1>1, <1>2 DEF RestoreEnvironment
<1>4. \A i \in Jobs : ~Loads(i)'
  BY <1>2 DEF IInv, QueueInv
<1> DEFINE w == Without(queue, j)
<1>5. w \in Seq(Jobs) /\ NoTwice(w) /\ ToSet(w) = ToSet(queue) \ {j}
  BY <1>1, WithoutOne
<1>6. /\ queue' \in Seq(Jobs) /\ NoTwice(queue')
      /\ \A i \in Jobs : i \in ToSet(queue') <=> Waits(i)'
  <2>1. \A i \in Jobs \ {j} : i \in ToSet(queue) <=> Waits(i)'
    BY <1>4 DEF IInv, QueueInv
  <2>2. CASE queue' = w /\ ~Waits(j)'
    <3> HIDE DEF w
    <3> QED
      BY <1>5, <2>1, <2>2
  <2>3. CASE queue' = Append(w, j) /\ Waits(j)'
    <3> HIDE DEF w
    <3>1. j \notin ToSet(w)
      BY <1>5
    <3>2. /\ queue' \in Seq(Jobs) /\ NoTwice(queue')
          /\ ToSet(queue') = ToSet(w) \cup {j}
      BY <1>5, <2>3, <3>1, AppendOne
    <3> QED
      BY <1>5, <2>1, <2>3, <3>2
  <2> QED
    BY <2>2, <2>3
<1>7. QueueInv'
  BY <1>3, <1>4, <1>6 DEF QueueInv
<1> QED
  BY <1>3, <1>6, <1>7

LEMMA BeginJobStep ==
  ASSUME EmbeddingsAssumption, IInv, NEW j \in Jobs, BeginJob(j)
  PROVE  IInv'
<1>1. /\ entry \in [Entries -> Records]
      /\ queue \in Seq(Jobs) /\ NoTwice(queue)
      /\ env \in Jobs \cup {None}
      /\ saved \in [Jobs -> Jobs \cup {None}]
      /\ pull \in [Pulls -> {"idle", "queued", "loading", "checking", "aside", "swap",
                             "rollback", "cleanup", "ended"}]
      /\ None \notin Jobs /\ Entries \cap Pulls = {} /\ Jobs = Entries \cup Pulls
  BY DEF IInv, TypeInv, EmbeddingsAssumption, Jobs
<1>2. queue # <<>> /\ queue[1] = j /\ Waits(j) /\ ~Loads(j)
  BY DEF BeginJob, Turn, Waits, Loads
<1>3. env = None
  BY <1>1, <1>2 DEF IInv, QueueInv
<1>4. \A i \in Jobs : ~Loads(i)
  BY <1>1, <1>3 DEF IInv, QueueInv
<1>5. /\ env' = j /\ saved' \in [Jobs -> Jobs \cup {None}] /\ saved'[j] = None
      /\ queue' = queue
  BY <1>1, <1>3 DEF BeginJob
<1>6. /\ \A i \in Jobs : i # j => (Loads(i)' <=> Loads(i)) /\ (Waits(i)' <=> Waits(i))
      /\ Loads(j)' /\ ~Waits(j)'
      /\ \A p \in Pulls : p \in Elsewhere => pull'[p] \in {"idle", "ended"}
      /\ pull' \in [Pulls -> {"idle", "queued", "loading", "checking", "aside", "swap",
                              "rollback", "cleanup", "ended"}]
  <2>1. CASE j \in Entries
    <3>1. /\ \A x \in Entries : x # j => entry'[x] = entry[x]
          /\ entry'[j].creation = "loading" /\ pull' = pull
      <4>1. /\ entry' = [entry EXCEPT ![j] = Created(entry[j], "loading")]
            /\ pull' = pull /\ entry[j] \in Records
        BY <1>1, <2>1 DEF BeginJob, Created
      <4> QED
        BY <1>1, <2>1, <4>1, CreationRecord
    <3> QED
      BY <1>1, <2>1, <3>1 DEF IInv, QueueInv, Loads, Waits
  <2>2. CASE j \notin Entries
    <3>1. j \in Pulls /\ pull[j] = "queued" /\ pull' = [pull EXCEPT ![j] = "loading"] /\ entry' = entry
      BY <1>1, <2>2 DEF BeginJob
    <3> QED
      BY <1>1, <2>2, <3>1 DEF IInv, QueueInv, Loads, Waits
  <2> QED
    BY <2>1, <2>2
<1>7. QueueInv'
  <2>1. \A i \in Jobs : i \in ToSet(queue) <=> Waits(i)' \/ Loads(i)'
    BY <1>2, <1>6 DEF IInv, QueueInv
  <2>2. \A i \in Jobs : Loads(i)' => i = j
    BY <1>4, <1>6
  <2> QED
    BY <1>2, <1>5, <1>6, <2>1, <2>2 DEF QueueInv
<1>8. UNCHANGED <<cache, calls>>
  BY DEF BeginJob
<1>9. entry' \in [Entries -> Records] /\ LeaseInv' /\ CacheInv'
  <2>1. CASE j \in Entries
    <3>1. entry' = [entry EXCEPT ![j] = Created(entry[j], "loading")] /\ entry[j] \in Records
      BY <1>1, <2>1 DEF BeginJob, Created
    <3>2. PICK r : r = Created(entry[j], "loading")
      OBVIOUS
    <3>3. /\ r \in Records /\ r.creation = "loading" /\ r.leases = entry[j].leases
          /\ r.retired = entry[j].retired /\ r.disposal = entry[j].disposal
      BY <3>1, <3>2, CreationRecord
    <3>4. entry[j].creation = "queued" /\ entry' = [entry EXCEPT ![j] = r]
      BY <2>1, <3>1, <3>2 DEF BeginJob
    <3>5. /\ r.retired <=> r.disposal # "none"
          /\ r.disposal \in {"running", "done"} => r.leases = 0
          /\ r.disposal = "running" => r.creation = "ready"
          /\ r.disposal = "done" => r.creation \in {"none", "failed"}
      BY <2>1, <3>3, <3>4 DEF IInv, LeaseInv
    <3>6. /\ j \in ToSet(cache) => ~r.retired /\ r.creation # "none"
          /\ ~r.retired => j \in ToSet(cache)
      BY <2>1, <3>3, <3>4 DEF IInv, CacheInv
    <3> QED
      BY <1>8, <2>1, <3>3, <3>4, <3>5, <3>6, RecordStep
  <2>2. CASE j \notin Entries
    <3>1. entry' = entry
      BY <2>2 DEF BeginJob
    <3>2. \A x \in Entries : Holders(x)' = Holders(x)
      BY <1>8 DEF Holders, calls
    <3> QED
      BY <1>1, <1>8, <3>1, <3>2 DEF IInv, LeaseInv, CacheInv, calls
  <2> QED
    BY <2>1, <2>2
<1>10. TypeInv'
  BY <1>1, <1>5, <1>6, <1>8, <1>9 DEF IInv, TypeInv, calls
<1> QED
  BY <1>7, <1>9, <1>10 DEF IInv

LEMMA CreationReadyStep ==
  ASSUME EmbeddingsAssumption, IInv, NEW e \in Entries, CreationReady(e)
  PROVE  IInv'
<1>1. /\ entry \in [Entries -> Records] /\ entry[e] \in Records /\ e \in Jobs
      /\ Jobs = Entries \cup Pulls /\ Entries \cap Pulls = {}
  BY DEF IInv, TypeInv, Jobs, EmbeddingsAssumption
<1>2. PICK r : r = Created(entry[e], "ready")
  OBVIOUS
<1>3. entry[e].creation = "loading" /\ entry' = [entry EXCEPT ![e] = r]
  BY <1>1, <1>2 DEF CreationReady, Created
<1>4. /\ r \in Records /\ r.creation = "ready" /\ r.leases = entry[e].leases
      /\ r.retired = entry[e].retired /\ r.disposal = entry[e].disposal
  BY <1>1, <1>2, CreationRecord
<1>5. UNCHANGED <<cache, calls, pull>>
  BY DEF CreationReady, install
<1>6. /\ r.retired <=> r.disposal # "none"
      /\ r.disposal \in {"running", "done"} => r.leases = 0
      /\ r.disposal = "running" => r.creation = "ready"
      /\ r.disposal = "done" => r.creation \in {"none", "failed"}
  BY <1>3, <1>4 DEF IInv, LeaseInv
<1>7. /\ e \in ToSet(cache) => ~r.retired /\ r.creation # "none"
      /\ ~r.retired => e \in ToSet(cache)
  BY <1>3, <1>4 DEF IInv, CacheInv
<1>8. entry' \in [Entries -> Records] /\ LeaseInv' /\ CacheInv'
  BY <1>3, <1>4, <1>5, <1>6, <1>7, RecordStep
<1>9. \A x \in Entries : entry'[x] = IF x = e THEN r ELSE entry[x]
  BY <1>1, <1>3
<1>10. /\ Loads(e) /\ ~Loads(e)' /\ ~Waits(e)'
       /\ \A i \in Jobs \ {e} : (Loads(i)' <=> Loads(i)) /\ (Waits(i)' <=> Waits(i))
  BY <1>1, <1>3, <1>4, <1>5, <1>9 DEF Loads, Waits
<1>11. \A p \in Pulls : p \in Elsewhere => pull'[p] \in {"idle", "ended"}
  BY <1>5 DEF IInv, QueueInv
<1>12. queue' = Without(queue, e) /\ RestoreEnvironment(e)
  BY DEF CreationReady
<1>13. /\ queue' \in Seq(Jobs) /\ NoTwice(queue')
       /\ env' \in Jobs \cup {None} /\ saved' \in [Jobs -> Jobs \cup {None}]
       /\ QueueInv'
  BY <1>1, <1>10, <1>11, <1>12, JobEnds
<1>14. TypeInv'
  BY <1>5, <1>8, <1>13 DEF IInv, TypeInv, calls
<1> QED
  BY <1>8, <1>13, <1>14 DEF IInv

LEMMA CreationFailsStep ==
  ASSUME EmbeddingsAssumption, IInv, NEW e \in Entries, CreationFails(e)
  PROVE  IInv'
<1>1. /\ entry \in [Entries -> Records] /\ entry[e] \in Records /\ e \in Jobs
      /\ Jobs = Entries \cup Pulls /\ Entries \cap Pulls = {}
  BY DEF IInv, TypeInv, Jobs, EmbeddingsAssumption
<1>2. PICK r : r = Failed(entry[e])
  OBVIOUS
<1>3. entry[e].creation = "loading" /\ entry' = [entry EXCEPT ![e] = r]
  BY <1>1, <1>2 DEF CreationFails
<1>4. /\ r \in Records /\ r.creation = IF entry[e].retry THEN "queued" ELSE "failed"
      /\ r.leases = entry[e].leases
      /\ r.retired = entry[e].retired /\ r.disposal = entry[e].disposal
  BY <1>1, <1>2, FailedRecord
<1>5. UNCHANGED <<cache, calls, pull>>
  BY DEF CreationFails, install
<1>6. /\ r.retired <=> r.disposal # "none"
      /\ r.disposal \in {"running", "done"} => r.leases = 0
      /\ r.disposal # "running"
      /\ r.disposal = "done" => r.creation \in {"none", "failed"}
  BY <1>3, <1>4 DEF IInv, LeaseInv
<1>7. /\ e \in ToSet(cache) => ~r.retired /\ r.creation # "none"
      /\ ~r.retired => e \in ToSet(cache)
  BY <1>3, <1>4 DEF IInv, CacheInv
<1>8. entry' \in [Entries -> Records] /\ LeaseInv' /\ CacheInv'
  BY <1>3, <1>4, <1>5, <1>6, <1>7, RecordStep
<1>9. \A x \in Entries : entry'[x] = IF x = e THEN r ELSE entry[x]
  BY <1>1, <1>3
<1>10. /\ Loads(e) /\ ~Loads(e)' /\ (Waits(e)' <=> entry[e].retry)
       /\ \A i \in Jobs \ {e} : (Loads(i)' <=> Loads(i)) /\ (Waits(i)' <=> Waits(i))
  BY <1>1, <1>3, <1>4, <1>5, <1>9 DEF Loads, Waits
<1>11. \A p \in Pulls : p \in Elsewhere => pull'[p] \in {"idle", "ended"}
  BY <1>5 DEF IInv, QueueInv
<1>12. /\ \/ queue' = Without(queue, e) /\ ~Waits(e)'
          \/ queue' = Append(Without(queue, e), e) /\ Waits(e)'
       /\ RestoreEnvironment(e)
  BY <1>10 DEF CreationFails
<1>13. /\ queue' \in Seq(Jobs) /\ NoTwice(queue')
       /\ env' \in Jobs \cup {None} /\ saved' \in [Jobs -> Jobs \cup {None}]
       /\ QueueInv'
  BY <1>1, <1>10, <1>11, <1>12, JobEnds
<1>14. TypeInv'
  BY <1>5, <1>8, <1>13 DEF IInv, TypeInv, calls
<1> QED
  BY <1>8, <1>13, <1>14 DEF IInv

LEMMA ForgetStep ==
  ASSUME EmbeddingsAssumption, IInv, NEW e \in Entries, Forget(e)
  PROVE  IInv'
<1>1. /\ cache \in Seq(Entries) /\ NoTwice(cache) /\ Len(cache) <= MaxPipelines
      /\ env \in Jobs \cup {None}
      /\ Len(cache) \in Nat
  BY DEF IInv, TypeInv
<1>2. \E i \in DOMAIN cache : cache[i] = e
  BY DEF Forget
<1>3. e \in ToSet(cache)
  BY <1>2 DEF ToSet
<1>4. cache' = Without(cache, e) /\ entry[e].creation = "failed"
  BY DEF Forget
<1>5. /\ cache' \in Seq(Entries) /\ NoTwice(cache') /\ ToSet(cache') = ToSet(cache) \ {e}
      /\ Len(cache') = Len(cache) - 1
  BY <1>1, <1>3, <1>4, WithoutOne
<1>6. UNCHANGED <<entry, library, calls, pull>>
  BY DEF Forget, install
<1>7. TypeInv'
  <2>1. Len(cache') <= MaxPipelines
    <3>1. MaxPipelines \in Nat
      BY DEF EmbeddingsAssumption
    <3> QED
      BY <1>1, <1>5, <3>1
  <2> QED
    BY <1>5, <1>6, <2>1 DEF IInv, TypeInv, library, calls
<1>8. \A x \in Entries : Holders(x)' = Holders(x)
  BY <1>6 DEF Holders, calls
<1>9. LeaseInv'
  BY <1>6, <1>8 DEF IInv, LeaseInv, calls
<1>10. CacheInv'
  BY <1>4, <1>5, <1>6 DEF IInv, CacheInv
<1>11. \A j : (Loads(j)' <=> Loads(j)) /\ (Waits(j)' <=> Waits(j))
  BY <1>6 DEF Loads, Waits
<1>12. QueueInv'
  BY <1>6, <1>11 DEF IInv, QueueInv, library
<1> QED
  BY <1>7, <1>9, <1>10, <1>12 DEF IInv

\* Steps of a disposal: of a retired entry that nobody has a lease on and whose creation
\* is over.
LEMMA DisposalStep ==
  ASSUME EmbeddingsAssumption, IInv, UNCHANGED <<cache, library, calls, pull>>,
         NEW e \in Entries, NEW r \in Records, entry' = [entry EXCEPT ![e] = r],
         entry[e].retired, entry[e].leases = 0, entry[e].creation \in {"ready", "failed"},
         r.retired, r.leases = 0,
         \/ r.disposal = "running" /\ r.creation = "ready"
         \/ r.disposal = "done" /\ r.creation \in {"none", "failed"}
  PROVE  IInv'
<1>1. entry \in [Entries -> Records] /\ Jobs = Entries \cup Pulls
  BY DEF IInv, TypeInv, Jobs
<1>2. e \notin ToSet(cache)
  BY DEF IInv, CacheInv
<1>3. entry' \in [Entries -> Records] /\ LeaseInv' /\ CacheInv'
  BY <1>2, RecordStep
<1>4. TypeInv'
  BY <1>3 DEF IInv, TypeInv, library, calls
<1>5. \A x \in Entries : entry'[x] = IF x = e THEN r ELSE entry[x]
  BY <1>1
<1>6. \A j \in Jobs : (Loads(j)' <=> Loads(j)) /\ (Waits(j)' <=> Waits(j))
  BY <1>1, <1>5 DEF Loads, Waits
<1>7. QueueInv'
  <2>1. env \in Jobs \cup {None}
    BY DEF IInv, TypeInv
  <2> QED
    BY <1>6, <2>1 DEF IInv, QueueInv, library
<1> QED
  BY <1>3, <1>4, <1>7 DEF IInv

LEMMA BeginDisposalStep ==
  ASSUME EmbeddingsAssumption, IInv, NEW e \in Entries, BeginDisposal(e)
  PROVE  IInv'
<1>1. entry \in [Entries -> Records] /\ entry[e] \in Records
  BY DEF IInv, TypeInv
<1>2. PICK s : s = IF entry[e].creation = "ready" THEN "running" ELSE "done"
  OBVIOUS
<1>3. PICK r : r = InDisposal(entry[e], s)
  OBVIOUS
<1>4. entry' = [entry EXCEPT ![e] = r]
  BY <1>1, <1>2, <1>3 DEF BeginDisposal, InDisposal
<1>5. /\ entry[e].disposal = "begun" /\ entry[e].leases = 0
      /\ entry[e].creation \in {"ready", "failed"}
      /\ UNCHANGED <<cache, library, calls, pull>>
  BY DEF BeginDisposal, install
<1>6. entry[e].retired
  BY <1>5 DEF IInv, LeaseInv
<1>7. /\ r \in Records /\ r.creation = entry[e].creation /\ r.leases = entry[e].leases
      /\ r.retired = entry[e].retired /\ r.disposal = s
  BY <1>1, <1>2, <1>3, DisposalRecord
<1> QED
  BY <1>2, <1>4, <1>5, <1>6, <1>7, DisposalStep

LEMMA EndDisposalStep ==
  ASSUME EmbeddingsAssumption, IInv, NEW e \in Entries, EndDisposal(e)
  PROVE  IInv'
<1>1. PICK r : r = Disposed
  OBVIOUS
<1>2. /\ r \in Records /\ r.creation = "none" /\ r.leases = 0 /\ r.retired
      /\ r.disposal = "done"
  BY <1>1, DisposedRecord
<1>3. /\ entry[e].disposal = "running" /\ entry' = [entry EXCEPT ![e] = r]
      /\ UNCHANGED <<cache, library, calls, pull>>
  BY <1>1 DEF EndDisposal, install
<1>4. entry[e].retired /\ entry[e].leases = 0 /\ entry[e].creation = "ready"
  BY <1>3 DEF IInv, LeaseInv
<1> QED
  BY <1>2, <1>3, <1>4, DisposalStep

LEMMA BeginPullStep ==
  ASSUME EmbeddingsAssumption, IInv, NEW p \in Pulls, BeginPull(p)
  PROVE  IInv'
<1>1. /\ queue \in Seq(Jobs) /\ NoTwice(queue) /\ Len(queue) \in Nat
      /\ env \in Jobs \cup {None}
      /\ pull \in [Pulls -> {"idle", "queued", "loading", "checking", "aside", "swap",
                             "rollback", "cleanup", "ended"}]
      /\ Entries \cap Pulls = {} /\ Jobs = Entries \cup Pulls /\ p \in Jobs
  BY DEF IInv, TypeInv, EmbeddingsAssumption, Jobs
<1>2. /\ pull[p] = "idle" /\ p \notin Elsewhere
      /\ pull' = [pull EXCEPT ![p] = "queued"] /\ queue' = Append(queue, p)
      /\ UNCHANGED <<entry, cache, env, saved, pc, on>>
  BY DEF BeginPull, pipelines, calls
<1>3. p \notin ToSet(queue)
  BY <1>1, <1>2 DEF IInv, QueueInv, Loads, Waits
<1>4. /\ queue' \in Seq(Jobs) /\ NoTwice(queue') /\ ToSet(queue') = ToSet(queue) \cup {p}
      /\ Len(queue') = Len(queue) + 1
      /\ \A i \in 1 .. Len(queue) : queue'[i] = queue[i]
  BY <1>1, <1>2, <1>3, AppendOne
<1>5. queue # <<>> => queue' # <<>> /\ queue'[1] = queue[1]
  <2>1. ASSUME queue # <<>> PROVE queue' # <<>> /\ queue'[1] = queue[1]
    <3>1. Len(queue) >= 1
      BY <1>1, <2>1, FirstMember
    <3> QED
      BY <1>1, <1>4, <3>1
  <2> QED
    BY <2>1
<1>6. TypeInv'
  BY <1>1, <1>2, <1>4 DEF IInv, TypeInv
<1>7. \A x \in Entries : Holders(x)' = Holders(x)
  BY <1>2 DEF Holders
<1>8. LeaseInv' /\ CacheInv'
  BY <1>2, <1>7 DEF IInv, LeaseInv, CacheInv
<1>9. /\ \A j \in Jobs : Loads(j)' <=> Loads(j)
      /\ \A j \in Jobs : Waits(j)' <=> Waits(j) \/ j = p
      /\ \A q \in Pulls : q \in Elsewhere => pull'[q] \in {"idle", "ended"}
  BY <1>1, <1>2 DEF IInv, QueueInv, Loads, Waits
<1>10. QueueInv'
  BY <1>1, <1>2, <1>4, <1>5, <1>9 DEF IInv, QueueInv
<1> QED
  BY <1>6, <1>8, <1>10 DEF IInv

LEMMA DownloadedStep ==
  ASSUME EmbeddingsAssumption, IInv, NEW p \in Pulls, Downloaded(p)
  PROVE  IInv'
<1>1. /\ pull \in [Pulls -> {"idle", "queued", "loading", "checking", "aside", "swap",
                             "rollback", "cleanup", "ended"}]
      /\ Entries \cap Pulls = {} /\ Jobs = Entries \cup Pulls /\ p \in Jobs
  BY DEF IInv, TypeInv, EmbeddingsAssumption, Jobs
<1>2. /\ pull[p] = "loading" /\ RestoreEnvironment(p) /\ queue' = Without(queue, p)
      /\ UNCHANGED <<entry, cache, pc, on>>
  BY DEF Downloaded, pipelines, calls
<1>3. /\ pull' \in [Pulls -> {"idle", "queued", "loading", "checking", "aside", "swap",
                              "rollback", "cleanup", "ended"}]
      /\ pull'[p] \in {"checking", "ended"}
      /\ \A q \in Pulls : q # p => pull'[q] = pull[q]
  BY <1>1 DEF Downloaded
<1>4. p \notin Elsewhere
  BY <1>2 DEF IInv, QueueInv
<1>5. /\ Loads(p) /\ ~Loads(p)' /\ ~Waits(p)'
      /\ \A i \in Jobs \ {p} : (Loads(i)' <=> Loads(i)) /\ (Waits(i)' <=> Waits(i))
      /\ \A q \in Pulls : q \in Elsewhere => pull'[q] \in {"idle", "ended"}
  BY <1>1, <1>2, <1>3, <1>4 DEF IInv, QueueInv, Loads, Waits
<1>6. /\ queue' \in Seq(Jobs) /\ NoTwice(queue')
      /\ env' \in Jobs \cup {None} /\ saved' \in [Jobs -> Jobs \cup {None}]
      /\ QueueInv'
  BY <1>1, <1>2, <1>5, JobEnds
<1>7. TypeInv'
  BY <1>2, <1>3, <1>6 DEF IInv, TypeInv
<1>8. \A x \in Entries : Holders(x)' = Holders(x)
  BY <1>2 DEF Holders
<1>9. LeaseInv' /\ CacheInv'
  BY <1>2, <1>8 DEF IInv, LeaseInv, CacheInv
<1> QED
  BY <1>6, <1>7, <1>9 DEF IInv

LEMMA ReleaseModelStep ==
  ASSUME EmbeddingsAssumption, IInv, NEW c \in Clients, ReleaseModel(c)
  PROVE  IInv'
<1> DEFINE found(device) == IF owners[ModelOf[c]] > 1 THEN None
                            ELSE Cached([model |-> ModelOf[c], device |-> device])
<1>1. PICK u, v : u = found("cpu") /\ v = found("webgpu")
  OBVIOUS
<1>2. /\ entry' = Retire(entry, {u, v} \ {None})
      /\ cache' = Without(Without(cache, u), v)
      /\ UNCHANGED <<library, calls, pull>>
  BY <1>1 DEF ReleaseModel, install
<1>3. {u, v} \subseteq ToSet(cache) \cup {None}
  BY <1>1, CachedEntry
<1> HIDE DEF found
<1>4. /\ cache \in Seq(Entries) /\ NoTwice(cache) /\ Len(cache) <= MaxPipelines
      /\ Len(cache) \in Nat /\ MaxPipelines \in Nat
      /\ None \notin Entries
  BY DEF IInv, TypeInv, EmbeddingsAssumption
<1>5. None \notin ToSet(cache)
  BY <1>4 DEF ToSet
<1> DEFINE w == Without(cache, u)
<1>6. /\ w \in Seq(Entries) /\ NoTwice(w) /\ ToSet(w) = ToSet(cache) \ {u}
      /\ Len(w) = IF u \in ToSet(cache) THEN Len(cache) - 1 ELSE Len(cache)
  BY <1>4, WithoutOne
<1>7. cache' = Without(w, v)
  BY <1>2
<1> HIDE DEF w
<1>8. /\ cache' \in Seq(Entries) /\ NoTwice(cache') /\ ToSet(cache') = ToSet(w) \ {v}
      /\ Len(cache') = IF v \in ToSet(w) THEN Len(w) - 1 ELSE Len(w)
  BY <1>6, <1>7, WithoutOne
<1>9. Len(cache') <= MaxPipelines
  BY <1>4, <1>6, <1>8
<1>10. PICK gone : gone = {u, v} \ {None}
  OBVIOUS
<1>11. gone \in SUBSET ToSet(cache) /\ ToSet(cache') = ToSet(cache) \ gone
  BY <1>3, <1>5, <1>6, <1>8, <1>10
<1> QED
  BY <1>2, <1>8, <1>9, <1>10, <1>11, RetireStep

LEMMA ClearCacheStep ==
  ASSUME EmbeddingsAssumption, IInv, ClearCache
  PROVE  IInv'
<1>1. /\ entry' = Retire(entry, ToSet(cache)) /\ cache' = <<>>
      /\ UNCHANGED <<library, calls, pull>>
  BY DEF ClearCache, install
<1>2. /\ cache' \in Seq(Entries) /\ NoTwice(cache') /\ Len(cache') <= MaxPipelines
      /\ ToSet(cache') = {}
  BY <1>1 DEF NoTwice, ToSet, EmbeddingsAssumption
<1>3. PICK gone : gone = ToSet(cache)
  OBVIOUS
<1>4. gone \in SUBSET ToSet(cache) /\ ToSet(cache') = ToSet(cache) \ gone
  BY <1>2, <1>3
<1> QED
  BY <1>1, <1>2, <1>3, <1>4, RetireStep

\* A process that has just started.
Started ==
    /\ entry = [e \in Entries |-> NoEntry]
    /\ cache = <<>> /\ queue = <<>> /\ env = None
    /\ saved \in [Jobs -> {None}]
    /\ pc \in [Calls -> {"idle", "settled"}]
    /\ on = [c \in Calls |-> None]
    /\ pull \in [Pulls -> {"idle", "ended"}]

LEMMA StartedInv == Started => IInv
<1> SUFFICES ASSUME Started PROVE IInv
  OBVIOUS
<1>a. MaxPipelines \in Nat
  BY EmbeddingsAssumption DEF EmbeddingsAssumption
<1>1. \A e \in Entries : entry[e] = NoEntry
  BY DEF Started
<1>2. ToSet(cache) = {} /\ ToSet(queue) = {}
  BY DEF Started, ToSet
<1>3. TypeInv
  <2>1. entry \in [Entries -> Records]
    BY NoEntryRecord DEF Started
  <2>2. cache \in Seq(Entries) /\ NoTwice(cache) /\ Len(cache) <= MaxPipelines
    BY <1>a DEF Started, NoTwice
  <2>3. queue \in Seq(Jobs) /\ NoTwice(queue)
    BY DEF Started, NoTwice
  <2> QED
    BY <2>1, <2>2, <2>3 DEF TypeInv, Started
<1>4. \A e \in Entries : Holders(e) = {}
  BY DEF Started, Holders
<1>5. LeaseInv
  BY <1>1, <1>4, FS_EmptySet DEF LeaseInv, Started, NoEntry
<1>6. CacheInv
  BY <1>1, <1>2 DEF CacheInv, NoEntry
<1>7. \A j \in Jobs : ~Loads(j) /\ ~Waits(j)
  BY <1>1 DEF Jobs, Loads, Waits, Started, NoEntry
<1>8. QueueInv
  BY <1>2, <1>7 DEF QueueInv, Started
<1> QED
  BY <1>3, <1>5, <1>6, <1>8 DEF IInv

LEMMA InitInv == EmbeddingInit => IInv
BY StartedInv DEF EmbeddingInit, Started, Jobs

LEMMA CrashStep ==
  ASSUME IInv, Crash
  PROVE  IInv'
<1>1. \A p \in Pulls : p \in Elsewhere => pull[p] \in {"idle", "ended"}
  BY DEF IInv, QueueInv
<1>2. DOMAIN saved = Jobs
  BY DEF IInv, TypeInv
<1>3. Started'
  BY <1>1, <1>2 DEF Started, Crash
<1> QED
  BY <1>3, StartedInv, PTL

LEMMA NextInv == IInv /\ [EmbeddingNext]_embeddingVars => IInv'
<1> SUFFICES ASSUME IInv, [EmbeddingNext]_embeddingVars PROVE IInv'
  OBVIOUS
<1> USE EmbeddingsAssumption
<1>t. /\ pc \in [Calls -> {"idle", "acquiring", "embedding", "leaving", "settled"}]
      /\ on \in [Calls -> Entries \cup {None}]
      /\ pull \in [Pulls -> {"idle", "queued", "loading", "checking", "aside", "swap",
                             "rollback", "cleanup", "ended"}]
      /\ \A p \in Pulls : p \in Elsewhere => pull[p] \in {"idle", "ended"}
  BY DEF IInv, TypeInv, QueueInv
<1>1. ASSUME NEW c \in Calls, NEW k \in Keys, AcquireCached(c, k) PROVE IInv'
  BY <1>1, AcquireCachedStep
<1>2. ASSUME NEW c \in Calls, NEW k \in Keys, AcquireNew(c, k) PROVE IInv'
  BY <1>2, AcquireNewStep
<1>3. ASSUME NEW c \in Calls, Acquired(c) \/ Leave(c) PROVE IInv'
  <2>1. /\ UNCHANGED <<pipelines, library, pull>>
        /\ pc' \in [Calls -> {"idle", "acquiring", "embedding", "leaving", "settled"}]
        /\ on' \in [Calls -> Entries \cup {None}]
        /\ \A d \in Calls \ {c} : pc'[d] = pc[d] /\ on'[d] = on[d]
        /\ pc[c] \in {"acquiring", "embedding"} <=> pc'[c] \in {"acquiring", "embedding"}
        /\ pc[c] \in {"acquiring", "embedding"} => on'[c] = on[c]
    BY <1>t, <1>3 DEF Acquired, Leave, install
  <2> QED
    BY <2>1, CallStep
<1>4. ASSUME NEW c \in Calls, AcquireFails(c) \/ EndEmbedding(c) PROVE IInv'
  <2>1. /\ pc[c] \in {"acquiring", "embedding"} /\ Release(c)
        /\ UNCHANGED <<cache, library, pull>>
    BY <1>4 DEF AcquireFails, EndEmbedding, install
  <2> QED
    BY <2>1, ReleaseStep
<1>5. ASSUME NEW j \in Entries \cup Pulls, BeginJob(j) PROVE IInv'
  BY <1>5, BeginJobStep DEF Jobs
<1>6. ASSUME NEW e \in Entries, CreationReady(e) \/ CreationFails(e) \/ Forget(e) PROVE IInv'
  BY <1>6, CreationReadyStep, CreationFailsStep, ForgetStep
<1>7. ASSUME NEW e \in Entries, BeginDisposal(e) \/ EndDisposal(e) PROVE IInv'
  BY <1>7, BeginDisposalStep, EndDisposalStep
<1>8. ASSUME NEW c \in Clients, ReleaseModel(c) PROVE IInv'
  BY <1>8, ReleaseModelStep
<1>9. ASSUME NEW c \in Clients, RetainModel(c) \/ ModelReleased(c) PROVE IInv'
  <2>1. UNCHANGED <<pipelines, library, calls, pull>>
    BY <1>9 DEF RetainModel, ModelReleased, install
  <2> QED
    BY <1>t, <2>1, QuietStep
<1>10. CASE ClearCache
  BY <1>10, ClearCacheStep
<1>11. ASSUME NEW p \in Pulls, BeginPull(p) \/ Downloaded(p) PROVE IInv'
  BY <1>11, BeginPullStep, DownloadedStep
<1>12. ASSUME NEW p \in Pulls,
              \/ PullElsewhere(p) \/ CheckSnapshot(p) \/ MoveAside(p) \/ SwapIn(p)
              \/ Rollback(p) \/ RemovePrevious(p)
       PROVE  IInv'
  <2>1. UNCHANGED <<pipelines, library, calls>>
    BY <1>12 DEF PullElsewhere, CheckSnapshot, MoveAside, SwapIn, Rollback, RemovePrevious
  <2>2. /\ pull[p] \notin {"queued", "loading", "ended"}
        /\ \E s \in {"aside", "swap", "rollback", "cleanup", "ended"} :
              /\ pull' = [pull EXCEPT ![p] = s]
              /\ pull[p] = "idle" => s = "ended"
    <3>1. CASE PullElsewhere(p) \/ Rollback(p) \/ RemovePrevious(p)
      BY <3>1 DEF PullElsewhere, Rollback, RemovePrevious
    <3>2. CASE CheckSnapshot(p)
      BY <3>2 DEF CheckSnapshot
    <3>3. CASE MoveAside(p)
      BY <3>3 DEF MoveAside
    <3>4. CASE SwapIn(p)
      BY <3>4 DEF SwapIn
    <3> QED
      BY <1>12, <3>1, <3>2, <3>3, <3>4
  <2>3. PICK s \in {"aside", "swap", "rollback", "cleanup", "ended"} :
              /\ pull' = [pull EXCEPT ![p] = s]
              /\ pull[p] = "idle" => s = "ended"
    BY <2>2
  <2>4. /\ pull' \in [Pulls -> {"idle", "queued", "loading", "checking", "aside", "swap",
                                "rollback", "cleanup", "ended"}]
        /\ pull'[p] = s
        /\ \A q \in Pulls : q # p => pull'[q] = pull[q]
    BY <1>t, <2>3
  <2>5. \A q \in Pulls : q \in Elsewhere => pull'[q] \in {"idle", "ended"}
    BY <1>t, <2>2, <2>3, <2>4
  <2>6. \A q \in Pulls : \/ pull'[q] = pull[q]
                         \/ {pull[q], pull'[q]} \cap {"queued", "loading"} = {}
    BY <2>2, <2>4
  <2> QED
    BY <2>1, <2>4, <2>5, <2>6, QuietStep
<1>13. CASE Crash
  BY <1>13, CrashStep
<1>14. CASE UNCHANGED embeddingVars
  <2>1. UNCHANGED <<pipelines, library, calls, pull>>
    BY <1>14 DEF embeddingVars, install
  <2> QED
    BY <1>t, <2>1, QuietStep
<1> QED
  BY <1>1, <1>2, <1>3, <1>4, <1>5, <1>6, <1>7, <1>8, <1>9, <1>10, <1>11, <1>12, <1>13, <1>14
     DEF EmbeddingNext

\* The leases are those of the calls that embed or are about to; what is not retired is in
\* the cache, and what loads is the first of the queue and has the environment.
THEOREM Invariance == EmbeddingSpec => []IInv
BY InitInv, NextInv, PTL DEF EmbeddingSpec

-----------------------------------------------------------------------------
(* What is installed.                                                       *)

\* A pull goes on without its model or what is aside, or the model, being touched.
LEMMA PullStep ==
  ASSUME ModelInv, NEW p \in Pulls, NEW s, pull' = [pull EXCEPT ![p] = s],
         UNCHANGED <<aside, model, died>>, DOMAIN pull = Pulls,
         s \notin {"rollback", "cleanup"}, pull[p] \notin {"swap", "rollback"}
  PROVE  ModelInv'
<1>1. pull'[p] = s /\ \A q \in Pulls : q # p => pull'[q] = pull[q]
  OBVIOUS
<1> QED
  BY <1>1 DEF ModelInv

LEMMA ModelStep ==
  ASSUME IInv, ModelInv, [EmbeddingNext]_embeddingVars
  PROVE  ModelInv'
<1>a. None \notin Pulls /\ "old" # None
  BY EmbeddingsAssumption DEF EmbeddingsAssumption
<1>t. /\ pull \in [Pulls -> {"idle", "queued", "loading", "checking", "aside", "swap",
                             "rollback", "cleanup", "ended"}]
      /\ DOMAIN pull = Pulls
      /\ \A p \in Pulls : p \in Elsewhere => pull[p] \in {"idle", "ended"}
  BY DEF IInv, TypeInv, QueueInv
<1>1. CASE UNCHANGED install
  BY <1>1 DEF ModelInv, install
<1>2. ASSUME NEW j \in Entries \cup Pulls, BeginJob(j) PROVE ModelInv'
  <2>1. CASE j \in Entries
    BY <2>1, <1>2 DEF BeginJob, ModelInv
  <2>2. CASE j \notin Entries
    <3>1. /\ j \in Pulls /\ pull[j] = "queued" /\ pull' = [pull EXCEPT ![j] = "loading"]
          /\ UNCHANGED <<aside, model, died>>
      BY <2>2, <1>2 DEF BeginJob
    <3>2. \E s \in {"loading"} : pull' = [pull EXCEPT ![j] = s]
      BY <3>1
    <3> QED
      BY <1>t, <3>1, <3>2, PullStep
  <2> QED
    BY <2>1, <2>2
<1>3. ASSUME NEW p \in Pulls, BeginPull(p) PROVE ModelInv'
  <2>1. /\ pull[p] = "idle" /\ UNCHANGED <<aside, model, died>>
        /\ \E s \in {"queued"} : pull' = [pull EXCEPT ![p] = s]
    BY <1>3 DEF BeginPull
  <2> QED
    BY <1>t, <2>1, PullStep
<1>4. ASSUME NEW p \in Pulls, Downloaded(p) PROVE ModelInv'
  BY <1>t, <1>4, PullStep DEF Downloaded
<1>5. ASSUME NEW p \in Pulls, CheckSnapshot(p) PROVE ModelInv'
  <2>1. /\ pull[p] = "checking" /\ UNCHANGED <<aside, model, died>>
        /\ \E s \in {"ended", "aside", "swap"} : pull' = [pull EXCEPT ![p] = s]
    BY <1>5 DEF CheckSnapshot
  <2> QED
    BY <1>t, <2>1, PullStep
<1>6. ASSUME NEW p \in Pulls, PullElsewhere(p) PROVE ModelInv'
  <2>1. /\ model' = p /\ UNCHANGED <<aside, died>>
        /\ pull'[p] = "ended" /\ \A q \in Pulls : q # p => pull'[q] = pull[q]
    BY <1>t, <1>6 DEF PullElsewhere
  <2> QED
    BY <1>a, <2>1 DEF ModelInv
<1>7. ASSUME NEW p \in Pulls, MoveAside(p) PROVE ModelInv'
  <2>1. CASE /\ model # None /\ aside' = [aside EXCEPT ![p] = model] /\ model' = None
             /\ pull' = [pull EXCEPT ![p] = "swap"]
    <3>1. /\ pull'[p] = "swap" /\ aside'[p] # None
          /\ \A q \in Pulls : q # p => pull'[q] = pull[q] /\ aside'[q] = aside[q]
          /\ aside' \in [Pulls -> Pulls \cup {"old", None}]
      BY <1>t, <2>1 DEF ModelInv
    <3> QED
      BY <2>1, <3>1 DEF ModelInv
  <2>2. CASE pull' = [pull EXCEPT ![p] = "ended"] /\ UNCHANGED <<aside, model>>
    BY <1>t, <1>7, <2>2, PullStep DEF MoveAside
  <2> QED
    BY <1>7, <2>1, <2>2 DEF MoveAside
<1>8. ASSUME NEW p \in Pulls, SwapIn(p) PROVE ModelInv'
  <2>0. UNCHANGED <<aside, died>> /\ \A q \in Pulls : q # p => pull'[q] = pull[q]
    BY <1>t, <1>8 DEF SwapIn
  <2>1. CASE model' = p /\ pull' = [pull EXCEPT ![p] = IF aside[p] = None THEN "ended" ELSE "cleanup"]
    <3>1. pull'[p] # "rollback"
      BY <1>t, <2>1
    <3> QED
      BY <1>a, <2>0, <2>1, <3>1 DEF ModelInv
  <2>2. CASE /\ pull' = [pull EXCEPT ![p] = IF aside[p] = None THEN "ended" ELSE "rollback"]
             /\ UNCHANGED model
    <3>1. pull'[p] = IF aside[p] = None THEN "ended" ELSE "rollback"
      BY <1>t, <2>2
    <3> QED
      BY <2>0, <2>2, <3>1 DEF ModelInv
  <2> QED
    BY <1>8, <2>1, <2>2 DEF SwapIn
<1>9. ASSUME NEW p \in Pulls, Rollback(p) PROVE ModelInv'
  <2>0. pull'[p] = "ended" /\ \A q \in Pulls : q # p => pull'[q] = pull[q]
    BY <1>t, <1>9 DEF Rollback
  <2>1. CASE model = None /\ model' = aside[p] /\ aside' = [aside EXCEPT ![p] = None]
    <3>1. aside[p] # None
      BY <1>9 DEF ModelInv, Rollback
    <3>2. /\ model' # None /\ model' \in Pulls \cup {"old", None}
          /\ aside' \in [Pulls -> Pulls \cup {"old", None}]
          /\ \A q \in Pulls : q # p => aside'[q] = aside[q]
      BY <2>1, <3>1 DEF ModelInv
    <3> QED
      BY <2>0, <3>2 DEF ModelInv
  <2>2. CASE model # None /\ UNCHANGED <<model, aside, died>>
    BY <2>0, <2>2 DEF ModelInv
  <2>3. CASE died' = TRUE /\ UNCHANGED <<model, aside>>
    BY <2>0, <2>3 DEF ModelInv
  <2> QED
    BY <1>9, <2>1, <2>2, <2>3 DEF Rollback
<1>10. ASSUME NEW p \in Pulls, RemovePrevious(p) PROVE ModelInv'
  <2>1. /\ pull[p] = "cleanup" /\ pull'[p] = "ended" /\ UNCHANGED <<model, died>>
        /\ \A q \in Pulls : q # p => pull'[q] = pull[q] /\ aside'[q] = aside[q]
        /\ aside' \in [Pulls -> Pulls \cup {"old", None}]
    BY <1>t, <1>10 DEF ModelInv, RemovePrevious
  <2> QED
    BY <2>1 DEF ModelInv
<1>11. CASE Crash
  <2>1. /\ \A p \in Pulls : pull'[p] \in {"idle", "ended"}
        /\ UNCHANGED <<aside, model>>
        /\ died' = (died \/ \E p \in Pulls \ Elsewhere : pull[p] \in {"swap", "rollback"})
    BY <1>t, <1>11 DEF Crash
  <2>2. \A p \in Pulls : pull[p] \in {"swap", "rollback"} => p \notin Elsewhere
    BY <1>t
  <2> QED
    BY <2>1, <2>2 DEF ModelInv
<1>12. ASSUME NEW c \in Calls, NEW k \in Keys, AcquireCached(c, k) \/ AcquireNew(c, k)
       PROVE  UNCHANGED install
  BY <1>12 DEF AcquireCached, AcquireNew
<1>13. ASSUME NEW c \in Calls, Acquired(c) \/ AcquireFails(c) \/ EndEmbedding(c) \/ Leave(c)
       PROVE  UNCHANGED install
  BY <1>13 DEF Acquired, AcquireFails, EndEmbedding, Leave
<1>14. ASSUME NEW e \in Entries,
              \/ CreationReady(e) \/ CreationFails(e) \/ Forget(e)
              \/ BeginDisposal(e) \/ EndDisposal(e)
       PROVE  UNCHANGED install
  BY <1>14 DEF CreationReady, CreationFails, Forget, BeginDisposal, EndDisposal
<1>15. ASSUME NEW c \in Clients, RetainModel(c) \/ ReleaseModel(c) \/ ModelReleased(c)
       PROVE  UNCHANGED install
  BY <1>15 DEF RetainModel, ReleaseModel, ModelReleased
<1>16. CASE ClearCache \/ UNCHANGED embeddingVars
  BY <1>1, <1>16 DEF ClearCache, embeddingVars
<1> QED
  BY <1>1, <1>2, <1>3, <1>4, <1>5, <1>6, <1>7, <1>8, <1>9, <1>10, <1>11, <1>12, <1>13, <1>14,
     <1>15, <1>16 DEF EmbeddingNext

LEMMA ModelInvariance == EmbeddingSpec => []ModelInv
<1>1. EmbeddingInit => ModelInv
  BY EmbeddingsAssumption DEF EmbeddingInit, ModelInv, EmbeddingsAssumption
<1>2. IInv /\ ModelInv /\ [EmbeddingNext]_embeddingVars => ModelInv'
  BY ModelStep
<1> QED
  BY <1>1, <1>2, Invariance, PTL DEF EmbeddingSpec

-----------------------------------------------------------------------------
(* The properties.                                                          *)

LEMMA InvPipelines == IInv => PipelinesSafe
<1> SUFFICES ASSUME IInv PROVE PipelinesSafe
  OBVIOUS
<1>1. ASSUME NEW c \in Calls, pc[c] \in {"acquiring", "embedding"}
      PROVE  entry[on[c]].disposal \in {"none", "begun"}
  <2>1. PICK e \in Entries : e = on[c]
    BY <1>1 DEF IInv, TypeInv, LeaseInv
  <2>2. c \in Holders(e)
    BY <1>1, <2>1 DEF Holders
  <2>3. IsFiniteSet(Holders(e))
    BY EmbeddingsAssumption, HoldersFinite
  <2>4. Cardinality(Holders(e)) # 0
    BY <2>2, <2>3, FS_EmptySet
  <2>5. entry[e].leases # 0 /\ entry[e] \in Records
    BY <2>4 DEF IInv, TypeInv, LeaseInv
  <2>6. entry[e].disposal \notin {"running", "done"}
    BY <2>5 DEF IInv, LeaseInv
  <2>7. entry[e].disposal \in {"none", "begun", "running", "done"}
    BY <2>5 DEF Records
  <2> QED
    BY <2>1, <2>6, <2>7
<1>2. /\ \A e \in Entries : entry[e].creation = "ready" /\ ~entry[e].retired => e \in ToSet(cache)
      /\ Len(cache) <= MaxPipelines
  BY DEF IInv, TypeInv, CacheInv
<1>3. /\ \A e \in Entries : entry[e].creation = "loading" => env = e
      /\ \A p \in Pulls : pull[p] = "loading" => env = p
  BY EmbeddingsAssumption DEF EmbeddingsAssumption, IInv, QueueInv, Loads, Jobs
<1>4. queue = <<>> => env = None
  BY DEF IInv, QueueInv
<1> QED
  BY <1>1, <1>2, <1>3, <1>4 DEF PipelinesSafe

\* No pipeline is disposed of while a call embeds with it or is about to; what is not
\* retired is in the cache, which keeps its size; a pipeline is loaded under its own
\* settings; and a complete model remains whatever fails or dies in a pull
\* (acquireTransformersPipeline to retireTransformersPipeline, withTransformersEnvironment,
\* replaceDirectory).
THEOREM PipelinesKept == EmbeddingSpec => []EmbeddingSound
<1>1. ModelInv => ModelKept
  BY DEF ModelInv, ModelKept
<1>2. IInv /\ ModelInv => EmbeddingSound
  BY <1>1, InvPipelines DEF EmbeddingSound
<1> QED
  BY <1>2, Invariance, ModelInvariance, PTL

-----------------------------------------------------------------------------
(* Reading the text of a source: the order of the pages, what a command     *)
(* answers, the inductive invariant and a lemma for each step.              *)

\* Ascending lists the members: each is at the place that counts those up to it.
LEMMA AscendingFacts ==
  ASSUME NEW S \in SUBSET Int, IsFiniteSet(S)
  PROVE  /\ Cardinality(S) \in Nat /\ DOMAIN Ascending(S) = 1 .. Cardinality(S)
         /\ \A p \in S : \E k \in DOMAIN Ascending(S) : Ascending(S)[k] = p
         /\ \A k \in DOMAIN Ascending(S) : Ascending(S)[k] \in S
<1>1. Cardinality(S) \in Nat
  BY FS_CardinalityType
<1> DEFINE upTo(n) == {m \in S : m <= n}
<1>2. \A n \in S : IsFiniteSet(upTo(n)) /\ Cardinality(upTo(n)) \in Nat
                   /\ Cardinality(upTo(n)) <= Cardinality(S)
  BY FS_Subset, FS_CardinalityType
<1>3. ASSUME NEW p \in S, NEW n \in S, Cardinality(upTo(n)) = Cardinality(upTo(p)) PROVE n = p
  <2>1. ASSUME NEW a \in S, NEW b \in S, a < b PROVE Cardinality(upTo(a)) < Cardinality(upTo(b))
    <3>1. a \in Int /\ b \in Int /\ ~(b <= a) /\ b <= b /\ \A m \in S : m <= a => m <= b
      <4>1. \A m \in S : m \in Int
        OBVIOUS
      <4> QED
        BY <2>1, <4>1
    <3>2. upTo(a) \in SUBSET upTo(b) /\ b \in upTo(b) /\ b \notin upTo(a)
      BY <2>1, <3>1
    <3>3. /\ Cardinality(upTo(a)) \in Nat /\ Cardinality(upTo(b)) \in Nat
          /\ IsFiniteSet(upTo(b)) /\ upTo(a) # upTo(b)
      BY <1>2, <3>2
    <3> HIDE DEF upTo
    <3>4. Cardinality(upTo(a)) <= Cardinality(upTo(b)) /\ Cardinality(upTo(a)) # Cardinality(upTo(b))
      BY <3>2, <3>3, FS_Subset
    <3> QED
      BY <3>3, <3>4
  <2>2. p < n \/ n < p \/ n = p
    OBVIOUS
  <2> QED
    BY <1>2, <1>3, <2>1, <2>2
<1>4. ASSUME NEW p \in S PROVE \E k \in 1 .. Cardinality(S) : Ascending(S)[k] = p
  <2>1. Cardinality(upTo(p)) \in 1 .. Cardinality(S)
    <3>1. p \in upTo(p)
      OBVIOUS
    <3> QED
      BY <1>1, <1>2, <3>1, FS_EmptySet
  <2>2. PICK k \in 1 .. Cardinality(S) : k = Cardinality(upTo(p))
    BY <2>1
  <2>3. Ascending(S)[k] = CHOOSE n \in S : Cardinality(upTo(n)) = k
    BY DEF Ascending
  <2>4. \A n \in S : Cardinality(upTo(n)) = k => n = p
    BY <1>3, <2>2
  <2> QED
    BY <2>2, <2>3, <2>4
<1>5. ASSUME NEW k \in 1 .. Cardinality(S) PROVE Ascending(S)[k] \in S
  <2> DEFINE rank == [n \in S |-> Cardinality(upTo(n))]
  <2>1. \A n \in S : Cardinality(upTo(n)) \in 1 .. Cardinality(S)
    <3> SUFFICES ASSUME NEW n \in S PROVE Cardinality(upTo(n)) \in 1 .. Cardinality(S)
      OBVIOUS
    <3>1. n \in upTo(n)
      OBVIOUS
    <3> QED
      BY <1>1, <1>2, <3>1, FS_EmptySet
  <2>2. rank \in Injection(S, 1 .. Cardinality(S))
    <3> HIDE DEF upTo
    <3>1. rank \in [S -> 1 .. Cardinality(S)]
      BY <2>1
    <3>2. \A n, p \in S : rank[n] = rank[p] => n = p
      BY <1>3
    <3> QED
      BY <3>1, <3>2 DEF Injection, IsInjective
  <2>3. IsFiniteSet(1 .. Cardinality(S)) /\ Cardinality(1 .. Cardinality(S)) = Cardinality(S)
    BY <1>1, FS_Interval
  <2>4. rank \in Surjection(S, 1 .. Cardinality(S))
    BY <2>2, <2>3, FS_Injection
  <2>5. PICK n \in S : Cardinality(upTo(n)) = k
    <3> HIDE DEF upTo
    <3> QED
      BY <2>4 DEF Surjection
  <2>6. Ascending(S)[k] = CHOOSE p \in S : Cardinality(upTo(p)) = k
    BY DEF Ascending
  <2> HIDE DEF upTo
  <2> QED
    BY <2>5, <2>6
<1> QED
  BY <1>1, <1>4, <1>5 DEF Ascending

\* Entries of an answer: the whole text that the engine reads on a page.
OwnTexts(c, pages, engine) == {[page |-> p, text |-> Read(c, p, engine, TRUE)] : p \in pages}

\* pairOcrPageText loses no page of what extractPdfPages writes, and the batch
\* passes the test of parsePdfOcrBatchOutput.
LEMMA ExtractedFacts ==
  ASSUME NEW pages \in SUBSET Int, IsFiniteSet(pages), NEW terminated \in BOOLEAN
  PROVE  /\ Extracted(pages, TRUE, terminated) \in Seq(OwnTexts(content, pages, reading.engine))
         /\ Fits(Extracted(pages, TRUE, terminated), pages)
<1>1. PICK sorted : sorted = NormalizedPages(pages)
  OBVIOUS
<1>2. PICK n \in Nat : n = Cardinality(pages) /\ DOMAIN sorted = 1 .. n /\ Len(sorted) = n
  BY <1>1, AscendingFacts DEF NormalizedPages, Ascending
<1> DEFINE text(p) == Read(content, p, reading.engine, TRUE)
<1> HIDE DEF text
<1>3. PICK payloads : payloads = [k \in DOMAIN sorted |-> text(sorted[k])]
  OBVIOUS
<1>4. payloads \in Seq({payloads[k] : k \in 1 .. n}) /\ Len(payloads) = n /\ DOMAIN payloads = 1 .. n
  BY <1>2, <1>3
<1>5. PICK all : all = IF terminated THEN Append(payloads, None) ELSE payloads
  OBVIOUS
<1>6. PICK kept : kept = IF Len(all) = Len(sorted) + 1 /\ all[Len(all)] = None THEN Front(all) ELSE all
  OBVIOUS
<1>7. Extracted(pages, TRUE, terminated) =
        IF Len(kept) # Len(sorted) THEN None
        ELSE [k \in DOMAIN sorted |-> [page |-> sorted[k], text |-> kept[k]]]
  BY <1>1, <1>3, <1>5, <1>6 DEF Extracted, Paired, text
<1>8. Len(kept) = n /\ \A k \in 1 .. n : kept[k] = payloads[k]
  <2>1. CASE terminated
    <3>1. all = Append(payloads, None)
      BY <1>5, <2>1
    <3>2. Len(all) = n + 1 /\ all[n + 1] = None /\ \A k \in 1 .. n : all[k] = payloads[k]
      BY <1>4, <3>1
    <3>3. kept = SubSeq(all, 1, n)
      BY <1>2, <1>6, <3>2 DEF Front
    <3>4. all \in Seq({payloads[k] : k \in 1 .. n} \cup {None})
      BY <1>4, <3>1
    <3> QED
      BY <3>2, <3>3, <3>4
  <2>2. CASE ~terminated
    BY <1>2, <1>4, <1>5, <1>6, <2>2
  <2> QED
    BY <2>1, <2>2
<1>9. PICK answer : answer = Extracted(pages, TRUE, terminated)
  OBVIOUS
<1>10. answer = [k \in 1 .. n |-> [page |-> sorted[k], text |-> kept[k]]]
  BY <1>2, <1>7, <1>8, <1>9
<1>11. \A k \in 1 .. n : answer[k] = [page |-> sorted[k], text |-> text(sorted[k])]
  BY <1>2, <1>3, <1>8, <1>10
<1>12. \A k \in 1 .. n : sorted[k] \in pages
  BY <1>1, <1>2, AscendingFacts DEF NormalizedPages
<1>13. answer \in Seq(OwnTexts(content, pages, reading.engine))
  <2>1. \A k \in 1 .. n : answer[k] \in OwnTexts(content, pages, reading.engine)
    BY <1>11, <1>12 DEF OwnTexts, text
  <2> QED
    BY <1>2, <1>10, <2>1
<1>14. Fits(answer, pages)
  <2>1. \A k \in 1 .. n : answer[k].page = sorted[k]
    <3> SUFFICES ASSUME NEW k \in 1 .. n PROVE answer[k].page = sorted[k]
      OBVIOUS
    <3>1. PICK p, e : p = sorted[k] /\ e = text(sorted[k])
      OBVIOUS
    <3>2. answer[k] = [page |-> p, text |-> e]
      BY <1>11, <3>1
    <3> QED
      BY <3>1, <3>2
  <2>2. sorted = [k \in 1 .. n |-> sorted[k]]
    <3> DEFINE at(k) == CHOOSE p \in pages : Cardinality({m \in pages : m <= p}) = k
    <3>1. sorted = [k \in 1 .. n |-> at(k)]
      BY <1>1, <1>2 DEF NormalizedPages, Ascending
    <3> HIDE DEF at
    <3> QED
      BY <3>1
  <2>3. [k \in 1 .. n |-> answer[k].page] = [k \in 1 .. n |-> sorted[k]]
    BY <2>1
  <2>4. DOMAIN answer = 1 .. n
    BY <1>10
  <2> QED
    BY <1>1, <2>2, <2>3, <2>4 DEF Fits
<1> QED
  BY <1>9, <1>13, <1>14

-----------------------------------------------------------------------------
(* The inductive invariant. *)

Phases == {"idle", "pages", "lookup", "next", "running", "store", "join", "done", "failed"}
HasText(p) == reading.texts[p] = Read(reading.checksum, p, reading.engine, TRUE)
Answers == Seq(OwnTexts(reading.checksum, reading.blank, reading.engine))

\* What the parse under way has of its pages: the pages with text of their own
\* have it, and the blank ones that are not missing have what the engine reads.
PagesInv ==
    /\ reading.blank \in SUBSET Int /\ IsFiniteSet(reading.blank)
    /\ reading.blank \subseteq DOMAIN reading.texts
    /\ \A p \in DOMAIN reading.texts \ reading.blank : reading.texts[p] = Native(reading.checksum, p)
MissingInv ==
    /\ reading.engine # None /\ reading.missing \subseteq reading.blank
    /\ \A p \in reading.blank \ reading.missing : HasText(p)

\* What an engine has answered: whole texts, of all pages of the batch that are
\* not stored yet.
AnswerInv ==
    /\ reading.got \in Answers
    /\ \A p \in Batch : HasText(p) \/ \E k \in DOMAIN reading.got : reading.got[k].page = p

ReadingInv ==
    /\ reading.phase \in Phases
    /\ reading.phase \notin {"idle", "done", "failed"} =>
          reading.kind # "archive" /\ content = reading.checksum
    /\ reading.phase \in {"lookup", "next", "running", "store", "join"} => PagesInv
    /\ reading.phase = "lookup" => reading.engine # None /\ \A p \in reading.blank : reading.texts[p] = None
    /\ reading.phase = "join" =>
          reading.blank = {} \/ (reading.engine = None /\ \A p \in reading.blank : reading.texts[p] = None)
    /\ reading.phase \in {"next", "running", "store"} => MissingInv
    /\ reading.phase = "store" => AnswerInv

\* Only what nothing has struck is believed, and a command for one page, whose
\* answer is not compared with the request, answers for that page.
Struck == child.aborted \/ child.timedOut \/ child.large \/ child.code # 0
ChildInv ==
    /\ child.state \in {"none", "running", "terminated", "killed", "ended"}
    /\ child.state # "none" <=> reading.phase = "running"
    /\ child.state \in {"terminated", "killed"} => child.aborted \/ child.timedOut \/ child.large
    /\ child.state = "ended" /\ ~Struck =>
          child.answer \in Answers /\ (~reading.batched => Fits(child.answer, Batch))

ExtractionInv == ReadingInv /\ ChildInv /\ CacheTrue /\ PagesRead

-----------------------------------------------------------------------------
(* Steps that end the parse, or read an archive. *)

Settled ==
    /\ reading'.phase \in {"idle", "failed"} \/ (reading'.phase = "done" /\ reading'.kind = "archive")
    /\ child'.state = "none"

LEMMA SettledKeeps ==
  ASSUME ExtractionInv, Settled, ocrCache' = ocrCache PROVE ExtractionInv'
BY DEF ExtractionInv, Settled, ReadingInv, ChildInv, CacheTrue, PagesRead, Phases

LEMMA NoCommand == ASSUME ExtractionInv, reading.phase # "running" PROVE child.state = "none"
BY DEF ExtractionInv, ChildInv

LEMMA InitKept == ASSUME ExtractionInit PROVE ExtractionInv
BY DEF ExtractionInit, ExtractionInv, ReadingInv, ChildInv, CacheTrue, PagesRead, Phases, NoReading, NoChild

LEMMA ArchiveKeeps == ASSUME ExtractionInv, ReadArchive PROVE ExtractionInv'
<1>1. child'.state = "none"
  BY NoCommand DEF ReadArchive
<1>2. reading'.phase = "done" /\ reading'.kind = "archive"
  BY DEF ReadArchive, NoReading
<1> QED
  BY <1>1, <1>2, SettledKeeps DEF Settled, ReadArchive

LEMMA FailingKeeps == ASSUME ExtractionInv, Failing, ocrCache' = ocrCache PROVE ExtractionInv'
<1>1. reading'.phase = "failed" /\ child'.state = "none"
  BY DEF Failing, NoChild, ExtractionInv, ReadingInv
<1> QED
  BY <1>1, SettledKeeps DEF Settled

LEMMA FailKeeps ==
  ASSUME ExtractionInv, To("failed"), child' = child, reading.phase # "running", ocrCache' = ocrCache
  PROVE  ExtractionInv'
<1>1. reading'.phase = "failed" /\ child'.state = "none"
  BY NoCommand DEF To, ExtractionInv, ReadingInv
<1> QED
  BY <1>1, SettledKeeps DEF Settled

-----------------------------------------------------------------------------
(* The steps of a parse up to a command. *)

LEMMA BeginKeeps == ASSUME ExtractionInv, BeginReading PROVE ExtractionInv'
<1>1. /\ reading'.phase = "pages" /\ reading'.kind = "pdf" /\ reading'.checksum = content
      /\ content' = content /\ ocrCache' = ocrCache /\ child' = child
  BY DEF BeginReading, NoReading
<1>2. child.state = "none"
  BY NoCommand DEF BeginReading
<1> QED
  BY <1>1, <1>2 DEF ExtractionInv, ReadingInv, ChildInv, CacheTrue, PagesRead, Phases

LEMMA ReadPagesKeeps == ASSUME ExtractionInv, ReadPages PROVE ExtractionInv'
<1>1. /\ reading.phase = "pages" /\ content' = content /\ ocrCache' = ocrCache /\ child' = child
      /\ content = reading.checksum /\ reading.kind # "archive" /\ child.state = "none"
  BY NoCommand DEF ReadPages, ExtractionInv, ReadingInv
<1>2. CASE To("failed")
  BY <1>1, <1>2, FailKeeps
<1>3. CASE ~To("failed")
  <2>1. PICK pdf \in Pdfs : ReadPages!2!(pdf)
    BY DEF ReadPages
  <2>2. PICK n \in Nat, blank \in SUBSET Nat : n = pdf.pages /\ blank = pdf.blank /\ blank \subseteq 1 .. n
    BY ExtractionAssumption
  <2>3. PICK texts : texts = [p \in 1 .. n |-> IF p \in blank THEN None ELSE Native(content, p)]
    OBVIOUS
  <2>4. PICK phase : phase = IF blank = {} \/ reading.engine = None THEN "join" ELSE "lookup"
    OBVIOUS
  <2>5. reading' = [reading EXCEPT !.texts = texts, !.blank = blank, !.phase = phase]
    BY <1>3, <2>1, <2>2, <2>3, <2>4
  <2>6. /\ reading'.texts = texts /\ reading'.blank = blank /\ reading'.phase = phase
        /\ reading'.kind = reading.kind /\ reading'.checksum = reading.checksum
        /\ reading'.engine = reading.engine
    BY <2>5, <1>1 DEF ExtractionInv, ReadingInv
  <2>7. IsFiniteSet(blank) /\ blank \in SUBSET Int
    <3>1. IsFiniteSet(1 .. n)
      BY FS_Interval
    <3>2. IsFiniteSet(blank)
      BY <2>2, <3>1, FS_Subset
    <3> QED
      BY <2>2, <3>2
  <2>8. PagesInv' /\ \A p \in blank : reading'.texts[p] = None
    BY <1>1, <2>2, <2>3, <2>6, <2>7 DEF PagesInv, Native
  <2> QED
    BY <1>1, <2>4, <2>6, <2>8 DEF ExtractionInv, ReadingInv, ChildInv, CacheTrue, PagesRead, Phases
<1> QED
  BY <1>2, <1>3

LEMMA LookUpKeeps == ASSUME ExtractionInv, LookUp PROVE ExtractionInv'
<1>1. /\ reading.phase = "lookup" /\ content' = content /\ ocrCache' = ocrCache /\ child' = child
      /\ content = reading.checksum /\ reading.kind # "archive" /\ child.state = "none"
      /\ PagesInv /\ reading.engine # None /\ CacheTrue
  BY NoCommand DEF LookUp, ExtractionInv, ReadingInv
<1>2. CASE To("failed")
  BY <1>1, <1>2, FailKeeps
<1>3. CASE ~To("failed")
  <2>1. PICK hits : hits = {p \in reading.blank : Identity(p) \in DOMAIN ocrCache}
    OBVIOUS
  <2>2. PICK texts : texts = [p \in DOMAIN reading.texts |->
                               IF p \in hits THEN ocrCache[Identity(p)] ELSE reading.texts[p]]
    OBVIOUS
  <2>3. reading' = [reading EXCEPT !.texts = texts, !.missing = reading.blank \ hits, !.phase = "next"]
    BY <1>3, <2>1, <2>2 DEF LookUp
  <2>4. /\ reading'.texts = texts /\ reading'.missing = reading.blank \ hits /\ reading'.phase = "next"
        /\ reading'.kind = reading.kind /\ reading'.checksum = reading.checksum
        /\ reading'.engine = reading.engine /\ reading'.blank = reading.blank
    BY <2>3, <1>1 DEF ExtractionInv, ReadingInv
  <2>5. \A p \in hits : ocrCache[Identity(p)] = Read(reading.checksum, p, reading.engine, TRUE)
    BY <1>1, <2>1 DEF CacheTrue, Identity
  <2>6. PagesInv'
    BY <1>1, <2>1, <2>2, <2>4 DEF PagesInv
  <2>7. MissingInv'
    <3>1. \A p \in hits : p \in DOMAIN reading.texts
      BY <1>1, <2>1 DEF PagesInv
    <3>2. \A p \in hits : texts[p] = Read(reading.checksum, p, reading.engine, TRUE)
      BY <2>2, <2>5, <3>1
    <3>3. reading.blank \ (reading.blank \ hits) \subseteq hits
      OBVIOUS
    <3> QED
      BY <1>1, <2>4, <3>2, <3>3 DEF MissingInv, HasText
  <2> QED
    BY <1>1, <2>4, <2>6, <2>7 DEF ExtractionInv, ReadingInv, ChildInv, CacheTrue, PagesRead, Phases
<1> QED
  BY <1>2, <1>3

LEMMA CommandKeeps == ASSUME ExtractionInv, ReadWithCommand PROVE ExtractionInv'
<1>1. PICK engine \in Engines :
        reading' = [NoReading EXCEPT !.phase = "next", !.kind = "command", !.checksum = content,
                          !.engine = engine, !.blank = {1}, !.texts = <<None>>, !.missing = {1}]
  BY DEF ReadWithCommand
<1>2. /\ reading'.phase = "next" /\ reading'.kind = "command" /\ reading'.checksum = content
      /\ reading'.engine = engine /\ reading'.blank = {1} /\ reading'.texts = <<None>>
      /\ reading'.missing = {1}
  BY <1>1 DEF NoReading
<1>3. /\ content' = content /\ ocrCache' = ocrCache /\ child' = child /\ child.state = "none"
      /\ engine # None
  BY NoCommand, ExtractionAssumption DEF ReadWithCommand
<1>4. IsFiniteSet({1})
  BY FS_Singleton
<1>5. PagesInv' /\ MissingInv'
  BY <1>2, <1>3, <1>4 DEF PagesInv, MissingInv
<1> QED
  BY <1>2, <1>3, <1>5 DEF ExtractionInv, ReadingInv, ChildInv, CacheTrue, PagesRead, Phases

-----------------------------------------------------------------------------
(* The command. *)

SameReading ==
    /\ reading'.phase = reading.phase /\ reading'.kind = reading.kind
    /\ reading'.checksum = reading.checksum /\ reading'.blank = reading.blank
    /\ reading'.engine = reading.engine /\ reading'.batched = reading.batched
    /\ reading'.texts = reading.texts /\ reading'.missing = reading.missing
    /\ reading'.got = reading.got /\ ocrCache' = ocrCache /\ content' = content

LEMMA SameKeeps ==
  ASSUME ExtractionInv, SameReading
  PROVE  ReadingInv' /\ CacheTrue' /\ PagesRead' /\ Answers' = Answers /\ Batch' = Batch
<1>1. Answers' = Answers /\ Batch' = Batch
  BY DEF SameReading, Answers, Batch
<1>2. PagesInv' = PagesInv /\ MissingInv' = MissingInv
  BY DEF SameReading, PagesInv, MissingInv, HasText
<1>3. AnswerInv' = AnswerInv
  BY <1>1 DEF SameReading, AnswerInv, HasText
<1>4. ReadingInv'
  BY <1>2, <1>3 DEF ExtractionInv, ReadingInv, SameReading
<1>5. CacheTrue' /\ PagesRead'
  BY DEF ExtractionInv, SameReading, CacheTrue, PagesRead
<1> QED
  BY <1>1, <1>4, <1>5

LEMMA SpawnKeeps == ASSUME ExtractionInv, Spawn PROVE ExtractionInv'
<1>1. CASE Failing
  BY <1>1, FailingKeeps DEF Spawn
<1>2. CASE ~Failing
  <2>1. /\ reading.phase = "next" /\ reading' = [reading EXCEPT !.phase = "running"]
        /\ child' = [NoChild EXCEPT !.state = "running", !.timer = TRUE]
        /\ content' = content /\ ocrCache' = ocrCache
    BY <1>2 DEF Spawn, To
  <2>2. /\ reading'.phase = "running" /\ reading'.kind = reading.kind
        /\ reading'.checksum = reading.checksum /\ reading'.blank = reading.blank
        /\ reading'.engine = reading.engine
        /\ reading'.texts = reading.texts /\ reading'.missing = reading.missing
        /\ child'.state = "running"
    BY <2>1 DEF NoChild, ExtractionInv, ReadingInv
  <2>3. (PagesInv /\ MissingInv) = (PagesInv /\ MissingInv)'
    BY <2>2 DEF PagesInv, MissingInv, HasText
  <2> QED
    BY <2>1, <2>2, <2>3 DEF ExtractionInv, ReadingInv, ChildInv, CacheTrue, PagesRead, Phases
<1> QED
  BY <1>1, <1>2

\* A step that strikes the command and leaves the parse as it is.
LEMMA StruckKeeps ==
  ASSUME ExtractionInv, SameReading, Struck',
         child'.state \in {"none", "running", "terminated", "killed", "ended"},
         child'.state # "none" <=> child.state # "none",
         child'.state \in {"terminated", "killed"} => (child.aborted \/ child.timedOut \/ child.large)'
  PROVE  ExtractionInv'
<1>1. ReadingInv' /\ CacheTrue' /\ PagesRead'
  BY SameKeeps
<1>2. ChildInv'
  BY DEF ExtractionInv, ChildInv, SameReading
<1> QED
  BY <1>1, <1>2 DEF ExtractionInv

LEMMA TimerKeeps == ASSUME ExtractionInv, Timer PROVE ExtractionInv'
<1>1. PICK c : c = [child EXCEPT !.timer = FALSE, !.timedOut = TRUE]
  OBVIOUS
<1>2. c.state = child.state /\ c.timedOut = TRUE
  BY <1>1 DEF ExtractionInv, ChildInv, Timer
<1>3. child' = Terminated(c)
  BY <1>1 DEF Timer
<1>4. child'.timedOut = TRUE /\ child'.state = IF child.state = "running" THEN "terminated" ELSE child.state
  BY <1>2, <1>3 DEF Terminated
<1>5. SameReading
  BY DEF Timer, SameReading
<1> QED
  BY <1>4, <1>5, StruckKeeps DEF Struck, ExtractionInv, ChildInv

LEMMA TooLargeKeeps == ASSUME ExtractionInv, TooLarge PROVE ExtractionInv'
<1>1. PICK c : c = [child EXCEPT !.large = TRUE, !.timer = FALSE]
  OBVIOUS
<1>2. c.state = child.state /\ c.large = TRUE
  BY <1>1 DEF ExtractionInv, ChildInv, TooLarge
<1>3. child' = Terminated(c)
  BY <1>1 DEF TooLarge
<1>4. child'.large = TRUE /\ child'.state = IF child.state = "running" THEN "terminated" ELSE child.state
  BY <1>2, <1>3 DEF Terminated
<1>5. SameReading
  BY DEF TooLarge, SameReading
<1> QED
  BY <1>4, <1>5, StruckKeeps DEF Struck, ExtractionInv, ChildInv

LEMMA AbortKeeps == ASSUME ExtractionInv, Abort PROVE ExtractionInv'
<1>1. SameReading
  BY DEF Abort, SameReading
<1>2. CASE child.state = "none"
  <2>1. child' = child
    BY <1>2 DEF Abort
  <2> QED
    BY <1>1, <1>2, <2>1, SameKeeps DEF ExtractionInv, ChildInv, SameReading
<1>3. CASE child.state # "none"
  <2>1. PICK c : c = [child EXCEPT !.aborted = TRUE]
    OBVIOUS
  <2>2. c.state = child.state /\ c.aborted = TRUE
    BY <2>1 DEF ExtractionInv, ChildInv
  <2>3. child' = Terminated(c)
    BY <1>3, <2>1 DEF Abort
  <2>4. child'.aborted = TRUE /\ child'.state = IF child.state = "running" THEN "terminated" ELSE child.state
    BY <2>2, <2>3 DEF Terminated
  <2> QED
    BY <1>1, <2>4, StruckKeeps DEF Struck, ExtractionInv, ChildInv
<1> QED
  BY <1>2, <1>3

LEMMA EscalateKeeps == ASSUME ExtractionInv, Escalate PROVE ExtractionInv'
<1>1. SameReading
  BY DEF Escalate, SameReading
<1>2. /\ child'.state = "killed" /\ child'.aborted = child.aborted
      /\ child'.timedOut = child.timedOut /\ child'.large = child.large
  BY DEF Escalate, ExtractionInv, ChildInv
<1>3. child.state = "terminated" /\ (child.aborted \/ child.timedOut \/ child.large)
  BY DEF Escalate, ExtractionInv, ChildInv
<1> QED
  BY <1>1, <1>2, <1>3, StruckKeeps DEF Struck

\* The texts of a batch are texts of the pages that have none of their own.
LEMMA BatchFacts ==
  ASSUME ExtractionInv, reading.phase \in {"running", "store"}
  PROVE  /\ Batch \in SUBSET Int /\ IsFiniteSet(Batch) /\ Batch \subseteq reading.blank
         /\ content = reading.checksum
         /\ Seq(OwnTexts(content, Batch, reading.engine)) \subseteq Answers
<1>1. /\ reading.blank \in SUBSET Int /\ IsFiniteSet(reading.blank) /\ content = reading.checksum
      /\ reading.missing \subseteq reading.blank
  BY DEF ExtractionInv, ReadingInv, PagesInv, MissingInv
<1>2. Batch \subseteq reading.missing
  BY DEF Batch
<1>3. Batch \subseteq reading.blank
  BY <1>1, <1>2
<1>4. IsFiniteSet(Batch)
  BY <1>1, <1>3, FS_Subset
<1>5. OwnTexts(content, Batch, reading.engine) \subseteq OwnTexts(reading.checksum, reading.blank, reading.engine)
  BY <1>1, <1>3 DEF OwnTexts
<1>6. \A s \in Seq(OwnTexts(content, Batch, reading.engine)) : s \in Answers
  <2> SUFFICES ASSUME NEW s \in Seq(OwnTexts(content, Batch, reading.engine)) PROVE s \in Answers
    OBVIOUS
  <2> DEFINE O == OwnTexts(content, Batch, reading.engine)
             P == OwnTexts(reading.checksum, reading.blank, reading.engine)
  <2>1. s \in Seq(O) /\ O \subseteq P
    BY <1>5
  <2> HIDE DEF O, P
  <2>2. s \in Seq(P)
    BY <2>1
  <2> QED
    BY <2>2 DEF P, Answers
<1> QED
  BY <1>1, <1>3, <1>4, <1>6

\* A command that orders its answer otherwise, or leaves pages out, gives texts
\* of the same pages.
LEMMA ReorderedFacts ==
  ASSUME NEW S, NEW s \in Seq(S) PROVE Reverse(s) \in Seq(S) /\ Front(s) \in Seq(S)
<1>1. Reverse(s) \in Seq(S)
  <2>1. \A i \in 1 .. Len(s) : (Len(s) - i) + 1 \in 1 .. Len(s)
    OBVIOUS
  <2> QED
    BY <2>1 DEF Reverse
<1>2. Front(s) \in Seq(S)
  BY DEF Front
<1> QED
  BY <1>1, <1>2

LEMMA EndsKeeps == ASSUME ExtractionInv, Ends PROVE ExtractionInv'
<1>1. SameReading /\ child.state # "none" /\ reading.phase = "running"
  BY DEF Ends, SameReading, ExtractionInv, ChildInv
<1>2. CASE child' = [child EXCEPT !.state = "ended", !.code = 1]
  <2>1. child'.state = "ended" /\ child'.code = 1
    BY <1>2
  <2> QED
    BY <1>1, <2>1, StruckKeeps DEF Struck
<1>3. CASE child' # [child EXCEPT !.state = "ended", !.code = 1]
  <2>1. PICK whole \in {TRUE} \cup {child.state = "running" /\ ~child.large}, terminated \in BOOLEAN :
          LET answer == Extracted(Batch, whole, terminated)
          IN  \E given \in {answer} \cup IF reading.batched THEN {Reverse(answer), Front(answer)} ELSE {} :
                 child' = [child EXCEPT !.state = "ended", !.answer = given]
    BY <1>3 DEF Ends
  <2>2. PICK answer : answer = Extracted(Batch, whole, terminated)
    OBVIOUS
  <2>3. PICK given : /\ given \in {answer} \cup IF reading.batched THEN {Reverse(answer), Front(answer)} ELSE {}
                     /\ child' = [child EXCEPT !.state = "ended", !.answer = given]
    BY <2>1, <2>2
  <2>4. /\ child'.state = "ended" /\ child'.answer = given /\ child'.aborted = child.aborted
        /\ child'.timedOut = child.timedOut /\ child'.large = child.large /\ child'.code = child.code
    BY <2>3 DEF ExtractionInv, ChildInv
  <2>5. CASE Struck
    <3>1. Struck'
      BY <2>4, <2>5 DEF Struck
    <3> QED
      BY <1>1, <2>4, <3>1, StruckKeeps
  <2>6. CASE ~Struck
    <3>1. child.state = "running" /\ ~child.large
      BY <1>3, <2>6 DEF Ends, Struck, ExtractionInv, ChildInv
    <3>2. whole = TRUE
      BY <3>1
    <3>3. answer \in Answers /\ Fits(answer, Batch)
      BY <1>1, <2>2, <3>2, BatchFacts, ExtractedFacts
    <3>4. given \in Answers
      BY <2>3, <3>3, ReorderedFacts DEF Answers
    <3>5. ~reading.batched => Fits(given, Batch)
      BY <2>3, <3>3
    <3>6. ReadingInv' /\ CacheTrue' /\ PagesRead' /\ Answers' = Answers /\ Batch' = Batch
      BY <1>1, SameKeeps
    <3>7. Fits(given, Batch)' = Fits(given, Batch)
      BY <3>6 DEF Fits
    <3>8. (child.answer \in Answers /\ (~reading.batched => Fits(child.answer, Batch)))'
      <4>1. reading'.batched = reading.batched
        BY <1>1 DEF SameReading
      <4>2. Fits(child.answer, Batch)' = Fits(given, Batch)
        BY <2>4, <3>6 DEF Fits
      <4> QED
        BY <2>4, <3>4, <3>5, <3>6, <4>1, <4>2
    <3>9. ChildInv'
      BY <1>1, <2>4, <3>8 DEF ChildInv, SameReading
    <3> QED
      BY <3>6, <3>9 DEF ExtractionInv
  <2> QED
    BY <2>5, <2>6
<1> QED
  BY <1>2, <1>3

LEMMA CloseKeeps == ASSUME ExtractionInv, Close PROVE ExtractionInv'
<1>1. child.state = "ended" /\ reading.phase = "running" /\ content' = content /\ ocrCache' = ocrCache
  BY DEF Close, ExtractionInv, ChildInv
<1>2. CASE Struck
  BY <1>1, <1>2, FailingKeeps DEF Close, Struck
<1>3. CASE ~Struck
  <2>1. /\ IF reading.batched /\ ~Fits(child.answer, Batch) THEN To("failed")
            ELSE reading' = [reading EXCEPT !.phase = "store", !.got = child.answer]
        /\ child' = NoChild
    BY <1>3 DEF Close, Struck
  <2>2. CASE reading.batched /\ ~Fits(child.answer, Batch)
    BY <1>1, <2>1, <2>2, FailingKeeps DEF Failing, To
  <2>3. CASE ~(reading.batched /\ ~Fits(child.answer, Batch))
    <3>1. /\ reading'.phase = "store" /\ reading'.got = child.answer /\ child'.state = "none"
          /\ reading'.kind = reading.kind /\ reading'.checksum = reading.checksum
          /\ reading'.blank = reading.blank /\ reading'.engine = reading.engine
          /\ reading'.batched = reading.batched /\ reading'.texts = reading.texts
          /\ reading'.missing = reading.missing
      <4>1. PICK answer : answer = child.answer
        OBVIOUS
      <4>2. reading' = [reading EXCEPT !.phase = "store", !.got = answer] /\ child' = NoChild
        BY <2>1, <2>3, <4>1
      <4> QED
        BY <1>1, <4>1, <4>2 DEF NoChild
    <3>2. child.answer \in Answers /\ Fits(child.answer, Batch)
      BY <1>1, <1>3, <2>3 DEF ExtractionInv, ChildInv
    <3>3. Answers' = Answers /\ Batch' = Batch /\ PagesInv' = PagesInv /\ MissingInv' = MissingInv
      BY <3>1 DEF Answers, Batch, PagesInv, MissingInv, HasText
    <3>4. \A p \in Batch : \E k \in DOMAIN child.answer : child.answer[k].page = p
      <4>1. PICK answer, sorted : answer = child.answer /\ sorted = NormalizedPages(Batch)
        OBVIOUS
      <4>2. [k \in DOMAIN answer |-> answer[k].page] = sorted
        BY <3>2, <4>1 DEF Fits
      <4>3. \A p \in Batch : \E k \in DOMAIN sorted : sorted[k] = p
        BY <1>1, <4>1, BatchFacts, AscendingFacts DEF NormalizedPages
      <4> QED
        BY <4>1, <4>2, <4>3
    <3>5. AnswerInv'
      BY <3>1, <3>2, <3>3, <3>4 DEF AnswerInv
    <3> QED
      BY <1>1, <3>1, <3>3, <3>5 DEF ExtractionInv, ReadingInv, ChildInv, CacheTrue, PagesRead, Phases
  <2> QED
    BY <2>2, <2>3
<1> QED
  BY <1>2, <1>3

-----------------------------------------------------------------------------
(* The texts of an answer, and the end of the parse. *)

LEMMA StoreKeeps == ASSUME ExtractionInv, Store PROVE ExtractionInv'
<1>1. /\ reading.phase = "store" /\ reading.got # <<>> /\ content' = content /\ child' = child
      /\ child.state = "none" /\ content = reading.checksum /\ PagesInv /\ MissingInv /\ AnswerInv
  BY NoCommand DEF Store, ExtractionInv, ReadingInv
<1>2. PICK answer, got, rest : answer = Head(reading.got) /\ got = reading.got /\ rest = Tail(reading.got)
  OBVIOUS
<1>3. CASE To("failed") /\ ocrCache' = ocrCache
  BY <1>1, <1>3, FailKeeps
<1>4. CASE ~(To("failed") /\ ocrCache' = ocrCache)
  <2>1. /\ reading' = [reading EXCEPT !.texts[answer.page] = answer.text, !.got = rest]
        /\ ocrCache' = IF reading.kind = "command" THEN ocrCache
                       ELSE [id \in DOMAIN ocrCache \cup {Identity(answer.page)} |->
                               IF id = Identity(answer.page) THEN answer.text ELSE ocrCache[id]]
    BY <1>2, <1>4 DEF Store
  <2> DEFINE O == OwnTexts(reading.checksum, reading.blank, reading.engine)
  <2>2. got \in Seq(O) /\ got # <<>>
    BY <1>1, <1>2 DEF AnswerInv, Answers
  <2>3. /\ answer \in O /\ answer = got[1] /\ rest \in Seq(O)
        /\ \A k \in DOMAIN got : k # 1 => k - 1 \in DOMAIN rest /\ rest[k - 1] = got[k]
    <3> HIDE DEF O
    <3> QED
      BY <1>2, <2>2
  <2>4. PICK page \in reading.blank : answer = [page |-> page, text |-> Read(reading.checksum, page, reading.engine, TRUE)]
    BY <2>3 DEF OwnTexts
  <2>5. PICK text : text = Read(reading.checksum, page, reading.engine, TRUE)
    OBVIOUS
  <2>6. answer.page = page /\ answer.text = text
    BY <2>4, <2>5
  <2>7. PICK texts : texts = [reading.texts EXCEPT ![page] = text]
    OBVIOUS
  <2>8. reading' = [reading EXCEPT !.texts = texts, !.got = rest]
    BY <2>1, <2>6, <2>7
  <2>9. /\ reading'.phase = "store" /\ reading'.got = rest /\ reading'.texts = texts
        /\ reading'.kind = reading.kind /\ reading'.checksum = reading.checksum
        /\ reading'.blank = reading.blank /\ reading'.engine = reading.engine
        /\ reading'.batched = reading.batched /\ reading'.missing = reading.missing
    BY <1>1, <2>8
  <2>10. /\ DOMAIN texts = DOMAIN reading.texts /\ texts[page] = text
         /\ \A p \in DOMAIN texts : p # page => texts[p] = reading.texts[p]
    BY <1>1, <2>7 DEF PagesInv
  <2>11. PagesInv'
    BY <1>1, <2>9, <2>10 DEF PagesInv
  <2>12. \A p \in reading.blank : (HasText(p) => HasText(p)') /\ HasText(page)'
    BY <1>1, <2>5, <2>9, <2>10 DEF HasText, PagesInv
  <2>13. MissingInv'
    BY <1>1, <2>9, <2>12 DEF MissingInv
  <2>14. Batch' = Batch /\ Answers' = Answers
    BY <2>9 DEF Batch, Answers
  <2>15. AnswerInv'
    <3>1. \A p \in Batch : HasText(p)' \/ \E k \in DOMAIN rest : rest[k].page = p
      <4> SUFFICES ASSUME NEW p \in Batch PROVE HasText(p)' \/ \E k \in DOMAIN rest : rest[k].page = p
        OBVIOUS
      <4>1. p \in reading.blank
        BY <1>1, BatchFacts
      <4>2. HasText(p) \/ \E k \in DOMAIN got : got[k].page = p
        BY <1>1, <1>2 DEF AnswerInv
      <4>3. CASE HasText(p)
        BY <2>12, <4>1, <4>3
      <4>4. CASE \E k \in DOMAIN got : got[k].page = p
        <5>1. PICK k \in DOMAIN got : got[k].page = p
          BY <4>4
        <5>2. CASE k = 1
          BY <2>3, <2>6, <2>12, <4>1, <5>1, <5>2
        <5>3. CASE k # 1
          BY <2>3, <5>1, <5>3
        <5> QED
          BY <5>2, <5>3
      <4> QED
        BY <4>2, <4>3, <4>4
    <3>2. rest \in Answers
      BY <2>3 DEF Answers
    <3> QED
      BY <2>9, <2>14, <3>1, <3>2 DEF AnswerInv
  <2>16. CacheTrue'
    <3>1. CASE reading.kind = "command"
      BY <2>1, <3>1 DEF ExtractionInv, CacheTrue
    <3>2. CASE reading.kind # "command"
      <4>1. PICK new, id : new = ocrCache' /\ id = Identity(page)
        OBVIOUS
      <4>2. new = [i \in DOMAIN ocrCache \cup {id} |-> IF i = id THEN text ELSE ocrCache[i]]
        BY <2>1, <2>6, <3>2, <4>1
      <4>3. text = Read(id[1], id[2], id[3], TRUE)
        BY <2>5, <4>1 DEF Identity
      <4>4. \A i \in DOMAIN ocrCache : ocrCache[i] = Read(i[1], i[2], i[3], TRUE)
        BY DEF ExtractionInv, CacheTrue
      <4>5. \A i \in DOMAIN new : new[i] = Read(i[1], i[2], i[3], TRUE)
        BY <4>2, <4>3, <4>4
      <4> QED
        BY <4>1, <4>5 DEF CacheTrue
    <3> QED
      BY <3>1, <3>2
  <2> QED
    BY <1>1, <2>9, <2>11, <2>13, <2>15, <2>16 DEF ExtractionInv, ReadingInv, ChildInv, PagesRead, Phases
<1> QED
  BY <1>3, <1>4

LEMMA StoredKeeps == ASSUME ExtractionInv, Stored PROVE ExtractionInv'
<1>1. /\ reading.phase = "store" /\ reading.got = <<>> /\ content' = content /\ child' = child
      /\ ocrCache' = ocrCache
      /\ child.state = "none" /\ content = reading.checksum /\ PagesInv /\ MissingInv /\ AnswerInv
  BY NoCommand DEF Stored, ExtractionInv, ReadingInv
<1>2. PICK left : left = reading.missing \ Batch
  OBVIOUS
<1>3. reading' = [reading EXCEPT !.phase = "next", !.missing = left]
  BY <1>2 DEF Stored
<1>4. /\ reading'.phase = "next" /\ reading'.missing = left /\ reading'.texts = reading.texts
      /\ reading'.kind = reading.kind /\ reading'.checksum = reading.checksum
      /\ reading'.blank = reading.blank /\ reading'.engine = reading.engine
  BY <1>1, <1>3
<1>5. \A p \in Batch : HasText(p)
  <2>1. DOMAIN reading.got = {}
    BY <1>1
  <2> QED
    BY <1>1, <2>1 DEF AnswerInv
<1>6. PagesInv' /\ MissingInv'
  BY <1>1, <1>2, <1>4, <1>5 DEF PagesInv, MissingInv, HasText
<1> QED
  BY <1>1, <1>4, <1>6 DEF ExtractionInv, ReadingInv, ChildInv, CacheTrue, PagesRead, Phases

LEMMA JoinKeeps == ASSUME ExtractionInv, Join PROVE ExtractionInv'
<1>1. /\ reading.phase \in {"join", "next"} /\ content' = content /\ child' = child
      /\ ocrCache' = ocrCache /\ child.state = "none"
  BY NoCommand DEF Join
<1>2. \/ reading' = [reading EXCEPT !.phase = "failed"]
      \/ \E regions : reading' = [reading EXCEPT !.phase = "done", !.regions = regions]
  BY DEF Join, To
<1>3. /\ reading'.phase \in {"failed", "done"} /\ reading'.texts = reading.texts
      /\ reading'.kind = reading.kind /\ reading'.checksum = reading.checksum
      /\ reading'.blank = reading.blank /\ reading'.engine = reading.engine
  <2>1. CASE reading' = [reading EXCEPT !.phase = "failed"]
    BY <1>1, <2>1
  <2>2. ASSUME NEW regions, reading' = [reading EXCEPT !.phase = "done", !.regions = regions]
        PROVE  /\ reading'.phase \in {"failed", "done"} /\ reading'.texts = reading.texts
               /\ reading'.kind = reading.kind /\ reading'.checksum = reading.checksum
               /\ reading'.blank = reading.blank /\ reading'.engine = reading.engine
    BY <1>1, <2>2
  <2> QED
    BY <1>2, <2>1, <2>2
<1>5. \A p \in DOMAIN reading.texts :
        reading.texts[p] = IF p \notin reading.blank THEN Native(reading.checksum, p)
                           ELSE IF reading.engine = None THEN None
                           ELSE Read(reading.checksum, p, reading.engine, TRUE)
  <2>1. PagesInv
    BY <1>1 DEF ExtractionInv, ReadingInv
  <2>2. CASE reading.phase = "join"
    BY <2>1, <2>2 DEF ExtractionInv, ReadingInv, PagesInv
  <2>3. CASE reading.phase = "next"
    <3>1. reading.missing = {} /\ MissingInv
      BY <2>3 DEF Join, ExtractionInv, ReadingInv
    <3> QED
      BY <2>1, <3>1 DEF PagesInv, MissingInv, HasText
  <2> QED
    BY <1>1, <2>2, <2>3
<1>6. PagesRead'
  BY <1>3, <1>5 DEF PagesRead
<1> QED
  BY <1>1, <1>3, <1>6 DEF ExtractionInv, ReadingInv, ChildInv, CacheTrue, Phases

LEMMA RestKeeps ==
  ASSUME ExtractionInv, "rewrite" \notin ExtractionEvents, NextFile \/ Rewrite \/ Die
  PROVE  ExtractionInv'
<1>1. CASE NextFile
  <2>1. reading'.phase = "idle" /\ child'.state = "none" /\ ocrCache' = ocrCache
    BY <1>1, NoCommand DEF NextFile, NoReading
  <2> QED
    BY <2>1, SettledKeeps DEF Settled
<1>2. CASE Die
  <2>1. reading'.phase = "idle" /\ child'.state = "none" /\ ocrCache' = ocrCache
    BY <1>2 DEF Die, NoReading, NoChild
  <2> QED
    BY <2>1, SettledKeeps DEF Settled
<1>3. CASE Rewrite
  <2>1. reading.phase = "idle" /\ reading' = reading /\ child' = child /\ ocrCache' = ocrCache
    BY <1>3 DEF Rewrite
  <2>2. child.state = "none"
    BY <2>1, NoCommand
  <2> QED
    BY <2>1, <2>2, SettledKeeps DEF Settled
<1> QED
  BY <1>1, <1>2, <1>3

LEMMA ExtractionInvKept ==
  ASSUME ExtractionInv, "rewrite" \notin ExtractionEvents, [ExtractionNext]_extractionVars
  PROVE  ExtractionInv'
<1>1. CASE UNCHANGED extractionVars
  <2>1. SameReading /\ child' = child
    BY <1>1 DEF extractionVars, SameReading
  <2>2. ChildInv'
    BY <1>1, <2>1, SameKeeps DEF extractionVars, ExtractionInv, ChildInv, Struck, Fits
  <2> QED
    BY <2>1, <2>2, SameKeeps DEF ExtractionInv
<1>2. CASE ExtractionNext
  BY <1>2, ArchiveKeeps, BeginKeeps, ReadPagesKeeps, LookUpKeeps, CommandKeeps, SpawnKeeps, TimerKeeps,
     AbortKeeps, TooLargeKeeps, EscalateKeeps, EndsKeeps, CloseKeeps, StoreKeeps, StoredKeeps, JoinKeeps,
     RestKeeps
  DEF ExtractionNext
<1> QED
  BY <1>1, <1>2

\* A PDF that is not rewritten while it is read gets, through failures, aborts and
\* crashes, on every page its own text or what its engine reads on that page of
\* that content, and only whole texts are cached, each under the checksum, the
\* page and the engine it belongs to (parsing.ts:737-817).
THEOREM PagesAreTheirOwn ==
  ASSUME "rewrite" \notin ExtractionEvents
  PROVE  ExtractionSpec => []ExtractionSound
<1>1. ExtractionInit => ExtractionInv
  BY InitKept
<1>2. ExtractionInv /\ [ExtractionNext]_extractionVars => ExtractionInv'
  BY ExtractionInvKept
<1>3. ExtractionInv => ExtractionSound
  BY DEF ExtractionInv, ExtractionSound
<1> QED
  BY <1>1, <1>2, <1>3, PTL DEF ExtractionSpec

=============================================================================
