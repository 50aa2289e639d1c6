----------------------------- MODULE WriteMutex -----------------------------
(***************************************************************************)
(* What the writer lock promises: the operations of index writers never    *)
(* overlap.  A writer begins its operation when nobody's runs, and leaves  *)
(* it by returning, by throwing or by dying.                               *)
(***************************************************************************)
CONSTANT Writers

VARIABLE writing   \* the writers whose operation runs

Init == writing = {}

Enter(w) == writing = {} /\ writing' = {w}

Leave(w) == w \in writing /\ writing' = writing \ {w}

Next == \E w \in Writers : Enter(w) \/ Leave(w)

Spec == Init /\ [][Next]_writing
=============================================================================
