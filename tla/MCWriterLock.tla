---------------------------- MODULE MCWriterLock ----------------------------
(* Instances of WriterLock for TLC: interchangeable processes. *)
EXTENDS WriterLock, TLC

Symmetry == Permutations(Procs)
=============================================================================
