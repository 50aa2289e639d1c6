----------------------------- MODULE MCIngestRun -----------------------------
(* Instances of IngestRun: "v" and "w" have one and two chunks, "e" has no text. *)
EXTENDS IngestRun, TLC

MCVersions == {"v", "w", "e"}
MCChunks == [v \in MCVersions |-> CASE v = "v" -> 1 [] v = "w" -> 2 [] v = "e" -> 0]
Symmetry == Permutations(Files)
=============================================================================
