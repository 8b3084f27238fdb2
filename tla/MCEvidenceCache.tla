--------------------------- MODULE MCEvidenceCache ---------------------------
(* Instances of EvidenceCache for TLC. *)
EXTENDS EvidenceCache, TLC

(* Tokens and threads are interchangeable: only equality tells them apart. *)
EvidenceSymmetry == Permutations(Tokens) \cup Permutations(Threads)
=============================================================================
