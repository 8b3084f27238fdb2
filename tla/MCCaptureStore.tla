---------------------------- MODULE MCCaptureStore ----------------------------
(* Instances of CaptureStore for TLC. *)
EXTENDS CaptureStore, TLC

(* Clients, contents and ids are interchangeable. *)
CaptureSymmetry ==
    Permutations(Clients) \cup Permutations(Shas) \cup Permutations(Ids)
=============================================================================
