--------------------------- MODULE MCProcessingJobs ---------------------------
(* Instances of ProcessingJobs for TLC. *)
EXTENDS ProcessingJobs, TLC

AllJobs == Discoveries \cup Analyses

(* Captures, signatures and analyses are interchangeable. *)
DataSymmetry ==
    Permutations(Pcaps) \cup Permutations(Signatures) \cup Permutations(Analyses)

(* Bound of the instance with two analyses: one of them runs in every way  *)
(* there is, or both reuse the evidence of the discovery, under the        *)
(* runtime it was made with, until the server stops.                       *)
AloneOrReusing ==
    \/ \E j \in Analyses : pc[j] = "absent"
    \/ \A j \in Analyses : pc[j] = "lost"
    \/ /\ process = "serving"
       /\ \A j \in Analyses : /\ request[j].token # NoToken
                               /\ request[j].capture = NoPcap
                               /\ signature = madeWith[request[j].token]
=============================================================================
