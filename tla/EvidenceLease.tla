---------------------------- MODULE EvidenceLease ----------------------------
(***************************************************************************)
(* What the retained-evidence cache promises to the analyses that read     *)
(* from it: evidence put on the shelf may be read by any number of readers *)
(* at once, and nothing a reader is reading is taken off the shelf.        *)
(* How tokens are looked up, how leases are counted, when evidence expires *)
(* and which thread deletes it are left to EvidenceCache, which implements *)
(* this specification.                                                     *)
(***************************************************************************)
CONSTANTS Tokens,    \* identities of extracted evidence directories
          Threads,   \* possible readers
          NoToken    \* what a thread that reads nothing reads

VARIABLES shelf,     \* evidence that is on disk
          reading    \* reading[t]: the evidence thread t reads, or NoToken

vars == <<shelf, reading>>

TypeOK == /\ shelf \in SUBSET Tokens
          /\ reading \in [Threads -> Tokens \cup {NoToken}]

Init == /\ shelf = {}
        /\ reading = [t \in Threads |-> NoToken]

(* A directory is created for new evidence. *)
Publish(k) == /\ k \notin shelf
              /\ shelf' = shelf \cup {k}
              /\ UNCHANGED reading

(* A reader may only start on evidence that is there. *)
BeginRead(t, k) == /\ reading[t] = NoToken
                   /\ k \in shelf
                   /\ reading' = [reading EXCEPT ![t] = k]
                   /\ UNCHANGED shelf

EndRead(t) == /\ reading[t] # NoToken
              /\ reading' = [reading EXCEPT ![t] = NoToken]
              /\ UNCHANGED shelf

(* Only evidence that nobody reads is removed, a set of it at a time. *)
Discard(K) == /\ K # {}
              /\ \A t \in Threads : reading[t] \notin K
              /\ shelf' = shelf \ K
              /\ UNCHANGED reading

(* The server process ends: no reader survives it, the disk does. *)
ReadersGone == /\ reading' = [t \in Threads |-> NoToken]
               /\ UNCHANGED shelf

Next == \/ \E k \in Tokens : Publish(k)
        \/ \E t \in Threads, k \in Tokens : BeginRead(t, k)
        \/ \E t \in Threads : EndRead(t)
        \/ \E K \in SUBSET Tokens : Discard(K)
        \/ ReadersGone

Spec == Init /\ [][Next]_vars
=============================================================================
