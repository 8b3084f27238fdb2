----------------------------- MODULE CaptureStore -----------------------------
(***************************************************************************)
(* Retained packet captures (backend/auth/capture_store.py): a metadata    *)
(* row in MongoDB and a file below the storage root for each. The store    *)
(* has no lock and no transaction. A step of this model is one database    *)
(* command or one file-system effect of a request thread, and steps of     *)
(* different requests interleave.                                          *)
(*                                                                         *)
(* One owner is modelled: every query but the two of the administrator     *)
(* names the owner. All captures have the same size, so the quota counts   *)
(* them. Retention and quota are enabled.                                  *)
(***************************************************************************)
EXTENDS Integers, FiniteSets

CONSTANTS Clients,    \* request threads that use the store
          Shas,       \* contents of captures
          Ids,        \* capture ids; an id also names its file
          Limit,      \* pcap_storage_limit_bytes, in captures
          Retention,  \* pcap_retention_days, in ticks
          MaxTime,    \* bound of the model: the clock stops here
          NoRow,      \* find_one found nothing
          NoId        \* no capture in hand

Row == [sha : Shas, lastUsed : Int]

ASSUME ClientsAssumption   == IsFiniteSet(Clients) /\ Clients # {}
ASSUME IdsAssumption       == IsFiniteSet(Ids) /\ NoId \notin Ids
ASSUME LimitAssumption     == Limit \in Nat
ASSUME RetentionAssumption == Retention \in Nat \ {0}
ASSUME NoRowAssumption     == NoRow \notin Row

VARIABLES
    now,      \* datetime.now(UTC)
    rows,     \* the captures collection
    files,    \* the files under users/<owner>/pcaps
    issued,   \* ids ever drawn: uuid4 never repeats
    usedAt,   \* history: when a capture was last saved or analyzed
    pc,       \* where a client is in an operation
    sha,      \* the content a client saves
    hand,     \* the capture a client works on
    seen,     \* what a client has read: expired rows, known rows, orphans
    disturbed \* history: the process crashed, a removal failed between its
              \* file and its row, or orphans were removed

local == <<pc, sha, hand, seen>>
vars == <<now, rows, files, issued, usedAt, local, disturbed>>

Steps == {"idle", "scan", "expire", "unrow", "find", "touch", "reload",
          "measure", "write", "insert", "lookup", "unlink", "delete",
          "glob", "collect"}

CapturesTypeOK ==
    /\ now \in Nat
    /\ rows \in [Ids -> [sha : Shas, lastUsed : Nat] \cup {NoRow}]
    /\ files \in SUBSET Ids
    /\ issued \in SUBSET Ids
    /\ usedAt \in [Ids -> Nat]
    /\ pc \in [Clients -> Steps]
    /\ sha \in [Clients -> Shas \cup {NoRow}]
    /\ hand \in [Clients -> Ids \cup {NoId}]
    /\ seen \in [Clients -> SUBSET Ids]
    /\ disturbed \in BOOLEAN

Idle == /\ pc = [c \in Clients |-> "idle"]
        /\ sha = [c \in Clients |-> NoRow]
        /\ hand = [c \in Clients |-> NoId]
        /\ seen = [c \in Clients |-> {}]

Init ==
    /\ now = 0
    /\ rows = [k \in Ids |-> NoRow]
    /\ files = {}
    /\ issued = {}
    /\ usedAt = [k \in Ids |-> 0]
    /\ disturbed = FALSE
    /\ Idle

-----------------------------------------------------------------------------
Rows == {k \in Ids : rows[k] # NoRow}

Expired(k) == now - rows[k].lastUsed > Retention

(* Rows that hold the content s; the unique index keeps it to one. *)
Holding(s) == {k \in Rows : rows[k].sha = s}

Goto(c, from, to) == pc[c] = from /\ pc' = [pc EXCEPT ![c] = to]

(* An operation ends; its thread keeps nothing. *)
Finish(c, from) == /\ pc[c] = from
                   /\ pc' = [pc EXCEPT ![c] = "idle"]
                   /\ sha' = [sha EXCEPT ![c] = NoRow]
                   /\ hand' = [hand EXCEPT ![c] = NoId]
                   /\ seen' = [seen EXCEPT ![c] = {}]

Take(c, k) == hand' = [hand EXCEPT ![c] = k]

-----------------------------------------------------------------------------
(* cleanup_expired, alone (list_for_owner, the administrator, startup) or  *)
(* at the head of save_bytes.                                              *)

BeginCleanup(c) == /\ Goto(c, "idle", "scan")
                   /\ UNCHANGED <<now, rows, files, issued, usedAt, sha, hand,
                                  seen, disturbed>>

(* Bound of the model: a save is only begun when an id is left for it.     *)
Saving == {c \in Clients : sha[c] # NoRow /\ pc[c] # "insert"}
IdLeft == Cardinality(issued) + Cardinality(Saving) < Cardinality(Ids)

BeginSave(c, s) == /\ IdLeft
                   /\ Goto(c, "idle", "scan")
                   /\ sha' = [sha EXCEPT ![c] = s]
                   /\ UNCHANGED <<now, rows, files, issued, usedAt, hand, seen,
                                  disturbed>>

(* The rows are read in one go ... *)
ScanExpired(c) == /\ Goto(c, "scan", "expire")
                  /\ seen' = [seen EXCEPT ![c] = {k \in Rows : Expired(k)}]
                  /\ UNCHANGED <<now, rows, files, issued, usedAt, sha, hand,
                                 disturbed>>

(* ... and then removed one by one, the file before the row, with no       *)
(* second look at the row.                                                 *)
UnlinkExpired(c, k) == /\ k \in seen[c]
                       /\ Goto(c, "expire", "unrow")
                       /\ files' = files \ {k}
                       /\ Take(c, k)
                       /\ UNCHANGED <<now, rows, issued, usedAt, sha, seen,
                                      disturbed>>

(* Fault: only the file goes. *)
DeleteExpiredFileOnly(c) ==
    /\ Goto(c, "unrow", "expire")
    /\ seen' = [seen EXCEPT ![c] = @ \ {hand[c]}]
    /\ Take(c, NoId)
    /\ UNCHANGED <<now, rows, files, issued, usedAt, sha, disturbed>>

DeleteExpired(c) == /\ Goto(c, "unrow", "expire")
                    /\ rows' = [rows EXCEPT ![hand[c]] = NoRow]
                    /\ seen' = [seen EXCEPT ![c] = @ \ {hand[c]}]
                    /\ Take(c, NoId)
                    /\ UNCHANGED <<now, files, issued, usedAt, sha, disturbed>>

EndCleanup(c) == /\ seen[c] = {}
                 /\ \/ sha[c] = NoRow /\ Finish(c, "expire")
                    \/ /\ sha[c] # NoRow
                       /\ Goto(c, "expire", "find")
                       /\ UNCHANGED <<sha, hand, seen>>
                 /\ UNCHANGED <<now, rows, files, issued, usedAt, disturbed>>

-----------------------------------------------------------------------------
(* save_bytes.                                                             *)

FindExisting(c) ==
    /\ \/ \E k \in Holding(sha[c]) : Goto(c, "find", "touch") /\ Take(c, k)
       \/ Holding(sha[c]) = {} /\ Goto(c, "find", "measure") /\ UNCHANGED hand
    /\ UNCHANGED <<now, rows, files, issued, usedAt, sha, seen, disturbed>>

(* update_one: no effect when the row has gone. *)
Touch(c) ==
    /\ Goto(c, "touch", "reload")
    /\ rows' = IF hand[c] \in Rows THEN [rows EXCEPT ![hand[c]].lastUsed = now]
                                   ELSE rows
    /\ usedAt' = [usedAt EXCEPT ![hand[c]] = now]
    /\ UNCHANGED <<now, files, issued, sha, hand, seen, disturbed>>

(* The caller gets the row, or an empty one if it has gone. *)
Reload(c) == /\ Finish(c, "reload")
             /\ UNCHANGED <<now, rows, files, issued, usedAt, disturbed>>

(* Fault: the new capture is not counted. *)
MeasureOldOnly(c) ==
    /\ \/ /\ Cardinality(Rows) <= Limit
          /\ Goto(c, "measure", "write")
          /\ UNCHANGED <<sha, hand, seen>>
       \/ Cardinality(Rows) > Limit /\ Finish(c, "measure")
    /\ UNCHANGED <<now, rows, files, issued, usedAt, disturbed>>

(* StorageQuotaExceeded, or go on. *)
Measure(c) ==
    /\ \/ /\ Cardinality(Rows) + 1 <= Limit
          /\ Goto(c, "measure", "write")
          /\ UNCHANGED <<sha, hand, seen>>
       \/ Cardinality(Rows) + 1 > Limit /\ Finish(c, "measure")
    /\ UNCHANGED <<now, rows, files, issued, usedAt, disturbed>>

(* Fault: the file is named by something that is not new. *)
WriteFileAgain(c, k) == /\ Goto(c, "write", "insert")
                        /\ issued' = issued \cup {k}
                        /\ files' = files \cup {k}
                        /\ Take(c, k)
                        /\ UNCHANGED <<now, rows, usedAt, sha, seen, disturbed>>

(* The content is written to a hidden temporary file and moved into place. *)
WriteFile(c, k) == /\ k \notin issued
                   /\ Goto(c, "write", "insert")
                   /\ issued' = issued \cup {k}
                   /\ files' = files \cup {k}
                   /\ Take(c, k)
                   /\ UNCHANGED <<now, rows, usedAt, sha, seen, disturbed>>

(* insert_one, or DuplicateKeyError: another save of the same content was  *)
(* faster, and the file stays behind.                                      *)
InsertRow(c) ==
    /\ Finish(c, "insert")
    /\ IF Holding(sha[c]) = {}
       THEN /\ rows' = [rows EXCEPT ![hand[c]] = [sha |-> sha[c], lastUsed |-> now]]
            /\ usedAt' = [usedAt EXCEPT ![hand[c]] = now]
       ELSE UNCHANGED <<rows, usedAt>>
    /\ UNCHANGED <<now, files, issued, disturbed>>

-----------------------------------------------------------------------------
(* delete, for a capture the client has seen in a list.                    *)

BeginDelete(c, k) == /\ k \in issued
                     /\ Goto(c, "idle", "lookup")
                     /\ Take(c, k)
                     /\ UNCHANGED <<now, rows, files, issued, usedAt, sha,
                                    seen, disturbed>>

FindRow(c) == /\ \/ /\ hand[c] \in Rows
                    /\ Goto(c, "lookup", "unlink")
                    /\ UNCHANGED <<sha, hand, seen>>
                 \/ hand[c] \notin Rows /\ Finish(c, "lookup")
              /\ UNCHANGED <<now, rows, files, issued, usedAt, disturbed>>

UnlinkFile(c) == /\ Goto(c, "unlink", "delete")
                 /\ files' = files \ {hand[c]}
                 /\ UNCHANGED <<now, rows, issued, usedAt, sha, hand, seen,
                                disturbed>>

DeleteRow(c) == /\ Finish(c, "delete")
                /\ rows' = [rows EXCEPT ![hand[c]] = NoRow]
                /\ UNCHANGED <<now, files, issued, usedAt, disturbed>>

-----------------------------------------------------------------------------
(* POST captures/<id>/analyze reads the row and the path and leaves both   *)
(* as they are.                                                            *)
Analyze(k) == /\ k \in Rows
              /\ k \in files
              /\ usedAt' = [usedAt EXCEPT ![k] = now]
              /\ UNCHANGED <<now, rows, files, issued, local, disturbed>>

(* remove_orphans: the known paths, then the files, then the removals.     *)
BeginCollect(c) == /\ Goto(c, "idle", "glob")
                   /\ seen' = [seen EXCEPT ![c] = Rows]
                   /\ disturbed' = TRUE
                   /\ UNCHANGED <<now, rows, files, issued, usedAt, sha, hand>>

FindOrphans(c) == /\ Goto(c, "glob", "collect")
                  /\ seen' = [seen EXCEPT ![c] = files \ @]
                  /\ UNCHANGED <<now, rows, files, issued, usedAt, sha, hand,
                                 disturbed>>

UnlinkOrphan(c, k) == /\ pc[c] = "collect"
                      /\ k \in seen[c]
                      /\ files' = files \ {k}
                      /\ seen' = [seen EXCEPT ![c] = @ \ {k}]
                      /\ UNCHANGED <<now, rows, issued, usedAt, pc, sha, hand,
                                     disturbed>>

EndCollect(c) == /\ seen[c] = {}
                 /\ Finish(c, "collect")
                 /\ UNCHANGED <<now, rows, files, issued, usedAt, disturbed>>

-----------------------------------------------------------------------------
Tick == /\ now < MaxTime
        /\ now' = now + 1
        /\ UNCHANGED <<rows, files, issued, usedAt, local, disturbed>>

(* A database command or a file operation fails, and with it the request:  *)
(* nothing of what it has done is undone. A removal that has taken the     *)
(* file then leaves the row.                                               *)
Raise(c) == /\ pc[c] # "idle"
            /\ Finish(c, pc[c])
            /\ disturbed' = (disturbed \/ pc[c] \in {"unrow", "delete"})
            /\ UNCHANGED <<now, rows, files, issued, usedAt>>

(* The server process stops or crashes and is started again. *)
Crash == /\ pc # [c \in Clients |-> "idle"]
         /\ pc' = [c \in Clients |-> "idle"]
         /\ sha' = [c \in Clients |-> NoRow]
         /\ hand' = [c \in Clients |-> NoId]
         /\ seen' = [c \in Clients |-> {}]
         /\ disturbed' = TRUE
         /\ UNCHANGED <<now, rows, files, issued, usedAt>>

Begin(c) == \/ BeginCleanup(c)
            \/ \E s \in Shas : BeginSave(c, s)
            \/ \E k \in Ids : BeginDelete(c, k)

(* The steps of an operation under way. *)
Continue(c) ==
    \/ ScanExpired(c)
    \/ \E k \in Ids : UnlinkExpired(c, k)
    \/ DeleteExpired(c)
    \/ EndCleanup(c)
    \/ FindExisting(c)
    \/ Touch(c)
    \/ Reload(c)
    \/ Measure(c)
    \/ \E k \in Ids : WriteFile(c, k)
    \/ InsertRow(c)
    \/ FindRow(c)
    \/ UnlinkFile(c)
    \/ DeleteRow(c)
    \/ FindOrphans(c)
    \/ \E k \in Ids : UnlinkOrphan(c, k)
    \/ EndCollect(c)
    \/ Raise(c)

Next == \/ \E c \in Clients : Begin(c) \/ Continue(c) \/ BeginCollect(c)
        \/ \E k \in Ids : Analyze(k)
        \/ Tick
        \/ Crash

Spec == Init /\ [][Next]_vars

-----------------------------------------------------------------------------
(* Until a crash, a removal that failed half-way or an orphan removal, a   *)
(* row whose file is gone is about to be deleted by the thread that        *)
(* removed the file: no interleaving of saves, deletions and expiry, and   *)
(* no other error, leaves a capture that is listed, deduplicated against   *)
(* and cannot be analyzed.                                                 *)
MissingFileIsTransient ==
    disturbed \/ \A k \in Rows \ files :
        \E c \in Clients : pc[c] \in {"unrow", "delete"} /\ hand[c] = k

(* With c requests under way the quota is exceeded by at most c - 1        *)
(* captures, however often they save.                                      *)
QuotaOvershoot == Cardinality(Rows) <= Limit + Cardinality(Clients) - 1

-----------------------------------------------------------------------------
(* What the proofs need besides: an operation knows what it works on, and  *)
(* the id of a save is fresh. Nobody else has the id in a list of expired  *)
(* rows or works on a row of that id, because it had no row yet.           *)
Equipped ==
    \A c \in Clients :
        /\ pc[c] \in {"find", "touch", "reload", "measure", "write", "insert"}
              => sha[c] \in Shas
        /\ pc[c] \in {"unrow", "touch", "reload", "insert", "lookup", "unlink",
                     "delete"}
              => hand[c] \in Ids

NoCollector == \A c \in Clients : pc[c] \notin {"glob", "collect"}

(* What was listed or entered had been issued.                             *)
KnownIds == /\ Rows \subseteq issued
            /\ \A c \in Clients :
                  /\ seen[c] \subseteq issued
                  /\ pc[c] \in {"unrow", "unlink", "delete", "insert"}
                        => hand[c] \in issued

Untouched(k, c) ==
    \A d \in Clients :
        /\ k \notin seen[d]
        /\ pc[d] \in {"unrow", "unlink", "delete"} => hand[d] # k
        /\ pc[d] = "insert" /\ d # c => hand[d] # k

FreshIds ==
    \A c \in Clients : pc[c] = "insert" =>
        hand[c] \in files \ Rows /\ Untouched(hand[c], c)

(* A thread past the quota check counts like a row.                        *)
Admitted == {c \in Clients : pc[c] \in {"write", "insert"}}

QuotaInv == Cardinality(Rows) + Cardinality(Admitted)
                <= Limit + Cardinality(Clients) - 1

(* The inductive invariant.                                                *)
CaptureInv ==
    /\ CapturesTypeOK
    /\ Equipped
    /\ QuotaInv
    /\ disturbed \/ (NoCollector /\ KnownIds /\ FreshIds)
    /\ MissingFileIsTransient

-----------------------------------------------------------------------------
(* "Re-analyzing or re-uploading an already-retained capture refreshes     *)
(* last_used_at" (backend/reference/storage_retention.md:11): no capture   *)
(* is found expired within the retention of its last use.                  *)
UsedIsNotExpired ==
    [][\A c \in Clients : ScanExpired(c) =>
          \A k \in seen'[c] : now - usedAt[k] > Retention]_vars
=============================================================================
