---------------------------- MODULE EvidenceCache ----------------------------
(***************************************************************************)
(* The retained Zeek evidence of the reference server                      *)
(* (backend/integration/http_reference_server.py): the in-memory table     *)
(* _EVIDENCE_CACHE, the directories under EVIDENCE_CACHE_ROOT, and the     *)
(* operations that register, look up, lease, release and expire evidence.  *)
(*                                                                         *)
(* A step is one critical section of _EVIDENCE_LOCK or one effect outside  *)
(* it: records are popped under the lock and their directories are deleted *)
(* after it is released, so the two are separate steps of a thread.        *)
(***************************************************************************)
EXTENDS Integers, FiniteSets

CONSTANTS Tokens,      \* evidence tokens; a token also names its directory
          Threads,     \* request and worker threads of the server
          Pcaps,       \* identities (filename, SHA-256) of packet captures
          Signatures,  \* possible values of zeek_evidence_signature()
          Stuck,       \* tokens whose directory rmtree fails to remove
          TTL,         \* EVIDENCE_TTL_SECONDS, in ticks
          MaxTime,     \* bound of the model: the clock stops here
          NoToken,     \* "no evidence"
          NoRecord     \* what _EVIDENCE_CACHE.get(token) returns for a miss

EvidenceRecord == [pcap      : Pcaps,
                   sig       : Signatures,
                   createdAt : Nat,
                   leases    : Nat,
                   pending   : BOOLEAN]

ASSUME TTLAssumption       == TTL \in Nat
ASSUME ThreadsAssumption   == IsFiniteSet(Threads)
ASSUME NoTokenAssumption   == NoToken \notin Tokens
ASSUME NoRecordAssumption  == NoRecord \notin EvidenceRecord

VARIABLES
    process,     \* "serving", "exiting" (atexit hooks run) or "down"
    now,         \* time.time()
    signature,   \* the current Zeek runtime and policy
    cache,       \* _EVIDENCE_CACHE
    dirs,        \* the directories present under EVIDENCE_CACHE_ROOT
    issued,      \* directories ever created: uuid4 and mkdtemp never repeat
    madeWith,    \* history: the signature a directory was extracted under
    extracting,  \* the directory a discovery worker fills, not registered
    phase,       \* where a thread is inside an evidence operation
    doomed,      \* popped records whose directories the thread must delete
    lease,       \* the evidence a thread has acquired and not released
    exitDoomed   \* directories the shutdown hook has still to delete

threadVars == <<extracting, phase, doomed, lease>>
evidenceVars == <<process, now, signature, cache, dirs, issued, madeWith,
                  threadVars, exitDoomed>>

Phases == {"idle", "clearing", "cleared", "freeing"}

TypeOK ==
    /\ process \in {"serving", "exiting", "down"}
    /\ now \in Nat
    /\ signature \in Signatures
    /\ cache \in [Tokens -> EvidenceRecord \cup {NoRecord}]
    /\ dirs \in SUBSET Tokens
    /\ issued \in SUBSET Tokens
    /\ madeWith \in [Tokens -> Signatures]
    /\ extracting \in [Threads -> Tokens \cup {NoToken}]
    /\ phase \in [Threads -> Phases]
    /\ doomed \in [Threads -> SUBSET Tokens]
    /\ lease \in [Threads -> Tokens \cup {NoToken}]
    /\ exitDoomed \in SUBSET Tokens

NoThreadState ==
    /\ extracting = [t \in Threads |-> NoToken]
    /\ phase = [t \in Threads |-> "idle"]
    /\ doomed = [t \in Threads |-> {}]
    /\ lease = [t \in Threads |-> NoToken]

EvidenceInit ==
    /\ process = "serving"
    /\ now = 0
    /\ signature \in Signatures
    /\ cache = [k \in Tokens |-> NoRecord]
    /\ dirs = {}
    /\ issued = {}
    /\ madeWith = [k \in Tokens |-> signature]
    /\ NoThreadState
    /\ exitDoomed = {}

-----------------------------------------------------------------------------
(* The table. *)

Cached(k) == cache[k] # NoRecord

Expired(k) == now - cache[k].createdAt > TTL

NewRecord(p) == [pcap |-> p, sig |-> signature, createdAt |-> now,
                 leases |-> 0, pending |-> FALSE]

(* Faults: a sweep that does not look at leases, and one that takes only   *)
(* what an earlier sweep has marked.                                       *)
SweepableIgnoringLeases == {k \in Tokens : Cached(k) /\ Expired(k)}
SweepableWhenMarked ==
    {k \in Tokens : Cached(k) /\ cache[k].pending /\ cache[k].leases = 0}

(* What a sweep takes out of the table, and what it only marks. *)
Sweepable == {k \in Tokens : Cached(k) /\ Expired(k) /\ cache[k].leases = 0}
Overdue   == {k \in Tokens : Cached(k) /\ Expired(k) /\ cache[k].leases > 0}

SweptCache ==
    [k \in Tokens |-> IF k \in Sweepable THEN NoRecord
                      ELSE IF k \in Overdue THEN [cache[k] EXCEPT !.pending = TRUE]
                      ELSE cache[k]]

(* The checks of _acquire_evidence under the lock, the lease excepted. *)
Usable(k, p) == /\ k \in Tokens
                /\ Cached(k)
                /\ ~Expired(k)
                /\ cache[k].pcap = p
                /\ cache[k].sig = signature
                /\ k \in dirs

(* Fault: a lease that does not nest. *)
LeasedOnce(k) == [cache EXCEPT ![k].leases = 1]

Leased(k) == [cache EXCEPT ![k].leases = @ + 1]

(* Fault: a release that does not look at the count. *)
LastReleaseAlways(k) == cache[k].pending \/ Expired(k)

(* The record after a release, and whether that was the last lease of      *)
(* evidence that is due for removal.                                       *)
Unleased(k) == [cache[k] EXCEPT !.leases = IF @ > 0 THEN @ - 1 ELSE 0]
LastRelease(k) == /\ Unleased(k).leases = 0
                  /\ cache[k].pending \/ Expired(k)

(* What is on disk after an rmtree of the directories K: told to ignore    *)
(* errors, it leaves one that it cannot remove and says nothing.           *)
Remaining(K) == dirs \ (K \ Stuck)

-----------------------------------------------------------------------------
(* Operations of a thread. Every one but StartExtraction and Release is    *)
(* preceded by _cleanup_expired_evidence: Sweep, then RemoveSwept.         *)

Running == process \in {"serving", "exiting"}

Enter(t, from, to) == /\ Running
                      /\ phase[t] = from
                      /\ phase' = [phase EXCEPT ![t] = to]

(* mkdtemp at the head of _run_discovery_job; Zeek then fills the          *)
(* directory under the signature in force now.                             *)
StartExtraction(t, k) ==
    /\ Running
    /\ phase[t] = "idle"
    /\ extracting[t] = NoToken
    /\ k \notin issued
    /\ issued' = issued \cup {k}
    /\ dirs' = dirs \cup {k}
    /\ madeWith' = [madeWith EXCEPT ![k] = signature]
    /\ extracting' = [extracting EXCEPT ![t] = k]
    /\ UNCHANGED <<process, now, signature, cache, phase, doomed, lease,
                   exitDoomed>>

(* The finally branch of a discovery that did not register its evidence.   *)
DiscardExtraction(t) ==
    /\ Running
    /\ phase[t] = "idle"
    /\ extracting[t] # NoToken
    /\ dirs' = Remaining({extracting[t]})
    /\ extracting' = [extracting EXCEPT ![t] = NoToken]
    /\ UNCHANGED <<process, now, signature, cache, issued, madeWith, phase,
                   doomed, lease, exitDoomed>>

Sweep(t) ==
    /\ Enter(t, "idle", "clearing")
    /\ cache' = SweptCache
    /\ doomed' = [doomed EXCEPT ![t] = Sweepable]
    /\ UNCHANGED <<process, now, signature, dirs, issued, madeWith,
                   extracting, lease, exitDoomed>>

RemoveSwept(t) ==
    /\ Enter(t, "clearing", "cleared")
    /\ dirs' = Remaining(doomed[t])
    /\ doomed' = [doomed EXCEPT ![t] = {}]
    /\ UNCHANGED <<process, now, signature, cache, issued, madeWith,
                   extracting, lease, exitDoomed>>

(* _register_evidence after its sweep: the record carries the signature    *)
(* and the time of registration, not those of the extraction.              *)
Register(t, p) ==
    /\ Enter(t, "cleared", "idle")
    /\ extracting[t] # NoToken
    /\ cache' = [cache EXCEPT ![extracting[t]] = NewRecord(p)]
    /\ extracting' = [extracting EXCEPT ![t] = NoToken]
    /\ UNCHANGED <<process, now, signature, dirs, issued, madeWith, doomed,
                   lease, exitDoomed>>

(* _evidence_snapshot, or an _acquire_evidence that raises: the sweep is   *)
(* all it leaves behind.                                                   *)
LookUp(t) ==
    /\ Enter(t, "cleared", "idle")
    /\ UNCHANGED <<process, now, signature, cache, dirs, issued, madeWith,
                   extracting, doomed, lease, exitDoomed>>

Acquire(t, k, p) ==
    /\ Enter(t, "cleared", "idle")
    /\ lease[t] = NoToken
    /\ Usable(k, p)
    /\ cache' = Leased(k)
    /\ lease' = [lease EXCEPT ![t] = k]
    /\ UNCHANGED <<process, now, signature, dirs, issued, madeWith,
                   extracting, doomed, exitDoomed>>

(* _release_evidence under the lock. A token that is no longer in the      *)
(* table (the shutdown sweep took it) is ignored.                          *)
Release(t) ==
    /\ Enter(t, "idle", "freeing")
    /\ lease[t] # NoToken
    /\ LET k == lease[t]
           last == Cached(k) /\ LastRelease(k)
       IN /\ cache' = [cache EXCEPT ![k] = IF ~Cached(k) \/ last
                                           THEN NoRecord ELSE Unleased(k)]
          /\ doomed' = [doomed EXCEPT ![t] = IF last THEN {k} ELSE {}]
    /\ lease' = [lease EXCEPT ![t] = NoToken]
    /\ UNCHANGED <<process, now, signature, dirs, issued, madeWith,
                   extracting, exitDoomed>>

RemoveReleased(t) ==
    /\ Enter(t, "freeing", "idle")
    /\ dirs' = Remaining(doomed[t])
    /\ doomed' = [doomed EXCEPT ![t] = {}]
    /\ UNCHANGED <<process, now, signature, cache, issued, madeWith,
                   extracting, lease, exitDoomed>>

-----------------------------------------------------------------------------
(* The process and its environment. *)

Tick == /\ now < MaxTime
        /\ now' = now + 1
        /\ UNCHANGED <<process, signature, cache, dirs, issued, madeWith,
                       threadVars, exitDoomed>>

(* The operator changes the Zeek runtime or the policy file. *)
ChangeRuntime ==
    /\ signature' \in Signatures \ {signature}
    /\ UNCHANGED <<process, now, cache, dirs, issued, madeWith, threadVars,
                   exitDoomed>>

(* The atexit hook: a forced sweep that ignores leases, while the daemon   *)
(* threads still run; the directories go once the lock is released.        *)
Exit == /\ process = "serving"
        /\ process' = "exiting"
        /\ cache' = [k \in Tokens |-> NoRecord]
        /\ exitDoomed' = {k \in Tokens : Cached(k)}
        /\ UNCHANGED <<now, signature, dirs, issued, madeWith, threadVars>>

RemoveAtExit == /\ process = "exiting"
                /\ exitDoomed # {}
                /\ dirs' = Remaining(exitDoomed)
                /\ exitDoomed' = {}
                /\ UNCHANGED <<process, now, signature, cache, issued,
                               madeWith, threadVars>>

(* The process is gone, by exit or crash, and its memory with it. *)
Stop == /\ Running
        /\ process' = "down"
        /\ cache' = [k \in Tokens |-> NoRecord]
        /\ extracting' = [t \in Threads |-> NoToken]
        /\ phase' = [t \in Threads |-> "idle"]
        /\ doomed' = [t \in Threads |-> {}]
        /\ lease' = [t \in Threads |-> NoToken]
        /\ exitDoomed' = {}
        /\ UNCHANGED <<now, signature, dirs, issued, madeWith>>

(* Fault: a restart that leaves the cache root as it is. *)
RestartWithOrphans ==
    /\ process = "down"
    /\ process' = "serving"
    /\ UNCHANGED <<now, signature, cache, dirs, issued, madeWith, threadVars,
                   exitDoomed>>

(* main(): _cleanup_restart_orphans empties the cache root before the      *)
(* server accepts work.                                                    *)
Restart == /\ process = "down"
           /\ process' = "serving"
           /\ dirs' = Remaining(Tokens)
           /\ UNCHANGED <<now, signature, cache, issued, madeWith, threadVars,
                          exitDoomed>>

-----------------------------------------------------------------------------
ThreadStep(t) ==
    \/ \E k \in Tokens : StartExtraction(t, k)
    \/ DiscardExtraction(t)
    \/ Sweep(t)
    \/ RemoveSwept(t)
    \/ \E p \in Pcaps : Register(t, p)
    \/ LookUp(t)
    \/ \E k \in Tokens, p \in Pcaps : Acquire(t, k, p)
    \/ Release(t)
    \/ RemoveReleased(t)

EvidenceNext ==
    \/ \E t \in Threads : ThreadStep(t)
    \/ Tick
    \/ ChangeRuntime
    \/ Exit
    \/ RemoveAtExit
    \/ Stop
    \/ Restart

EvidenceSpec == EvidenceInit /\ [][EvidenceNext]_evidenceVars

(* A thread inside an operation goes on; a thread that holds a lease ends  *)
(* its analysis and releases it (the finally branch); requests that sweep  *)
(* keep arriving.                                                          *)
EvidenceFairness ==
    /\ \A t \in Threads : /\ WF_evidenceVars(RemoveSwept(t))
                          /\ WF_evidenceVars(LookUp(t))
                          /\ WF_evidenceVars(RemoveReleased(t))
                          /\ SF_evidenceVars(Release(t))
                          /\ SF_evidenceVars(Sweep(t))
    /\ WF_evidenceVars(Tick)

FairEvidenceSpec == EvidenceSpec /\ EvidenceFairness
-----------------------------------------------------------------------------
Readers(k) == {t \in Threads : lease[t] = k}

(* An analysis that holds a lease never loses its evidence: while the      *)
(* server serves, neither expiry, nor another release, nor a concurrent    *)
(* sweep removes the directory or the record it reads.                     *)
LeasedEvidenceStays ==
    process = "serving" =>
        \A t \in Threads : lease[t] # NoToken =>
            lease[t] \in dirs /\ Cached(lease[t])

(* The lease counter of a record is the number of threads that hold it:    *)
(* an acquire or a release that was lost, or done twice, breaks it.        *)
LeaseCountExact ==
    \A k \in Tokens : Cached(k) => cache[k].leases = Cardinality(Readers(k))

(* Evidence marked for removal after its last lease still has a lease:     *)
(* the release that was the last one did not leave it behind.              *)
PendingIsLeased ==
    \A k \in Tokens : Cached(k) /\ cache[k].pending => cache[k].leases > 0

(* While the server serves, every directory of the cache root is in the    *)
(* table, being filled, or about to be deleted by some thread, unless an   *)
(* rmtree failed on it: none is left that nothing has ever tried to        *)
(* remove, across expiry, release and restart.                             *)
NoLostDirectory ==
    process = "serving" =>
        \A k \in dirs \ Stuck :
            \/ Cached(k)
            \/ \E t \in Threads : extracting[t] = k \/ k \in doomed[t]

(* The parts of the inductive invariant that are not properties of their   *)
(* own.                                                                    *)
CachedOnDisk == \A k \in Tokens : Cached(k) => k \in dirs

LeasesKept ==
    process = "serving" => \A t \in Threads : lease[t] # NoToken => Cached(lease[t])

(* A token that uuid4 has not produced yet occurs nowhere. *)
UnissuedUnknown ==
    \A k \in Tokens \ issued :
        /\ ~Cached(k)
        /\ k \notin exitDoomed
        /\ \A t \in Threads : /\ extracting[t] # k
                              /\ lease[t] # k
                              /\ k \notin doomed[t]

(* A directory about to be deleted is in nobody's hands. *)
IsDoomed(k) == k \in exitDoomed \/ \E t \in Threads : k \in doomed[t]

DoomedUnreachable ==
    \A k \in Tokens : IsDoomed(k) =>
        ~Cached(k) /\ \A t \in Threads : extracting[t] # k

(* A directory being filled belongs to its worker alone. *)
ExtractionPrivate ==
    \A t \in Threads : extracting[t] # NoToken =>
        /\ extracting[t] \in dirs
        /\ ~Cached(extracting[t])
        /\ \A u \in Threads : /\ lease[u] # extracting[t]
                              /\ u # t => extracting[u] # extracting[t]

DoomedOnlyInside ==
    /\ \A t \in Threads : phase[t] \in {"idle", "cleared"} => doomed[t] = {}
    /\ process # "exiting" => exitDoomed = {}

DownIsEmpty ==
    process = "down" => /\ NoThreadState
                        /\ \A k \in Tokens : ~Cached(k)

EvidenceInv ==
    /\ TypeOK
    /\ LeaseCountExact
    /\ PendingIsLeased
    /\ NoLostDirectory
    /\ CachedOnDisk
    /\ LeasesKept
    /\ UnissuedUnknown
    /\ DoomedUnreachable
    /\ ExtractionPrivate
    /\ DoomedOnlyInside
    /\ DownIsEmpty

(* Evidence that has expired is eventually deleted, leased or not, as long *)
(* as readers finish and some request sweeps the table; if its directory   *)
(* cannot be removed, it is at least out of the table.                     *)
ExpiredIsRemoved ==
    \A k \in Tokens :
        (process = "serving" /\ Cached(k) /\ Expired(k))
            ~> (\/ k \notin dirs
                \/ k \in Stuck /\ ~Cached(k)
                \/ process # "serving")

(* A lease is granted on evidence that was extracted by the runtime and    *)
(* policy now in force.                                                    *)
LeaseMatchesExtraction ==
    [][\A t \in Threads : lease'[t] # lease[t] /\ lease'[t] # NoToken
            => madeWith[lease'[t]] = signature]_evidenceVars

(* What the readers are promised: a lease is a read of EvidenceLease until *)
(* the process begins to exit.                                             *)
Reading == [t \in Threads |-> IF process = "serving" THEN lease[t] ELSE NoToken]

Promise == INSTANCE EvidenceLease WITH shelf <- dirs, reading <- Reading

LeaseProtocol == Promise!Spec
=============================================================================
