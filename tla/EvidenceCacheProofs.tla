-------------------------- MODULE EvidenceCacheProofs --------------------------
(***************************************************************************)
(* Proofs about EvidenceCache, for any number of tokens and threads, any   *)
(* expiry time and any clock bound.                                        *)
(***************************************************************************)
EXTENDS EvidenceCache, FiniteSetTheorems, TLAPS

(* Every variable keeps its type, whatever operation runs: in particular a *)
(* lease counter never becomes negative (http_reference_server.py          *)
(* _release_evidence clamps it) and a popped slot holds no half record.    *)
LEMMA TypeStep == TypeOK /\ [EvidenceNext]_evidenceVars => TypeOK'
<1> SUFFICES ASSUME TypeOK, [EvidenceNext]_evidenceVars PROVE TypeOK'
  OBVIOUS
<1> USE DEF TypeOK, Phases, Remaining, Enter, threadVars
<1>1. ASSUME NEW t \in Threads, NEW k \in Tokens, StartExtraction(t, k)
      PROVE  TypeOK'
  BY <1>1 DEF StartExtraction
<1>2. ASSUME NEW t \in Threads, DiscardExtraction(t) PROVE TypeOK'
  BY <1>2 DEF DiscardExtraction
<1>3. ASSUME NEW t \in Threads, Sweep(t) PROVE TypeOK'
  <2>1. SweptCache \in [Tokens -> EvidenceRecord \cup {NoRecord}]
    BY DEF SweptCache, EvidenceRecord, Sweepable, Overdue, Cached
  <2>2. Sweepable \in SUBSET Tokens
    BY DEF Sweepable
  <2> QED
    BY <1>3, <2>1, <2>2 DEF Sweep
<1>4. ASSUME NEW t \in Threads, RemoveSwept(t) PROVE TypeOK'
  BY <1>4 DEF RemoveSwept
<1>5. ASSUME NEW t \in Threads, NEW p \in Pcaps, Register(t, p) PROVE TypeOK'
  <2>1. NewRecord(p) \in EvidenceRecord
    BY DEF NewRecord, EvidenceRecord
  <2> QED
    BY <1>5, <2>1 DEF Register
<1>6. ASSUME NEW t \in Threads, LookUp(t) PROVE TypeOK'
  BY <1>6 DEF LookUp
<1>7. ASSUME NEW t \in Threads, NEW k \in Tokens, NEW p \in Pcaps,
             Acquire(t, k, p)
      PROVE  TypeOK'
  <2>1. cache[k] \in EvidenceRecord
    BY <1>7 DEF Acquire, Usable, Cached
  <2>2. [cache[k] EXCEPT !.leases = @ + 1] \in EvidenceRecord
    BY <2>1 DEF EvidenceRecord
  <2>3. cache' \in [Tokens -> EvidenceRecord \cup {NoRecord}]
    BY <1>7, <2>2 DEF Acquire, Leased
  <2> QED
    BY <1>7, <2>3 DEF Acquire
<1>8. ASSUME NEW t \in Threads, Release(t) PROVE TypeOK'
  <2> DEFINE k == lease[t]
  <2>1. k \in Tokens
    BY <1>8 DEF Release
  <2>2. Cached(k) => Unleased(k) \in EvidenceRecord
    BY <2>1 DEF Unleased, Cached, EvidenceRecord
  <2>3. cache' \in [Tokens -> EvidenceRecord \cup {NoRecord}]
    BY <1>8, <2>1, <2>2 DEF Release
  <2> QED
    BY <1>8, <2>1, <2>3 DEF Release
<1>9. ASSUME NEW t \in Threads, RemoveReleased(t) PROVE TypeOK'
  BY <1>9 DEF RemoveReleased
<1>10. CASE Tick
  BY <1>10 DEF Tick
<1>11. CASE ChangeRuntime
  BY <1>11 DEF ChangeRuntime
<1>12. CASE Exit
  BY <1>12 DEF Exit
<1>13. CASE RemoveAtExit
  BY <1>13 DEF RemoveAtExit
<1>14. CASE Stop
  BY <1>14 DEF Stop
<1>15. CASE Restart
  BY <1>15 DEF Restart
<1>16. CASE UNCHANGED evidenceVars
  BY <1>16 DEF evidenceVars
<1> QED
  BY <1>1, <1>2, <1>3, <1>4, <1>5, <1>6, <1>7, <1>8, <1>9, <1>10, <1>11,
     <1>12, <1>13, <1>14, <1>15, <1>16 DEF EvidenceNext, ThreadStep

THEOREM TypeCorrect == EvidenceSpec => []TypeOK
<1>1. EvidenceInit => TypeOK
  BY DEF EvidenceInit, NoThreadState, TypeOK, Phases
<1> QED
  BY <1>1, TypeStep, PTL DEF EvidenceSpec

-----------------------------------------------------------------------------
(* The sets of readers are finite, so counting them makes sense, and a     *)
(* reader that exists is counted.                                          *)
LEMMA ReadersFinite ==
    ASSUME NEW k
    PROVE  /\ IsFiniteSet(Readers(k))
           /\ Cardinality(Readers(k)) \in Nat
           /\ Cardinality(Readers(k)) = 0 <=> Readers(k) = {}
<1>1. Readers(k) \in SUBSET Threads
  BY DEF Readers
<1>2. IsFiniteSet(Readers(k))
  BY <1>1, FS_Subset, ThreadsAssumption
<1> QED
  BY <1>2, FS_CardinalityType, FS_EmptySet

(* Taking a lease adds one reader to one token. *)
LEMMA AcquireReaders ==
    ASSUME TypeOK, NEW t \in Threads, NEW k \in Tokens, lease[t] = NoToken,
           lease' = [lease EXCEPT ![t] = k], NEW j \in Tokens
    PROVE  Cardinality(Readers(j)') =
             IF j = k THEN Cardinality(Readers(j)) + 1 ELSE Cardinality(Readers(j))
<1>1. CASE j = k
  <2>1. Readers(j)' = Readers(j) \cup {t} /\ t \notin Readers(j)
    BY <1>1, NoTokenAssumption DEF Readers, TypeOK
  <2> QED
    BY <1>1, <2>1, ReadersFinite, FS_AddElement
<1>2. CASE j # k
  <2>1. Readers(j)' = Readers(j)
    BY <1>2, NoTokenAssumption DEF Readers, TypeOK
  <2> QED
    BY <1>2, <2>1
<1> QED
  BY <1>1, <1>2

(* Returning a lease takes one reader from one token. *)
LEMMA ReleaseReaders ==
    ASSUME TypeOK, NEW t \in Threads, lease[t] # NoToken,
           lease' = [lease EXCEPT ![t] = NoToken], NEW j \in Tokens
    PROVE  Cardinality(Readers(j)') =
             IF j = lease[t] THEN Cardinality(Readers(j)) - 1
                             ELSE Cardinality(Readers(j))
<1>1. CASE j = lease[t]
  <2>1. Readers(j)' = Readers(j) \ {t} /\ t \in Readers(j)
    BY <1>1, NoTokenAssumption DEF Readers, TypeOK
  <2> QED
    BY <1>1, <2>1, ReadersFinite, FS_RemoveElement
<1>2. CASE j # lease[t]
  <2>1. Readers(j)' = Readers(j)
    BY <1>2, NoTokenAssumption DEF Readers, TypeOK
  <2> QED
    BY <1>2, <2>1
<1> QED
  BY <1>1, <1>2

(* A leased token has a positive counter: no sweep may take it. *)
LEMMA LeasedIsCounted ==
    ASSUME TypeOK, LeaseCountExact, NEW t \in Threads, lease[t] # NoToken,
           Cached(lease[t])
    PROVE  cache[lease[t]].leases > 0
<1>1. t \in Readers(lease[t])
  BY DEF Readers
<1>2. Cardinality(Readers(lease[t])) \in Nat \ {0}
  BY <1>1, ReadersFinite
<1>3. lease[t] \in Tokens
  BY DEF TypeOK
<1> QED
  BY <1>2, <1>3 DEF LeaseCountExact

-----------------------------------------------------------------------------
(* A new directory has a token that occurs nowhere else.                    *)
LEMMA StartExtractionKeeps ==
    ASSUME EvidenceInv, TypeOK', NEW t \in Threads, NEW k \in Tokens,
           StartExtraction(t, k)
    PROVE  EvidenceInv'
<1> USE DEF EvidenceInv, TypeOK, Remaining, Enter, Running, threadVars
<1>1. LeaseCountExact'
  BY DEF StartExtraction, LeaseCountExact, Cached, Readers
<1>2. PendingIsLeased'
  BY DEF StartExtraction, PendingIsLeased, Cached
<1>3. NoLostDirectory'
  BY NoTokenAssumption DEF StartExtraction, NoLostDirectory, Cached
<1>4. CachedOnDisk'
  BY DEF StartExtraction, CachedOnDisk, Cached
<1>5. LeasesKept'
  BY DEF StartExtraction, LeasesKept, Cached
<1>6. UnissuedUnknown'
  BY DEF StartExtraction, UnissuedUnknown, Cached
<1>7. DoomedUnreachable'
  BY DEF StartExtraction, DoomedUnreachable, UnissuedUnknown, IsDoomed, Cached
<1>8. ExtractionPrivate'
  BY NoTokenAssumption
  DEF StartExtraction, ExtractionPrivate, UnissuedUnknown, Cached
<1>9. DoomedOnlyInside'
  BY DEF StartExtraction, DoomedOnlyInside
<1>10. DownIsEmpty'
  BY DEF StartExtraction, DownIsEmpty, Cached, NoThreadState
<1> QED
  BY <1>1, <1>2, <1>3, <1>4, <1>5, <1>6, <1>7, <1>8, <1>9, <1>10

(* Only the worker that fills a directory discards it.                      *)
LEMMA DiscardExtractionKeeps ==
    ASSUME EvidenceInv, TypeOK', NEW t \in Threads, DiscardExtraction(t)
    PROVE  EvidenceInv'
<1> USE DEF EvidenceInv, TypeOK, Remaining, Enter, Running, threadVars
<1>1. LeaseCountExact'
  BY DEF DiscardExtraction, LeaseCountExact, Cached, Readers
<1>2. PendingIsLeased'
  BY DEF DiscardExtraction, PendingIsLeased, Cached
<1>3. NoLostDirectory'
  BY DEF DiscardExtraction, NoLostDirectory, Cached
<1>4. CachedOnDisk'
  BY DEF DiscardExtraction, CachedOnDisk, ExtractionPrivate, Cached
<1>5. LeasesKept'
  BY DEF DiscardExtraction, LeasesKept, Cached
<1>6. UnissuedUnknown'
  BY NoTokenAssumption DEF DiscardExtraction, UnissuedUnknown, Cached
<1>7. DoomedUnreachable'
  BY NoTokenAssumption DEF DiscardExtraction, DoomedUnreachable, Cached, IsDoomed
<1>8. ExtractionPrivate'
  BY DEF DiscardExtraction, ExtractionPrivate, Cached
<1>9. DoomedOnlyInside'
  BY DEF DiscardExtraction, DoomedOnlyInside
<1>10. DownIsEmpty'
  BY DEF DiscardExtraction, DownIsEmpty, Cached, NoThreadState
<1> QED
  BY <1>1, <1>2, <1>3, <1>4, <1>5, <1>6, <1>7, <1>8, <1>9, <1>10

(* A sweep pops only records without leases, and only marks the others.     *)
LEMMA SweepKeeps ==
    ASSUME EvidenceInv, TypeOK', NEW t \in Threads, Sweep(t)
    PROVE  EvidenceInv'
<1> USE DEF EvidenceInv, TypeOK, Remaining, Enter, Running, threadVars
<1>a. \A k \in Tokens :
         /\ Cached(k)' <=> Cached(k) /\ k \notin Sweepable
         /\ Cached(k)' => /\ cache'[k].leases = cache[k].leases
                          /\ cache'[k].pending => cache[k].pending \/ cache[k].leases > 0
  <2> SUFFICES ASSUME NEW k \in Tokens
               PROVE  /\ Cached(k)' <=> Cached(k) /\ k \notin Sweepable
                      /\ Cached(k)' =>
                           /\ cache'[k].leases = cache[k].leases
                           /\ cache'[k].pending => cache[k].pending \/ cache[k].leases > 0
    OBVIOUS
  <2>1. CASE k \in Sweepable
    BY <2>1 DEF Sweep, SweptCache, Cached
  <2>2. CASE k \in Overdue
    <3>1. Cached(k) /\ cache[k] \in EvidenceRecord /\ cache[k].leases > 0
      BY <2>2 DEF Overdue, Cached
    <3>2. cache'[k] = [cache[k] EXCEPT !.pending = TRUE] /\ k \notin Sweepable
      BY <2>2 DEF Sweep, SweptCache, Overdue, Sweepable
    <3>3. cache'[k] \in EvidenceRecord /\ cache'[k].leases = cache[k].leases
      BY <3>1, <3>2 DEF EvidenceRecord
    <3> QED
      BY <3>1, <3>2, <3>3, NoRecordAssumption DEF Cached
  <2>3. CASE k \notin Sweepable /\ k \notin Overdue
    BY <2>3 DEF Sweep, SweptCache, Cached
  <2> QED
    BY <2>1, <2>2, <2>3
<1>b. /\ doomed' = [doomed EXCEPT ![t] = Sweepable]
      /\ doomed[t] = {}
      /\ UNCHANGED <<process, dirs, issued, extracting, lease, exitDoomed>>
  BY DEF Sweep, DoomedOnlyInside
<1>c. \A k \in Sweepable : k \in Tokens /\ Cached(k) /\ cache[k].leases = 0
  BY DEF Sweepable
<1>1. LeaseCountExact'
  BY <1>a, <1>b DEF LeaseCountExact, Readers
<1>2. PendingIsLeased'
  BY <1>a DEF PendingIsLeased
<1>3. NoLostDirectory'
  BY <1>a, <1>b, <1>c DEF NoLostDirectory
<1>4. CachedOnDisk'
  BY <1>a, <1>b DEF CachedOnDisk
<1>5. LeasesKept'
  <2> SUFFICES ASSUME process = "serving", NEW u \in Threads, lease[u] # NoToken
               PROVE  Cached(lease[u])'
    BY <1>b DEF LeasesKept, Cached
  <2>1. lease[u] \in Tokens /\ Cached(lease[u])
    BY DEF LeasesKept
  <2>2. cache[lease[u]].leases > 0
    BY <2>1, LeasedIsCounted
  <2> QED
    BY <1>a, <1>b, <1>c, <2>1, <2>2 DEF Cached
<1>6. UnissuedUnknown'
  BY <1>a, <1>b, <1>c DEF UnissuedUnknown
<1>7. DoomedUnreachable'
  BY <1>a, <1>b, <1>c, NoTokenAssumption
  DEF DoomedUnreachable, IsDoomed, ExtractionPrivate
<1>8. ExtractionPrivate'
  BY <1>a, <1>b DEF ExtractionPrivate
<1>9. DoomedOnlyInside'
  BY DEF Sweep, DoomedOnlyInside
<1>10. DownIsEmpty'
  BY DEF Sweep, DownIsEmpty, Cached, NoThreadState
<1> QED
  BY <1>1, <1>2, <1>3, <1>4, <1>5, <1>6, <1>7, <1>8, <1>9, <1>10

(* What a sweep popped is out of every other thread's reach.                *)
LEMMA RemoveSweptKeeps ==
    ASSUME EvidenceInv, TypeOK', NEW t \in Threads, RemoveSwept(t)
    PROVE  EvidenceInv'
<1> USE DEF EvidenceInv, TypeOK, Remaining, Enter, Running, threadVars
<1>1. LeaseCountExact'
  BY DEF RemoveSwept, LeaseCountExact, Cached, Readers
<1>2. PendingIsLeased'
  BY DEF RemoveSwept, PendingIsLeased, Cached
<1>3. NoLostDirectory'
  BY DEF RemoveSwept, NoLostDirectory, Cached
<1>4. CachedOnDisk'
  BY DEF RemoveSwept, CachedOnDisk, DoomedUnreachable, IsDoomed, Cached
<1>5. LeasesKept'
  BY DEF RemoveSwept, LeasesKept, Cached
<1>6. UnissuedUnknown'
  BY DEF RemoveSwept, UnissuedUnknown, Cached
<1>7. DoomedUnreachable'
  BY DEF RemoveSwept, DoomedUnreachable, Cached, IsDoomed
<1>8. ExtractionPrivate'
  BY NoTokenAssumption
  DEF RemoveSwept, ExtractionPrivate, DoomedUnreachable, IsDoomed, Cached
<1>9. DoomedOnlyInside'
  BY DEF RemoveSwept, DoomedOnlyInside
<1>10. DownIsEmpty'
  BY DEF RemoveSwept, DownIsEmpty, Cached, NoThreadState
<1> QED
  BY <1>1, <1>2, <1>3, <1>4, <1>5, <1>6, <1>7, <1>8, <1>9, <1>10

(* The registered directory was in nobody's hands and gets no lease.        *)
LEMMA RegisterKeeps ==
    ASSUME EvidenceInv, TypeOK', NEW t \in Threads, NEW p \in Pcaps, Register(t, p)
    PROVE  EvidenceInv'
<1> USE DEF EvidenceInv, TypeOK, Remaining, Enter, Running, threadVars
<1> PICK k \in Tokens : k = extracting[t]
  BY DEF Register
<1>a. k \in Tokens /\ k \in dirs /\ ~Cached(k) /\ Readers(k) = {}
  BY DEF Register, ExtractionPrivate, Readers
<1>b. NewRecord(p) # NoRecord /\ NewRecord(p).leases = 0 /\ ~NewRecord(p).pending
  <2>1. NewRecord(p) \in EvidenceRecord
    BY DEF NewRecord, EvidenceRecord
  <2> QED
    BY <2>1, NoRecordAssumption DEF NewRecord
<1>c. /\ cache' = [cache EXCEPT ![k] = NewRecord(p)]
      /\ extracting' = [extracting EXCEPT ![t] = NoToken]
      /\ UNCHANGED <<process, dirs, issued, doomed, lease, exitDoomed>>
  BY DEF Register
<1>d. \A j \in Tokens : /\ Cached(j)' <=> (Cached(j) \/ j = k)
                        /\ j # k => cache'[j] = cache[j]
  BY <1>b, <1>c DEF Cached
<1>1. LeaseCountExact'
  <2>1. Cardinality(Readers(k)) = 0
    BY <1>a, FS_EmptySet
  <2>2. cache'[k].leases = 0
    BY <1>a, <1>b, <1>c
  <2> QED
    BY <1>a, <1>c, <1>d, <2>1, <2>2 DEF LeaseCountExact, Readers
<1>2. PendingIsLeased'
  <2>1. ~cache'[k].pending
    BY <1>a, <1>b, <1>c
  <2> QED
    BY <1>d, <2>1 DEF PendingIsLeased
<1>3. NoLostDirectory'
  BY <1>a, <1>c, <1>d DEF NoLostDirectory
<1>4. CachedOnDisk'
  BY <1>a, <1>c, <1>d DEF CachedOnDisk
<1>5. LeasesKept'
  BY <1>c, <1>d DEF LeasesKept
<1>6. UnissuedUnknown'
  BY NoTokenAssumption DEF Register, UnissuedUnknown, Cached
<1>7. DoomedUnreachable'
  BY NoTokenAssumption DEF Register, DoomedUnreachable, Cached, IsDoomed
<1>8. ExtractionPrivate'
  BY DEF Register, ExtractionPrivate, Cached
<1>9. DoomedOnlyInside'
  BY DEF Register, DoomedOnlyInside
<1>10. DownIsEmpty'
  BY DEF Register, DownIsEmpty, Cached, NoThreadState
<1> QED
  BY <1>1, <1>2, <1>3, <1>4, <1>5, <1>6, <1>7, <1>8, <1>9, <1>10

(* A lookup changes nothing but the place of its thread.                    *)
LEMMA LookUpKeeps ==
    ASSUME EvidenceInv, TypeOK', NEW t \in Threads, LookUp(t)
    PROVE  EvidenceInv'
<1> USE DEF EvidenceInv, TypeOK, Remaining, Enter, Running, threadVars
<1>1. LeaseCountExact'
  BY DEF LookUp, LeaseCountExact, Cached, Readers
<1>2. PendingIsLeased'
  BY DEF LookUp, PendingIsLeased, Cached
<1>3. NoLostDirectory'
  BY DEF LookUp, NoLostDirectory, Cached
<1>4. CachedOnDisk'
  BY DEF LookUp, CachedOnDisk, Cached
<1>5. LeasesKept'
  BY DEF LookUp, LeasesKept, Cached
<1>6. UnissuedUnknown'
  BY DEF LookUp, UnissuedUnknown, Cached
<1>7. DoomedUnreachable'
  BY DEF LookUp, DoomedUnreachable, Cached, IsDoomed
<1>8. ExtractionPrivate'
  BY DEF LookUp, ExtractionPrivate, Cached
<1>9. DoomedOnlyInside'
  BY DEF LookUp, DoomedOnlyInside
<1>10. DownIsEmpty'
  BY DEF LookUp, DownIsEmpty, Cached, NoThreadState
<1> QED
  BY <1>1, <1>2, <1>3, <1>4, <1>5, <1>6, <1>7, <1>8, <1>9, <1>10

(* A new lease is counted once, on a record that stays in the table.        *)
LEMMA AcquireKeeps ==
    ASSUME EvidenceInv, TypeOK', NEW t \in Threads, NEW k \in Tokens, NEW p \in Pcaps,
           Acquire(t, k, p)
    PROVE  EvidenceInv'
<1> USE DEF EvidenceInv, TypeOK, Remaining, Enter, Running, threadVars
<1>a. Cached(k) /\ cache[k] \in EvidenceRecord /\ lease[t] = NoToken
  BY DEF Acquire, Usable, Cached
<1>b. /\ cache' = [cache EXCEPT ![k] = [cache[k] EXCEPT !.leases = @ + 1]]
      /\ lease' = [lease EXCEPT ![t] = k]
      /\ UNCHANGED <<process, dirs, issued, extracting, doomed, exitDoomed>>
  BY DEF Acquire, Leased
<1>c. /\ cache'[k] \in EvidenceRecord
      /\ cache'[k].leases = cache[k].leases + 1
  BY <1>a, <1>b DEF EvidenceRecord
<1>d. \A j \in Tokens : /\ Cached(j)' <=> Cached(j)
                        /\ j # k => cache'[j] = cache[j]
  BY <1>a, <1>b, <1>c, NoRecordAssumption DEF Cached
<1>1. LeaseCountExact'
  <2>1. \A j \in Tokens : Cardinality(Readers(j)') =
             IF j = k THEN Cardinality(Readers(j)) + 1 ELSE Cardinality(Readers(j))
    BY <1>a, <1>b, AcquireReaders
  <2> QED
    BY <1>a, <1>c, <1>d, <2>1 DEF LeaseCountExact
<1>2. PendingIsLeased'
  <2>1. cache'[k].leases > 0
    BY <1>a, <1>c DEF EvidenceRecord
  <2> QED
    BY <1>d, <2>1 DEF PendingIsLeased
<1>3. NoLostDirectory'
  BY <1>b, <1>d DEF NoLostDirectory
<1>4. CachedOnDisk'
  BY <1>b, <1>d DEF CachedOnDisk
<1>5. LeasesKept'
  BY <1>a, <1>b, <1>d DEF LeasesKept
<1>6. UnissuedUnknown'
  BY <1>a, <1>b, <1>d DEF UnissuedUnknown
<1>7. DoomedUnreachable'
  BY <1>b, <1>d DEF DoomedUnreachable, IsDoomed
<1>8. ExtractionPrivate'
  BY <1>a, <1>b, <1>d DEF ExtractionPrivate
<1>9. DoomedOnlyInside'
  BY DEF Acquire, DoomedOnlyInside
<1>10. DownIsEmpty'
  BY DEF Acquire, DownIsEmpty, Cached, NoThreadState
<1> QED
  BY <1>1, <1>2, <1>3, <1>4, <1>5, <1>6, <1>7, <1>8, <1>9, <1>10

(* A release is counted once; it pops a record only as the last one.        *)
LEMMA ReleaseKeeps ==
    ASSUME EvidenceInv, TypeOK', NEW t \in Threads, Release(t)
    PROVE  EvidenceInv'
<1> USE DEF EvidenceInv, TypeOK, Remaining, Enter, Running, threadVars
<1> PICK k \in Tokens : k = lease[t]
  BY DEF Release
<1> DEFINE last == Cached(k) /\ LastRelease(k)
<1>a. /\ k = lease[t]
      /\ k # NoToken
      /\ cache' = [cache EXCEPT ![k] = IF ~Cached(k) \/ last
                                       THEN NoRecord ELSE Unleased(k)]
      /\ doomed' = [doomed EXCEPT ![t] = IF last THEN {k} ELSE {}]
      /\ doomed[t] = {}
      /\ lease' = [lease EXCEPT ![t] = NoToken]
      /\ UNCHANGED <<process, dirs, issued, extracting, exitDoomed>>
  BY DEF Release, DoomedOnlyInside
<1>b. Cached(k) => /\ cache[k] \in EvidenceRecord
                   /\ Unleased(k) \in EvidenceRecord
                   /\ Unleased(k).leases = cache[k].leases - 1
                   /\ Unleased(k).pending = cache[k].pending
  <2> SUFFICES ASSUME Cached(k)
               PROVE  /\ cache[k] \in EvidenceRecord
                      /\ Unleased(k) \in EvidenceRecord
                      /\ Unleased(k).leases = cache[k].leases - 1
                      /\ Unleased(k).pending = cache[k].pending
    OBVIOUS
  <2>1. cache[k].leases > 0
    BY <1>a, LeasedIsCounted
  <2>2. cache[k] \in EvidenceRecord
    BY <1>a DEF Cached
  <2> QED
    BY <2>1, <2>2 DEF Unleased, EvidenceRecord
<1>c. \A j \in Tokens : /\ j # k => cache'[j] = cache[j]
                        /\ j # k => (Cached(j)' <=> Cached(j))
  BY <1>a DEF Cached
<1>d. /\ Cached(k)' <=> Cached(k) /\ ~last
      /\ Cached(k)' => cache'[k] = Unleased(k)
  BY <1>a, <1>b, NoRecordAssumption DEF Cached
<1>1. LeaseCountExact'
  <2>1. \A j \in Tokens : Cardinality(Readers(j)') =
             IF j = k THEN Cardinality(Readers(j)) - 1 ELSE Cardinality(Readers(j))
    BY <1>a, ReleaseReaders
  <2> QED
    BY <1>b, <1>c, <1>d, <2>1 DEF LeaseCountExact
<1>2. PendingIsLeased'
  <2>1. ASSUME Cached(k)', cache'[k].pending PROVE cache'[k].leases > 0
    <3>1. Unleased(k).leases # 0
      BY <1>b, <1>d, <2>1 DEF LastRelease
    <3> QED
      BY <1>b, <1>d, <2>1, <3>1 DEF EvidenceRecord
  <2> QED
    BY <1>c, <2>1 DEF PendingIsLeased
<1>3. NoLostDirectory'
  BY <1>a, <1>c, <1>d DEF NoLostDirectory, CachedOnDisk, LeasesKept
<1>4. CachedOnDisk'
  BY DEF Release, CachedOnDisk, Cached
<1>5. LeasesKept'
  <2> SUFFICES ASSUME process = "serving", NEW u \in Threads, u # t,
                      lease[u] # NoToken
               PROVE  Cached(lease[u])'
    BY <1>a DEF LeasesKept
  <2>1. lease[u] \in Tokens /\ Cached(lease[u])
    BY DEF LeasesKept
  <2>2. CASE lease[u] # k
    BY <1>a, <1>c, <2>1, <2>2 DEF Cached
  <2>3. CASE lease[u] = k
    <3>1. Cardinality(Readers(k)') = cache[k].leases - 1
      BY <1>a, <2>1, <2>3, ReleaseReaders DEF LeaseCountExact
    <3>2. u \in Readers(k)' /\ IsFiniteSet(Readers(k)')
      <4>1. Readers(k)' \in SUBSET Threads
        BY DEF Readers
      <4>2. lease'[u] = k
        BY <1>a, <2>3
      <4> QED
        BY <4>1, <4>2, FS_Subset, ThreadsAssumption DEF Readers
    <3>3. Cardinality(Readers(k)') # 0
      BY <3>2, FS_EmptySet
    <3> QED
      BY <1>a, <1>b, <1>d, <2>1, <2>3, <3>1, <3>3 DEF LastRelease, Cached
  <2> QED
    BY <2>2, <2>3
<1>6. UnissuedUnknown'
  BY NoTokenAssumption DEF Release, UnissuedUnknown, Cached
<1>7. DoomedUnreachable'
  BY <1>a, <1>c, <1>d DEF DoomedUnreachable, IsDoomed, ExtractionPrivate
<1>8. ExtractionPrivate'
  BY DEF Release, ExtractionPrivate, Cached
<1>9. DoomedOnlyInside'
  BY DEF Release, DoomedOnlyInside
<1>10. DownIsEmpty'
  BY DEF Release, DownIsEmpty, Cached, NoThreadState
<1> QED
  BY <1>1, <1>2, <1>3, <1>4, <1>5, <1>6, <1>7, <1>8, <1>9, <1>10

(* What the last release popped is out of reach as well.                    *)
LEMMA RemoveReleasedKeeps ==
    ASSUME EvidenceInv, TypeOK', NEW t \in Threads, RemoveReleased(t)
    PROVE  EvidenceInv'
<1> USE DEF EvidenceInv, TypeOK, Remaining, Enter, Running, threadVars
<1>1. LeaseCountExact'
  BY DEF RemoveReleased, LeaseCountExact, Cached, Readers
<1>2. PendingIsLeased'
  BY DEF RemoveReleased, PendingIsLeased, Cached
<1>3. NoLostDirectory'
  BY DEF RemoveReleased, NoLostDirectory, Cached
<1>4. CachedOnDisk'
  BY DEF RemoveReleased, CachedOnDisk, DoomedUnreachable, IsDoomed, Cached
<1>5. LeasesKept'
  BY DEF RemoveReleased, LeasesKept, Cached
<1>6. UnissuedUnknown'
  BY DEF RemoveReleased, UnissuedUnknown, Cached
<1>7. DoomedUnreachable'
  BY DEF RemoveReleased, DoomedUnreachable, Cached, IsDoomed
<1>8. ExtractionPrivate'
  BY NoTokenAssumption
  DEF RemoveReleased, ExtractionPrivate, DoomedUnreachable, IsDoomed, Cached
<1>9. DoomedOnlyInside'
  BY DEF RemoveReleased, DoomedOnlyInside
<1>10. DownIsEmpty'
  BY DEF RemoveReleased, DownIsEmpty, Cached, NoThreadState
<1> QED
  BY <1>1, <1>2, <1>3, <1>4, <1>5, <1>6, <1>7, <1>8, <1>9, <1>10

(* Time alone changes no record.                                            *)
LEMMA TickKeeps ==
    ASSUME EvidenceInv, TypeOK', Tick
    PROVE  EvidenceInv'
<1> USE DEF EvidenceInv, TypeOK, Remaining, Enter, Running, threadVars
<1>1. LeaseCountExact'
  BY DEF Tick, LeaseCountExact, Cached, Readers
<1>2. PendingIsLeased'
  BY DEF Tick, PendingIsLeased, Cached
<1>3. NoLostDirectory'
  BY DEF Tick, NoLostDirectory, Cached
<1>4. CachedOnDisk'
  BY DEF Tick, CachedOnDisk, Cached
<1>5. LeasesKept'
  BY DEF Tick, LeasesKept, Cached
<1>6. UnissuedUnknown'
  BY DEF Tick, UnissuedUnknown, Cached
<1>7. DoomedUnreachable'
  BY DEF Tick, DoomedUnreachable, Cached, IsDoomed
<1>8. ExtractionPrivate'
  BY DEF Tick, ExtractionPrivate, Cached
<1>9. DoomedOnlyInside'
  BY DEF Tick, DoomedOnlyInside
<1>10. DownIsEmpty'
  BY DEF Tick, DownIsEmpty, Cached, NoThreadState
<1> QED
  BY <1>1, <1>2, <1>3, <1>4, <1>5, <1>6, <1>7, <1>8, <1>9, <1>10

(* Nor does a new Zeek runtime.                                             *)
LEMMA ChangeRuntimeKeeps ==
    ASSUME EvidenceInv, TypeOK', ChangeRuntime
    PROVE  EvidenceInv'
<1> USE DEF EvidenceInv, TypeOK, Remaining, Enter, Running, threadVars
<1>1. LeaseCountExact'
  BY DEF ChangeRuntime, LeaseCountExact, Cached, Readers
<1>2. PendingIsLeased'
  BY DEF ChangeRuntime, PendingIsLeased, Cached
<1>3. NoLostDirectory'
  BY DEF ChangeRuntime, NoLostDirectory, Cached
<1>4. CachedOnDisk'
  BY DEF ChangeRuntime, CachedOnDisk, Cached
<1>5. LeasesKept'
  BY DEF ChangeRuntime, LeasesKept, Cached
<1>6. UnissuedUnknown'
  BY DEF ChangeRuntime, UnissuedUnknown, Cached
<1>7. DoomedUnreachable'
  BY DEF ChangeRuntime, DoomedUnreachable, Cached, IsDoomed
<1>8. ExtractionPrivate'
  BY DEF ChangeRuntime, ExtractionPrivate, Cached
<1>9. DoomedOnlyInside'
  BY DEF ChangeRuntime, DoomedOnlyInside
<1>10. DownIsEmpty'
  BY DEF ChangeRuntime, DownIsEmpty, Cached, NoThreadState
<1> QED
  BY <1>1, <1>2, <1>3, <1>4, <1>5, <1>6, <1>7, <1>8, <1>9, <1>10

(* The forced sweep pops everything: no lease is promised from here on.     *)
LEMMA ExitKeeps ==
    ASSUME EvidenceInv, TypeOK', Exit
    PROVE  EvidenceInv'
<1> USE DEF EvidenceInv, TypeOK, Remaining, Enter, Running, threadVars
<1>1. LeaseCountExact'
  BY DEF Exit, LeaseCountExact, Cached, Readers
<1>2. PendingIsLeased'
  BY DEF Exit, PendingIsLeased, Cached
<1>3. NoLostDirectory'
  BY DEF Exit, NoLostDirectory, Cached
<1>4. CachedOnDisk'
  BY DEF Exit, CachedOnDisk, Cached
<1>5. LeasesKept'
  BY DEF Exit, LeasesKept, Cached
<1>6. UnissuedUnknown'
  BY DEF Exit, UnissuedUnknown, Cached
<1>7. DoomedUnreachable'
  BY NoTokenAssumption
  DEF Exit, DoomedUnreachable, IsDoomed, ExtractionPrivate, Cached
<1>8. ExtractionPrivate'
  BY DEF Exit, ExtractionPrivate, Cached
<1>9. DoomedOnlyInside'
  BY DEF Exit, DoomedOnlyInside
<1>10. DownIsEmpty'
  BY DEF Exit, DownIsEmpty, Cached, NoThreadState
<1> QED
  BY <1>1, <1>2, <1>3, <1>4, <1>5, <1>6, <1>7, <1>8, <1>9, <1>10

(* The forced removal touches only what the forced sweep popped.            *)
LEMMA RemoveAtExitKeeps ==
    ASSUME EvidenceInv, TypeOK', RemoveAtExit
    PROVE  EvidenceInv'
<1> USE DEF EvidenceInv, TypeOK, Remaining, Enter, Running, threadVars
<1>1. LeaseCountExact'
  BY DEF RemoveAtExit, LeaseCountExact, Cached, Readers
<1>2. PendingIsLeased'
  BY DEF RemoveAtExit, PendingIsLeased, Cached
<1>3. NoLostDirectory'
  BY DEF RemoveAtExit, NoLostDirectory, Cached
<1>4. CachedOnDisk'
  BY DEF RemoveAtExit, CachedOnDisk, DoomedUnreachable, IsDoomed, Cached
<1>5. LeasesKept'
  BY DEF RemoveAtExit, LeasesKept, Cached
<1>6. UnissuedUnknown'
  BY DEF RemoveAtExit, UnissuedUnknown, Cached
<1>7. DoomedUnreachable'
  BY DEF RemoveAtExit, DoomedUnreachable, Cached, IsDoomed
<1>8. ExtractionPrivate'
  BY NoTokenAssumption
  DEF RemoveAtExit, ExtractionPrivate, DoomedUnreachable, IsDoomed, Cached
<1>9. DoomedOnlyInside'
  BY DEF RemoveAtExit, DoomedOnlyInside
<1>10. DownIsEmpty'
  BY DEF RemoveAtExit, DownIsEmpty, Cached, NoThreadState
<1> QED
  BY <1>1, <1>2, <1>3, <1>4, <1>5, <1>6, <1>7, <1>8, <1>9, <1>10

(* A stopped process keeps nothing in memory.                               *)
LEMMA StopKeeps ==
    ASSUME EvidenceInv, TypeOK', Stop
    PROVE  EvidenceInv'
<1> USE DEF EvidenceInv, TypeOK, Remaining, Enter, Running, threadVars
<1>1. LeaseCountExact'
  BY DEF Stop, LeaseCountExact, Cached, Readers
<1>2. PendingIsLeased'
  BY DEF Stop, PendingIsLeased, Cached
<1>3. NoLostDirectory'
  BY DEF Stop, NoLostDirectory, Cached
<1>4. CachedOnDisk'
  BY DEF Stop, CachedOnDisk, Cached
<1>5. LeasesKept'
  BY DEF Stop, LeasesKept, Cached
<1>6. UnissuedUnknown'
  BY NoTokenAssumption DEF Stop, UnissuedUnknown, Cached
<1>7. DoomedUnreachable'
  BY DEF Stop, DoomedUnreachable, Cached, IsDoomed
<1>8. ExtractionPrivate'
  BY DEF Stop, ExtractionPrivate, Cached
<1>9. DoomedOnlyInside'
  BY DEF Stop, DoomedOnlyInside
<1>10. DownIsEmpty'
  BY DEF Stop, DownIsEmpty, Cached, NoThreadState
<1> QED
  BY <1>1, <1>2, <1>3, <1>4, <1>5, <1>6, <1>7, <1>8, <1>9, <1>10

(* A restart starts from an empty table and an empty directory.             *)
LEMMA RestartKeeps ==
    ASSUME EvidenceInv, TypeOK', Restart
    PROVE  EvidenceInv'
<1> USE DEF EvidenceInv, TypeOK, Remaining, Enter, Running, threadVars
<1>1. LeaseCountExact'
  BY DEF Restart, LeaseCountExact, Cached, Readers
<1>2. PendingIsLeased'
  BY DEF Restart, PendingIsLeased, Cached
<1>3. NoLostDirectory'
  BY DEF Restart, NoLostDirectory, Cached
<1>4. CachedOnDisk'
  BY DEF Restart, CachedOnDisk, DownIsEmpty, Cached
<1>5. LeasesKept'
  BY DEF Restart, LeasesKept, DownIsEmpty, NoThreadState
<1>6. UnissuedUnknown'
  BY DEF Restart, UnissuedUnknown, Cached
<1>7. DoomedUnreachable'
  BY DEF Restart, DoomedUnreachable, Cached, IsDoomed
<1>8. ExtractionPrivate'
  BY DEF Restart, ExtractionPrivate, DownIsEmpty, NoThreadState
<1>9. DoomedOnlyInside'
  BY DEF Restart, DoomedOnlyInside
<1>10. DownIsEmpty'
  BY DEF Restart, DownIsEmpty, Cached, NoThreadState
<1> QED
  BY <1>1, <1>2, <1>3, <1>4, <1>5, <1>6, <1>7, <1>8, <1>9, <1>10

(* Nothing changes.                                                         *)
LEMMA StutterKeeps ==
    ASSUME EvidenceInv, TypeOK', UNCHANGED evidenceVars
    PROVE  EvidenceInv'
<1> USE DEF EvidenceInv, TypeOK, Remaining, Enter, Running, threadVars
<1>1. LeaseCountExact'
  BY DEF evidenceVars, LeaseCountExact, Cached, Readers
<1>2. PendingIsLeased'
  BY DEF evidenceVars, PendingIsLeased, Cached
<1>3. NoLostDirectory'
  BY DEF evidenceVars, NoLostDirectory, Cached
<1>4. CachedOnDisk'
  BY DEF evidenceVars, CachedOnDisk, Cached
<1>5. LeasesKept'
  BY DEF evidenceVars, LeasesKept, Cached
<1>6. UnissuedUnknown'
  BY DEF evidenceVars, UnissuedUnknown, Cached
<1>7. DoomedUnreachable'
  BY DEF evidenceVars, DoomedUnreachable, Cached, IsDoomed
<1>8. ExtractionPrivate'
  BY DEF evidenceVars, ExtractionPrivate, Cached
<1>9. DoomedOnlyInside'
  BY DEF evidenceVars, DoomedOnlyInside
<1>10. DownIsEmpty'
  BY DEF evidenceVars, DownIsEmpty, Cached, NoThreadState
<1> QED
  BY <1>1, <1>2, <1>3, <1>4, <1>5, <1>6, <1>7, <1>8, <1>9, <1>10

(* Every step of the cache keeps the inductive invariant. *)
LEMMA EvidenceStep == EvidenceInv /\ [EvidenceNext]_evidenceVars => EvidenceInv'
<1> SUFFICES ASSUME EvidenceInv, [EvidenceNext]_evidenceVars PROVE EvidenceInv'
  OBVIOUS
<1>1. TypeOK'
  BY TypeStep DEF EvidenceInv
<1> QED
  BY <1>1, StartExtractionKeeps, DiscardExtractionKeeps, SweepKeeps,
     RemoveSweptKeeps, RegisterKeeps, LookUpKeeps, AcquireKeeps, ReleaseKeeps,
     RemoveReleasedKeeps, TickKeeps, ChangeRuntimeKeeps, ExitKeeps,
     RemoveAtExitKeeps, StopKeeps, RestartKeeps, StutterKeeps
  DEF EvidenceNext, ThreadStep

LEMMA EvidenceInitially == EvidenceInit => EvidenceInv
<1> SUFFICES ASSUME EvidenceInit PROVE EvidenceInv
  OBVIOUS
<1> USE DEF EvidenceInit, NoThreadState
<1>1. TypeOK
  BY DEF TypeOK, Phases
<1>2. \A k \in Tokens : ~Cached(k)
  BY DEF Cached
<1> QED
  BY <1>1, <1>2, NoTokenAssumption
  DEF EvidenceInv, LeaseCountExact, PendingIsLeased, NoLostDirectory,
      CachedOnDisk, LeasesKept, UnissuedUnknown, DoomedUnreachable, IsDoomed,
      ExtractionPrivate, DoomedOnlyInside, DownIsEmpty

THEOREM EvidenceInvariant == EvidenceSpec => []EvidenceInv
<1> QED
  BY EvidenceInitially, EvidenceStep, PTL DEF EvidenceSpec

(* "Active analysis jobs hold read leases so expiry cleanup cannot remove  *)
(* logs mid-analysis" (backend/reference/one_pass_zeek_evidence.md:49):    *)
(* while the server serves, leased evidence is on disk and in the table.   *)
THEOREM LeaseSafety == EvidenceSpec => []LeasedEvidenceStays
<1>1. EvidenceInv => LeasedEvidenceStays
  BY DEF EvidenceInv, TypeOK, LeasesKept, CachedOnDisk, LeasedEvidenceStays
<1> QED
  BY <1>1, EvidenceInvariant, PTL

(* The lease counter never drifts from the leases that exist, and marked   *)
(* evidence never outlives its last lease, so "expired evidence is removed *)
(* after the final lease releases" (one_pass_zeek_evidence.md:49).         *)
THEOREM LeaseCounting == EvidenceSpec => [](LeaseCountExact /\ PendingIsLeased)
<1>1. EvidenceInv => LeaseCountExact /\ PendingIsLeased
  BY DEF EvidenceInv
<1> QED
  BY <1>1, EvidenceInvariant, PTL

(* No evidence directory is lost to the server while it serves: each is    *)
(* cached, being filled, about to be deleted, or one that rmtree cannot    *)
(* remove.                                                                 *)
THEOREM NoDirectoryLeak == EvidenceSpec => []NoLostDirectory
<1>1. EvidenceInv => NoLostDirectory
  BY DEF EvidenceInv
<1> QED
  BY <1>1, EvidenceInvariant, PTL

-----------------------------------------------------------------------------
(* The refinement. *)

(* A removal of directories that nobody reads is a Discard of those that   *)
(* can be removed, or no step.                                             *)
LEMMA RemovalIsDiscard ==
    ASSUME TypeOK, NEW K \in SUBSET Tokens, dirs' = Remaining(K),
           Reading' = Reading, \A t \in Threads : Reading[t] \notin K
    PROVE  [Promise!Next]_(Promise!vars)
<1>1. K \ Stuck \in SUBSET Tokens /\ dirs' = dirs \ (K \ Stuck)
  BY DEF Remaining
<1>2. CASE K \ Stuck = {}
  BY <1>1, <1>2 DEF Promise!vars
<1>3. CASE K \ Stuck # {}
  BY <1>1, <1>3 DEF Promise!Next, Promise!Discard
<1> QED
  BY <1>2, <1>3

(* Every step of the cache is a step of its promise, or none that matters. *)
LEMMA PromiseStep ==
    EvidenceInv /\ EvidenceInv' /\ [EvidenceNext]_evidenceVars
        => [Promise!Next]_(Promise!vars)
<1> SUFFICES ASSUME EvidenceInv, EvidenceInv', [EvidenceNext]_evidenceVars
             PROVE  [Promise!Next]_(Promise!vars)
  OBVIOUS
<1> USE DEF EvidenceInv, TypeOK, Enter, Running, threadVars
<1>h. \A t \in Threads : Reading[t] # NoToken =>
         /\ process = "serving"
         /\ Reading[t] = lease[t]
         /\ Reading[t] \in Tokens
         /\ Cached(Reading[t])
  BY DEF Reading, LeasesKept
<1>s. process' = process /\ lease' = lease => Reading' = Reading
  BY DEF Reading
<1>1. ASSUME NEW t \in Threads, NEW k \in Tokens, StartExtraction(t, k)
      PROVE  [Promise!Next]_(Promise!vars)
  <2>1. CASE k \in dirs
    BY <1>1, <1>s, <2>1 DEF StartExtraction, Promise!vars
  <2>2. CASE k \notin dirs
    BY <1>1, <1>s, <2>2 DEF StartExtraction, Promise!Next, Promise!Publish
  <2> QED
    BY <2>1, <2>2
<1>2. ASSUME NEW t \in Threads, DiscardExtraction(t)
      PROVE  [Promise!Next]_(Promise!vars)
  <2>1. \A u \in Threads : Reading[u] # extracting[t]
    BY <1>2, <1>h DEF DiscardExtraction, ExtractionPrivate
  <2>2. {extracting[t]} \in SUBSET Tokens
    BY <1>2 DEF DiscardExtraction
  <2>3. dirs' = Remaining({extracting[t]}) /\ Reading' = Reading
    BY <1>2, <1>s DEF DiscardExtraction
  <2>4. \A u \in Threads : Reading[u] \notin {extracting[t]}
    BY <2>1
  <2> QED
    BY <2>2, <2>3, <2>4, RemovalIsDiscard
<1>3. ASSUME NEW t \in Threads, RemoveSwept(t) \/ RemoveReleased(t)
      PROVE  [Promise!Next]_(Promise!vars)
  <2>1. \A u \in Threads : Reading[u] \notin doomed[t]
    BY <1>h, NoTokenAssumption DEF DoomedUnreachable, IsDoomed
  <2> QED
    BY <1>3, <1>s, <2>1, RemovalIsDiscard DEF RemoveSwept, RemoveReleased
<1>4. ASSUME NEW t \in Threads,
             \/ Sweep(t)
             \/ LookUp(t)
             \/ \E p \in Pcaps : Register(t, p)
      PROVE  [Promise!Next]_(Promise!vars)
  BY <1>4, <1>s DEF Sweep, LookUp, Register, Promise!vars
<1>5. ASSUME NEW t \in Threads, NEW k \in Tokens, NEW p \in Pcaps,
             Acquire(t, k, p)
      PROVE  [Promise!Next]_(Promise!vars)
  <2>1. CASE process = "serving"
    <3>1. Reading' = [Reading EXCEPT ![t] = k] /\ Reading[t] = NoToken
      BY <1>5, <2>1 DEF Acquire, Reading
    <3> QED
      BY <1>5, <3>1
      DEF Acquire, Usable, Promise!Next, Promise!BeginRead
  <2>2. CASE process # "serving"
    BY <1>5, <2>2 DEF Acquire, Reading, Promise!vars
  <2> QED
    BY <2>1, <2>2
<1>6. ASSUME NEW t \in Threads, Release(t)
      PROVE  [Promise!Next]_(Promise!vars)
  <2>1. CASE process = "serving"
    <3>1. Reading' = [Reading EXCEPT ![t] = NoToken] /\ Reading[t] # NoToken
      BY <1>6, <2>1 DEF Release, Reading
    <3> QED
      BY <1>6, <3>1 DEF Release, Promise!Next, Promise!EndRead
  <2>2. CASE process # "serving"
    BY <1>6, <2>2 DEF Release, Reading, Promise!vars
  <2> QED
    BY <2>1, <2>2
<1>7. CASE Tick \/ ChangeRuntime
  BY <1>7, <1>s DEF Tick, ChangeRuntime, Promise!vars
<1>8. CASE Exit \/ Stop
  <2>1. Reading' = [t \in Threads |-> NoToken] /\ dirs' = dirs
    BY <1>8 DEF Exit, Stop, Reading
  <2> QED
    BY <2>1 DEF Promise!Next, Promise!ReadersGone
<1>9. CASE RemoveAtExit
  <2>1. \A u \in Threads : Reading[u] \notin exitDoomed
    BY <1>9, NoTokenAssumption DEF RemoveAtExit, Reading
  <2> QED
    BY <1>9, <1>s, <2>1, RemovalIsDiscard DEF RemoveAtExit
<1>10. CASE Restart
  <2>1. /\ Reading = [t \in Threads |-> NoToken]
        /\ Reading' = [t \in Threads |-> NoToken]
    BY <1>10 DEF Restart, Reading, DownIsEmpty, NoThreadState
  <2>2. dirs' = Remaining(Tokens)
    BY <1>10 DEF Restart
  <2> QED
    BY <2>1, <2>2, NoTokenAssumption, RemovalIsDiscard
<1>11. CASE UNCHANGED evidenceVars
  BY <1>11, <1>s DEF evidenceVars, Promise!vars
<1> QED
  BY <1>1, <1>2, <1>3, <1>4, <1>5, <1>6, <1>7, <1>8, <1>9, <1>10, <1>11
  DEF EvidenceNext, ThreadStep

(* The cache implements what it promises to its readers. *)
THEOREM Refinement == EvidenceSpec => LeaseProtocol
<1>1. EvidenceInit => Promise!Init
  BY DEF EvidenceInit, NoThreadState, Reading, Promise!Init
<1> QED
  BY <1>1, PromiseStep, EvidenceInvariant, PTL
  DEF EvidenceSpec, LeaseProtocol, Promise!Spec
=============================================================================
