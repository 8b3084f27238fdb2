-------------------------- MODULE CaptureStoreProofs --------------------------
(***************************************************************************)
(* Proofs about CaptureStore, for any number of request threads, contents  *)
(* and ids, any quota, any retention and any clock bound.                  *)
(***************************************************************************)
EXTENDS CaptureStore, FiniteSetTheorems, TLAPS

(* Every variable keeps its type. The row that InsertRow writes needs what *)
(* the saving thread carries, hence Equipped.                              *)
LEMMA TypeStep ==
    CapturesTypeOK /\ Equipped /\ [Next]_vars => CapturesTypeOK'
<1> SUFFICES ASSUME CapturesTypeOK, Equipped, [Next]_vars
             PROVE  CapturesTypeOK'
  OBVIOUS
<1> USE DEF CapturesTypeOK, Steps, Goto, Finish, Take
<1>1. ASSUME NEW c \in Clients, BeginCleanup(c) PROVE CapturesTypeOK'
  BY <1>1 DEF BeginCleanup
<1>2. ASSUME NEW c \in Clients, NEW s \in Shas, BeginSave(c, s)
      PROVE  CapturesTypeOK'
  BY <1>2 DEF BeginSave
<1>3. ASSUME NEW c \in Clients, NEW k \in Ids, BeginDelete(c, k)
      PROVE  CapturesTypeOK'
  BY <1>3 DEF BeginDelete
<1>4. ASSUME NEW c \in Clients, ScanExpired(c) PROVE CapturesTypeOK'
  BY <1>4 DEF ScanExpired, Rows
<1>5. ASSUME NEW c \in Clients, NEW k \in Ids, UnlinkExpired(c, k)
      PROVE  CapturesTypeOK'
  BY <1>5 DEF UnlinkExpired
<1>6. ASSUME NEW c \in Clients, DeleteExpired(c) PROVE CapturesTypeOK'
  BY <1>6 DEF DeleteExpired
<1>7. ASSUME NEW c \in Clients, EndCleanup(c) PROVE CapturesTypeOK'
  BY <1>7 DEF EndCleanup
<1>8. ASSUME NEW c \in Clients, FindExisting(c) PROVE CapturesTypeOK'
  BY <1>8 DEF FindExisting, Holding, Rows
<1>9. ASSUME NEW c \in Clients, Touch(c) PROVE CapturesTypeOK'
  <2>1. hand[c] \in Rows => [rows[hand[c]] EXCEPT !.lastUsed = now]
                                \in [sha : Shas, lastUsed : Nat]
    BY DEF Rows
  <2>2. rows' \in [Ids -> [sha : Shas, lastUsed : Nat] \cup {NoRow}]
    BY <1>9, <2>1 DEF Touch, Rows
  <2> QED
    BY <1>9, <2>2 DEF Touch
<1>10. ASSUME NEW c \in Clients, Reload(c) PROVE CapturesTypeOK'
  BY <1>10 DEF Reload
<1>11. ASSUME NEW c \in Clients, Measure(c) PROVE CapturesTypeOK'
  BY <1>11 DEF Measure
<1>12. ASSUME NEW c \in Clients, NEW k \in Ids, WriteFile(c, k)
       PROVE  CapturesTypeOK'
  BY <1>12 DEF WriteFile
<1>13. ASSUME NEW c \in Clients, InsertRow(c) PROVE CapturesTypeOK'
  <2>1. sha[c] \in Shas /\ hand[c] \in Ids
    BY <1>13 DEF InsertRow, Equipped
  <2>2. /\ rows' \in [Ids -> [sha : Shas, lastUsed : Nat] \cup {NoRow}]
        /\ usedAt' \in [Ids -> Nat]
    BY <1>13, <2>1 DEF InsertRow
  <2> QED
    BY <1>13, <2>2 DEF InsertRow
<1>14. ASSUME NEW c \in Clients, FindRow(c) PROVE CapturesTypeOK'
  BY <1>14 DEF FindRow
<1>15. ASSUME NEW c \in Clients, UnlinkFile(c) PROVE CapturesTypeOK'
  BY <1>15 DEF UnlinkFile
<1>16. ASSUME NEW c \in Clients, DeleteRow(c) PROVE CapturesTypeOK'
  BY <1>16 DEF DeleteRow
<1>17. ASSUME NEW k \in Ids, Analyze(k) PROVE CapturesTypeOK'
  BY <1>17 DEF Analyze, local
<1>18. ASSUME NEW c \in Clients, BeginCollect(c) PROVE CapturesTypeOK'
  BY <1>18 DEF BeginCollect, Rows
<1>19. ASSUME NEW c \in Clients, FindOrphans(c) PROVE CapturesTypeOK'
  BY <1>19 DEF FindOrphans
<1>20. ASSUME NEW c \in Clients, NEW k \in Ids, UnlinkOrphan(c, k)
       PROVE  CapturesTypeOK'
  BY <1>20 DEF UnlinkOrphan
<1>21. ASSUME NEW c \in Clients, EndCollect(c) PROVE CapturesTypeOK'
  BY <1>21 DEF EndCollect
<1>25. ASSUME NEW c \in Clients, Raise(c) PROVE CapturesTypeOK'
  BY <1>25 DEF Raise
<1>22. CASE Tick
  BY <1>22 DEF Tick, local
<1>23. CASE Crash
  BY <1>23 DEF Crash
<1>24. CASE UNCHANGED vars
  BY <1>24 DEF vars, local
<1> QED
  BY <1>1, <1>2, <1>3, <1>4, <1>5, <1>6, <1>7, <1>8, <1>9, <1>10, <1>11,
     <1>12, <1>13, <1>14, <1>15, <1>16, <1>17, <1>18, <1>19, <1>20, <1>21,
     <1>22, <1>23, <1>24, <1>25
  DEF Next, Begin, Continue

-----------------------------------------------------------------------------
(* An operation carries what it works on from the step that finds it to    *)
(* the step that uses it.                                                  *)
LEMMA EquippedStep ==
    CapturesTypeOK /\ Equipped /\ [Next]_vars => Equipped'
<1> SUFFICES ASSUME CapturesTypeOK, Equipped, [Next]_vars, NEW d \in Clients
             PROVE  /\ pc'[d] \in {"find", "touch", "reload", "measure",
                                   "write", "insert"}
                          => sha'[d] \in Shas
                    /\ pc'[d] \in {"unrow", "touch", "reload", "insert", "lookup",
                                   "unlink", "delete"}
                          => hand'[d] \in Ids
  BY DEF Equipped
<1> DEFINE Kept == /\ pc'[d] \in {"find", "touch", "reload", "measure",
                                  "write", "insert"}
                         => sha'[d] \in Shas
                   /\ pc'[d] \in {"unrow", "touch", "reload", "insert", "lookup",
                                  "unlink", "delete"}
                         => hand'[d] \in Ids
<1> USE DEF CapturesTypeOK, Equipped, Goto, Finish, Take
<1>1. ASSUME NEW c \in Clients, Begin(c) PROVE Kept
  BY <1>1 DEF Begin, BeginCleanup, BeginSave, BeginDelete
<1>2. ASSUME NEW c \in Clients, ScanExpired(c) \/ EndCleanup(c) PROVE Kept
  BY <1>2 DEF ScanExpired, EndCleanup
<1>3. ASSUME NEW c \in Clients, NEW k \in Ids, UnlinkExpired(c, k) PROVE Kept
  BY <1>3 DEF UnlinkExpired
<1>4. ASSUME NEW c \in Clients, DeleteExpired(c) PROVE Kept
  BY <1>4 DEF DeleteExpired
<1>5. ASSUME NEW c \in Clients, FindExisting(c) PROVE Kept
  BY <1>5 DEF FindExisting, Holding, Rows
<1>6. ASSUME NEW c \in Clients, Touch(c) \/ Reload(c) \/ Measure(c) PROVE Kept
  BY <1>6 DEF Touch, Reload, Measure
<1>7. ASSUME NEW c \in Clients, NEW k \in Ids, WriteFile(c, k) PROVE Kept
  BY <1>7 DEF WriteFile
<1>8. ASSUME NEW c \in Clients, InsertRow(c) PROVE Kept
  BY <1>8 DEF InsertRow
<1>9. ASSUME NEW c \in Clients, FindRow(c) \/ UnlinkFile(c) \/ DeleteRow(c)
      PROVE  Kept
  BY <1>9 DEF FindRow, UnlinkFile, DeleteRow
<1>10. ASSUME NEW c \in Clients,
              BeginCollect(c) \/ FindOrphans(c) \/ EndCollect(c) \/ Raise(c)
       PROVE  Kept
  BY <1>10 DEF BeginCollect, FindOrphans, EndCollect, Raise
<1>11. ASSUME NEW c \in Clients, NEW k \in Ids, UnlinkOrphan(c, k) PROVE Kept
  BY <1>11 DEF UnlinkOrphan
<1>12. CASE Tick \/ \E k \in Ids : Analyze(k)
  BY <1>12 DEF Tick, Analyze, local
<1>13. CASE Crash
  BY <1>13 DEF Crash
<1>14. CASE UNCHANGED vars
  BY <1>14 DEF vars, local
<1> QED
  BY <1>1, <1>2, <1>3, <1>4, <1>5, <1>6, <1>7, <1>8, <1>9, <1>10, <1>11,
     <1>12, <1>13, <1>14
  DEF Next, Continue

-----------------------------------------------------------------------------
(* The quota. Rows and threads can be counted, ... *)
LEMMA Countable ==
    /\ IsFiniteSet(Rows) /\ Cardinality(Rows) \in Nat
    /\ IsFiniteSet(Admitted) /\ Cardinality(Admitted) \in Nat
    /\ Cardinality(Clients) \in Nat
<1>1. Rows \in SUBSET Ids /\ Admitted \in SUBSET Clients
  BY DEF Rows, Admitted
<1> QED
  BY <1>1, FS_Subset, FS_CardinalityType, IdsAssumption, ClientsAssumption

(* ... a step that adds no row and admits nobody keeps the count, ...      *)
LEMMA QuotaKept ==
    ASSUME QuotaInv, Rows' \subseteq Rows, Admitted' \subseteq Admitted
    PROVE  QuotaInv'
<1>1. /\ Cardinality(Rows') <= Cardinality(Rows)
      /\ Cardinality(Rows') \in Nat
  BY Countable, FS_Subset, FS_CardinalityType
<1>2. /\ Cardinality(Admitted') <= Cardinality(Admitted)
      /\ Cardinality(Admitted') \in Nat
  BY Countable, FS_Subset, FS_CardinalityType
<1> QED
  BY <1>1, <1>2, Countable, LimitAssumption DEF QuotaInv

(* ... and the check leaves room for the one row the thread may add.       *)
LEMMA QuotaStep ==
    CapturesTypeOK /\ Equipped /\ QuotaInv /\ [Next]_vars => QuotaInv'
<1> SUFFICES ASSUME CapturesTypeOK, Equipped, QuotaInv, [Next]_vars
             PROVE  QuotaInv'
  OBVIOUS
<1> USE DEF CapturesTypeOK, Goto, Finish
<1>1. ASSUME NEW c \in Clients, Begin(c) PROVE QuotaInv'
  <2>1. Rows' = Rows /\ Admitted' \subseteq Admitted
    BY <1>1 DEF Begin, BeginCleanup, BeginSave, BeginDelete, Rows, Admitted
  <2> QED
    BY <2>1, QuotaKept
<1>2. ASSUME NEW c \in Clients,
             ScanExpired(c) \/ (\E k \in Ids : UnlinkExpired(c, k))
               \/ EndCleanup(c) \/ FindExisting(c) \/ Reload(c)
      PROVE  QuotaInv'
  <2>1. Rows' = Rows /\ Admitted' \subseteq Admitted
    BY <1>2 DEF ScanExpired, UnlinkExpired, EndCleanup, FindExisting, Reload,
                Rows, Admitted
  <2> QED
    BY <2>1, QuotaKept
<1>3. ASSUME NEW c \in Clients, DeleteExpired(c) \/ DeleteRow(c)
      PROVE  QuotaInv'
  <2>1. Rows' \subseteq Rows /\ Admitted' \subseteq Admitted
    BY <1>3 DEF DeleteExpired, DeleteRow, Rows, Admitted
  <2> QED
    BY <2>1, QuotaKept
<1>4. ASSUME NEW c \in Clients, Touch(c) PROVE QuotaInv'
  <2>1. Rows' \subseteq Rows /\ Admitted' \subseteq Admitted
    BY <1>4 DEF Touch, Rows, Admitted
  <2> QED
    BY <2>1, QuotaKept
<1>5. ASSUME NEW c \in Clients, Measure(c) PROVE QuotaInv'
  <2>1. CASE Admitted' \subseteq Admitted
    <3>1. Rows' = Rows
      BY <1>5 DEF Measure, Rows
    <3> QED
      BY <2>1, <3>1, QuotaKept
  <2>2. CASE ~(Admitted' \subseteq Admitted)
    <3>1. Cardinality(Rows) + 1 <= Limit /\ Rows' = Rows
      BY <1>5, <2>2 DEF Measure, Rows, Admitted
    <3>2. Admitted' \in SUBSET Clients
      BY DEF Admitted
    <3>3. /\ Cardinality(Admitted') <= Cardinality(Clients)
          /\ Cardinality(Admitted') \in Nat
      BY <3>2, FS_Subset, FS_CardinalityType, ClientsAssumption
    <3> QED
      BY <3>1, <3>3, Countable, LimitAssumption DEF QuotaInv
  <2> QED
    BY <2>1, <2>2
<1>6. ASSUME NEW c \in Clients, NEW k \in Ids, WriteFile(c, k) PROVE QuotaInv'
  <2>1. Rows' = Rows /\ Admitted' \subseteq Admitted
    BY <1>6 DEF WriteFile, Rows, Admitted
  <2> QED
    BY <2>1, QuotaKept
<1>7. ASSUME NEW c \in Clients, InsertRow(c) PROVE QuotaInv'
  <2>1. hand[c] \in Ids
    BY <1>7 DEF InsertRow, Equipped
  <2>2. Rows' \subseteq Rows \cup {hand[c]}
    BY <1>7, <2>1 DEF InsertRow, Rows
  <2>3. Admitted' = Admitted \ {c} /\ c \in Admitted
    BY <1>7 DEF InsertRow, Admitted
  <2>4. Cardinality(Admitted') = Cardinality(Admitted) - 1
    BY <2>3, Countable, FS_RemoveElement
  <2>5. /\ IsFiniteSet(Rows \cup {hand[c]})
        /\ Cardinality(Rows \cup {hand[c]}) \in Nat
        /\ Cardinality(Rows \cup {hand[c]}) <= Cardinality(Rows) + 1
    <3>1. /\ IsFiniteSet(Rows \cup {hand[c]})
          /\ Cardinality(Rows \cup {hand[c]}) =
               IF hand[c] \in Rows THEN Cardinality(Rows) ELSE Cardinality(Rows) + 1
      BY Countable, FS_AddElement
    <3> HIDE DEF CapturesTypeOK, Goto, Finish
    <3> QED
      BY <3>1, Countable
  <2>6. Cardinality(Rows') \in Nat /\ Cardinality(Rows') <= Cardinality(Rows) + 1
    BY <2>2, <2>5, Countable, FS_Subset, FS_CardinalityType
  <2> QED
    BY <2>4, <2>6, Countable, LimitAssumption DEF QuotaInv
<1>8. ASSUME NEW c \in Clients, FindRow(c) \/ UnlinkFile(c) PROVE QuotaInv'
  <2>1. Rows' = Rows /\ Admitted' \subseteq Admitted
    BY <1>8 DEF FindRow, UnlinkFile, Rows, Admitted
  <2> QED
    BY <2>1, QuotaKept
<1>9. ASSUME NEW c \in Clients,
             BeginCollect(c) \/ FindOrphans(c) \/ EndCollect(c) \/ Raise(c)
               \/ \E k \in Ids : UnlinkOrphan(c, k)
      PROVE  QuotaInv'
  <2>1. Rows' = Rows /\ Admitted' \subseteq Admitted
    BY <1>9 DEF BeginCollect, FindOrphans, EndCollect, UnlinkOrphan, Raise,
                Rows, Admitted
  <2> QED
    BY <2>1, QuotaKept
<1>10. CASE Tick \/ Crash \/ (\E k \in Ids : Analyze(k)) \/ UNCHANGED vars
  <2>1. Rows' = Rows /\ Admitted' \subseteq Admitted
    BY <1>10 DEF Tick, Crash, Analyze, vars, local, Rows, Admitted
  <2> QED
    BY <2>1, QuotaKept
<1> QED
  BY <1>1, <1>2, <1>3, <1>4, <1>5, <1>6, <1>7, <1>8, <1>9, <1>10
  DEF Next, Continue

-----------------------------------------------------------------------------
(* What disturbs the store is never forgotten.                             *)
LEMMA OnceDisturbed ==
    ASSUME CapturesTypeOK, [Next]_vars, disturbed
    PROVE  disturbed'
BY DEF Next, Begin, BeginCleanup, BeginSave, BeginDelete, Continue,
       ScanExpired, UnlinkExpired, DeleteExpired, EndCleanup, FindExisting,
       Touch, Reload, Measure, WriteFile, InsertRow, FindRow, UnlinkFile,
       DeleteRow, FindOrphans, UnlinkOrphan, EndCollect, Raise, BeginCollect,
       Analyze, Tick, Crash, vars

(* In an undisturbed store, what was listed or entered has been issued,    *)
(* ...                                                                     *)
LEMMA KnownStep ==
    ASSUME CapturesTypeOK, Equipped, [Next]_vars, ~disturbed, ~disturbed',
           NoCollector, KnownIds
    PROVE  (NoCollector /\ KnownIds)'
<1> USE DEF CapturesTypeOK, Equipped, NoCollector, KnownIds, Rows,
            Goto, Finish, Take
<1>1. ASSUME NEW c \in Clients, Begin(c) PROVE (NoCollector /\ KnownIds)'
  BY <1>1 DEF Begin, BeginCleanup, BeginSave, BeginDelete
<1>2. ASSUME NEW c \in Clients, ScanExpired(c) PROVE (NoCollector /\ KnownIds)'
  BY <1>2 DEF ScanExpired
<1>3. ASSUME NEW c \in Clients, NEW k \in Ids, UnlinkExpired(c, k)
      PROVE  (NoCollector /\ KnownIds)'
  BY <1>3 DEF UnlinkExpired
<1>4. ASSUME NEW c \in Clients, DeleteExpired(c)
      PROVE  (NoCollector /\ KnownIds)'
  BY <1>4 DEF DeleteExpired
<1>5. ASSUME NEW c \in Clients, EndCleanup(c) PROVE (NoCollector /\ KnownIds)'
  BY <1>5 DEF EndCleanup
<1>6. ASSUME NEW c \in Clients, FindExisting(c)
      PROVE  (NoCollector /\ KnownIds)'
  BY <1>6 DEF FindExisting
<1>7. ASSUME NEW c \in Clients, Touch(c) PROVE (NoCollector /\ KnownIds)'
  BY <1>7 DEF Touch
<1>8. ASSUME NEW c \in Clients, Reload(c) \/ Measure(c)
      PROVE  (NoCollector /\ KnownIds)'
  BY <1>8 DEF Reload, Measure
<1>9. ASSUME NEW c \in Clients, NEW k \in Ids, WriteFile(c, k)
      PROVE  (NoCollector /\ KnownIds)'
  BY <1>9 DEF WriteFile
<1>10. ASSUME NEW c \in Clients, InsertRow(c) PROVE (NoCollector /\ KnownIds)'
  BY <1>10 DEF InsertRow
<1>11. ASSUME NEW c \in Clients, FindRow(c) PROVE (NoCollector /\ KnownIds)'
  BY <1>11 DEF FindRow
<1>12. ASSUME NEW c \in Clients, UnlinkFile(c) PROVE (NoCollector /\ KnownIds)'
  BY <1>12 DEF UnlinkFile
<1>13. ASSUME NEW c \in Clients, DeleteRow(c) PROVE (NoCollector /\ KnownIds)'
  BY <1>13 DEF DeleteRow
<1>14. ASSUME NEW c \in Clients, FindOrphans(c) \/ EndCollect(c) \/ Raise(c)
       PROVE  (NoCollector /\ KnownIds)'
  BY <1>14 DEF NoCollector, FindOrphans, EndCollect, Raise
<1>15. ASSUME NEW c \in Clients, NEW k \in Ids, UnlinkOrphan(c, k)
       PROVE  (NoCollector /\ KnownIds)'
  BY <1>15 DEF NoCollector, UnlinkOrphan
<1>16. CASE (\E c \in Clients : BeginCollect(c)) \/ Crash
  BY <1>16 DEF BeginCollect, Crash
<1>17. CASE Tick \/ (\E k \in Ids : Analyze(k)) \/ UNCHANGED vars
  BY <1>17 DEF Tick, Analyze, vars, local
<1> QED
  BY <1>1, <1>2, <1>3, <1>4, <1>5, <1>6, <1>7, <1>8, <1>9, <1>10, <1>11,
     <1>12, <1>13, <1>14, <1>15, <1>16, <1>17 DEF Next, Continue

(* ... the id of a save is in no other hand, ...                           *)
LEMMA FreshStep ==
    ASSUME CapturesTypeOK, Equipped, [Next]_vars, ~disturbed, ~disturbed',
           NoCollector, KnownIds, FreshIds
    PROVE  FreshIds'
<1> USE DEF CapturesTypeOK, Equipped, KnownIds, FreshIds, Untouched, Rows,
            Goto, Finish, Take
<1>1. ASSUME NEW c \in Clients, Begin(c) PROVE FreshIds'
  BY <1>1 DEF Begin, BeginCleanup, BeginSave, BeginDelete
<1>2. ASSUME NEW c \in Clients, ScanExpired(c) PROVE FreshIds'
  BY <1>2 DEF ScanExpired
<1>3. ASSUME NEW c \in Clients, NEW k \in Ids, UnlinkExpired(c, k)
      PROVE  FreshIds'
  BY <1>3 DEF UnlinkExpired
<1>4. ASSUME NEW c \in Clients, DeleteExpired(c) PROVE FreshIds'
  BY <1>4 DEF DeleteExpired
<1>5. ASSUME NEW c \in Clients, EndCleanup(c) PROVE FreshIds'
  BY <1>5 DEF EndCleanup
<1>6. ASSUME NEW c \in Clients, FindExisting(c) PROVE FreshIds'
  BY <1>6 DEF FindExisting
<1>7. ASSUME NEW c \in Clients, Touch(c) PROVE FreshIds'
  BY <1>7 DEF Touch
<1>8. ASSUME NEW c \in Clients, Reload(c) \/ Measure(c) PROVE FreshIds'
  BY <1>8 DEF Reload, Measure
<1>9. ASSUME NEW c \in Clients, NEW k \in Ids, WriteFile(c, k) PROVE FreshIds'
  BY <1>9 DEF WriteFile
<1>10. ASSUME NEW c \in Clients, InsertRow(c) PROVE FreshIds'
  BY <1>10 DEF InsertRow
<1>11. ASSUME NEW c \in Clients, FindRow(c) PROVE FreshIds'
  BY <1>11 DEF FindRow
<1>12. ASSUME NEW c \in Clients, UnlinkFile(c) PROVE FreshIds'
  BY <1>12 DEF UnlinkFile
<1>13. ASSUME NEW c \in Clients, DeleteRow(c) PROVE FreshIds'
  BY <1>13 DEF DeleteRow
<1>14. ASSUME NEW c \in Clients, FindOrphans(c) \/ EndCollect(c) \/ Raise(c)
       PROVE  FreshIds'
  BY <1>14 DEF NoCollector, FindOrphans, EndCollect, Raise
<1>15. ASSUME NEW c \in Clients, NEW k \in Ids, UnlinkOrphan(c, k)
       PROVE  FreshIds'
  BY <1>15 DEF NoCollector, UnlinkOrphan
<1>16. CASE (\E c \in Clients : BeginCollect(c)) \/ Crash
  BY <1>16 DEF BeginCollect, Crash
<1>17. CASE Tick \/ (\E k \in Ids : Analyze(k)) \/ UNCHANGED vars
  BY <1>17 DEF Tick, Analyze, vars, local
<1> QED
  BY <1>1, <1>2, <1>3, <1>4, <1>5, <1>6, <1>7, <1>8, <1>9, <1>10, <1>11,
     <1>12, <1>13, <1>14, <1>15, <1>16, <1>17 DEF Next, Continue

(* ... and a row loses its file only to a thread that will delete it.      *)
LEMMA MissingStep ==
    ASSUME CapturesTypeOK, Equipped, [Next]_vars, ~disturbed, ~disturbed',
           NoCollector, FreshIds, MissingFileIsTransient
    PROVE  MissingFileIsTransient'
<1> USE DEF CapturesTypeOK, Equipped, FreshIds, MissingFileIsTransient,
            Rows, Goto, Finish, Take
<1>1. ASSUME NEW c \in Clients, Begin(c) PROVE MissingFileIsTransient'
  BY <1>1 DEF Begin, BeginCleanup, BeginSave, BeginDelete
<1>2. ASSUME NEW c \in Clients, ScanExpired(c) PROVE MissingFileIsTransient'
  BY <1>2 DEF ScanExpired
<1>3. ASSUME NEW c \in Clients, NEW k \in Ids, UnlinkExpired(c, k)
      PROVE  MissingFileIsTransient'
  BY <1>3 DEF UnlinkExpired
<1>4. ASSUME NEW c \in Clients, DeleteExpired(c) PROVE MissingFileIsTransient'
  BY <1>4 DEF DeleteExpired
<1>5. ASSUME NEW c \in Clients, EndCleanup(c) PROVE MissingFileIsTransient'
  BY <1>5 DEF EndCleanup
<1>6. ASSUME NEW c \in Clients, FindExisting(c) PROVE MissingFileIsTransient'
  BY <1>6 DEF FindExisting
<1>7. ASSUME NEW c \in Clients, Touch(c) PROVE MissingFileIsTransient'
  BY <1>7 DEF Touch
<1>8. ASSUME NEW c \in Clients, Reload(c) \/ Measure(c)
      PROVE  MissingFileIsTransient'
  BY <1>8 DEF Reload, Measure
<1>9. ASSUME NEW c \in Clients, NEW k \in Ids, WriteFile(c, k)
      PROVE  MissingFileIsTransient'
  BY <1>9 DEF WriteFile
<1>10. ASSUME NEW c \in Clients, InsertRow(c) PROVE MissingFileIsTransient'
  BY <1>10 DEF InsertRow
<1>11. ASSUME NEW c \in Clients, FindRow(c) PROVE MissingFileIsTransient'
  BY <1>11 DEF FindRow
<1>12. ASSUME NEW c \in Clients, UnlinkFile(c) PROVE MissingFileIsTransient'
  BY <1>12 DEF UnlinkFile
<1>13. ASSUME NEW c \in Clients, DeleteRow(c) PROVE MissingFileIsTransient'
  BY <1>13 DEF DeleteRow
<1>14. ASSUME NEW c \in Clients, FindOrphans(c) \/ EndCollect(c) \/ Raise(c)
       PROVE  MissingFileIsTransient'
  <2>1. CASE FindOrphans(c) \/ EndCollect(c)
    BY <2>1 DEF NoCollector, FindOrphans, EndCollect
  <2>2. CASE Raise(c)
    <3>1. pc[c] \notin {"unrow", "delete"}
      BY <2>2 DEF Raise
    <3>2. rows' = rows /\ files' = files
      BY <2>2 DEF Raise
    <3>3. \A d \in Clients : pc[d] \in {"unrow", "delete"} =>
             pc'[d] = pc[d] /\ hand'[d] = hand[d]
      BY <2>2, <3>1 DEF Raise
    <3> QED
      BY <3>2, <3>3
  <2> QED
    BY <1>14, <2>1, <2>2
<1>15. ASSUME NEW c \in Clients, NEW k \in Ids, UnlinkOrphan(c, k)
       PROVE  MissingFileIsTransient'
  BY <1>15 DEF NoCollector, UnlinkOrphan
<1>16. CASE (\E c \in Clients : BeginCollect(c)) \/ Crash
  BY <1>16 DEF BeginCollect, Crash
<1>17. CASE Tick \/ (\E k \in Ids : Analyze(k)) \/ UNCHANGED vars
  BY <1>17 DEF Tick, Analyze, vars, local
<1> QED
  BY <1>1, <1>2, <1>3, <1>4, <1>5, <1>6, <1>7, <1>8, <1>9, <1>10, <1>11,
     <1>12, <1>13, <1>14, <1>15, <1>16, <1>17 DEF Next, Continue

-----------------------------------------------------------------------------
(* The inductive invariant: the store keeps its types, an operation knows  *)
(* what it works on, admitted saves fit under the overshoot, and until it  *)
(* is disturbed ids are fresh and files missing only on the way to a       *)
(* deletion.                                                               *)
THEOREM CaptureInvariant == Spec => []CaptureInv
<1>1. Init => CaptureInv
  <2> SUFFICES ASSUME Init PROVE CaptureInv
    OBVIOUS
  <2> USE DEF Init, Idle
  <2>1. CapturesTypeOK /\ Equipped
    BY DEF CapturesTypeOK, Equipped, Steps
  <2>2. NoCollector /\ KnownIds /\ FreshIds /\ MissingFileIsTransient
    BY DEF NoCollector, KnownIds, FreshIds, MissingFileIsTransient, Rows
  <2>3. QuotaInv
    <3>1. Rows = {} /\ Admitted = {}
      BY DEF Rows, Admitted
    <3>2. Cardinality(Clients) \in Nat /\ Cardinality(Clients) # 0
      BY FS_CardinalityType, FS_EmptySet, ClientsAssumption
    <3> HIDE DEF Init, Idle
    <3> QED
      BY <3>1, <3>2, FS_EmptySet, LimitAssumption DEF QuotaInv
  <2> QED
    BY <2>1, <2>2, <2>3 DEF CaptureInv
<1>2. CaptureInv /\ [Next]_vars => CaptureInv'
  <2> SUFFICES ASSUME CaptureInv, [Next]_vars PROVE CaptureInv'
    OBVIOUS
  <2> USE DEF CaptureInv
  <2>1. CapturesTypeOK' /\ Equipped' /\ QuotaInv'
    BY TypeStep, EquippedStep, QuotaStep
  <2>2. CASE disturbed'
    BY <2>1, <2>2 DEF MissingFileIsTransient
  <2>3. CASE ~disturbed'
    <3>1. ~disturbed
      BY <2>3, OnceDisturbed
    <3>2. NoCollector' /\ KnownIds' /\ FreshIds' /\ MissingFileIsTransient'
      BY <2>3, <3>1, KnownStep, FreshStep, MissingStep
    <3> QED
      BY <2>1, <3>2
  <2> QED
    BY <2>2, <2>3
<1> QED
  BY <1>1, <1>2, PTL DEF Spec

(* Every variable of the store keeps its type; in particular no time stamp *)
(* ever precedes the start.                                                *)
THEOREM CaptureTypes == Spec => []CapturesTypeOK
BY CaptureInvariant, PTL DEF CaptureInv

(* Until the process crashes, a removal fails half-way or orphans are      *)
(* removed, a listed capture without its file is about to be deleted by    *)
(* the thread that took the file (capture_store.py: unlink before          *)
(* delete_one, in delete and in cleanup_expired).                          *)
THEOREM MissingFiles == Spec => []MissingFileIsTransient
BY CaptureInvariant, PTL DEF CaptureInv

(* The check of the quota and the insertion are two database commands, and *)
(* still the quota is never exceeded by as many captures as there are      *)
(* request threads.                                                        *)
THEOREM QuotaBound == Spec => []QuotaOvershoot
<1>1. QuotaInv => QuotaOvershoot
  BY Countable, LimitAssumption DEF QuotaInv, QuotaOvershoot
<1> QED
  BY <1>1, CaptureInvariant, PTL DEF CaptureInv
=============================================================================
