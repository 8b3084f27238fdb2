---------------------------- MODULE ServerProofs ----------------------------
(***************************************************************************)
(* Proofs about BackupRestore, for any number of items, rewrites and       *)
(* failures, and about Sessions. BackupInv and SessionsInv are inductive.  *)
(* The last section puts the invariants of reports, sessions and the tool  *)
(* side by side, as MCServer does.                                         *)
(***************************************************************************)
EXTENDS MCServer, ReportsProofs, FiniteSetTheorems

Parts == SavesHaveFiles /\ HoldsItems /\ ServerRests
Loops == LoopsFollow /\ RestoredOrRolledBack

(* Rows, files, archives and the state of the tool keep their types.       *)
LEMMA TypeStep ==
    ASSUME BackupInv, [Next]_vars
    PROVE  BackupTypeOK'
<1> USE ItemsAssumption, BoundsAssumption, NoArchiveAssumption
    DEF Loops, BackupInv, BackupTypeOK, HoldsItems, ServerRests, LoopsFollow,
        Restoring, Contents, Stage, State, Steps, None, NoStage, Empty, Now,
        Present, Deleting, Ended, server, tool, content
<1>1. ASSUME NEW r \in Items, SaveFile(r) PROVE BackupTypeOK'
  BY <1>1 DEF SaveFile, Serve
<1>2. ASSUME NEW r \in Items, SaveRow(r) PROVE BackupTypeOK'
  BY <1>2 DEF SaveRow, Serve
<1>3. ASSUME NEW r \in Items, RewriteFile(r) PROVE BackupTypeOK'
  BY <1>3 DEF RewriteFile, Serve
<1>4. ASSUME NEW r \in Items, DeleteFile(r) PROVE BackupTypeOK'
  BY <1>4 DEF DeleteFile, Serve
<1>5. ASSUME NEW r \in Items, DeleteRow(r) PROVE BackupTypeOK'
  BY <1>5 DEF DeleteRow, Serve
<1>6. CASE StopServer
  BY <1>6 DEF StopServer
<1>7. CASE StartServer
  BY <1>7 DEF StartServer
<1>8. CASE BeginBackup
  BY <1>8 DEF BeginBackup
<1>9. ASSUME NEW r \in Items, DumpRow(r) PROVE BackupTypeOK'
  BY <1>9 DEF DumpRow
<1>10. CASE ListFiles
  BY <1>10 DEF ListFiles
<1>11. ASSUME NEW r \in Items, CopyFile(r) PROVE BackupTypeOK'
  BY <1>11 DEF CopyFile
<1>12. CASE StatFile
  BY <1>12 DEF StatFile
<1>13. CASE Publish
  BY <1>13 DEF Publish
<1>14. CASE Validate
  BY <1>14 DEF Validate
<1>15. CASE BeginRestore
  BY <1>15 DEF BeginRestore
<1>16. CASE Keep
  BY <1>16 DEF Keep
<1>17. CASE SetAside
  BY <1>17 DEF SetAside
<1>18. CASE Wipe("wipe", "place", archive.files)
  BY <1>18 DEF Wipe
<1>19. ASSUME NEW r \in Items, Place("place", r, archive.files)
       PROVE  BackupTypeOK'
  BY <1>19 DEF Place
<1>20. CASE Drop("place", "insert", archive.rows)
  BY <1>20 DEF Drop
<1>21. ASSUME NEW r \in Items, Insert("insert", r) PROVE BackupTypeOK'
  BY <1>21 DEF Insert
<1>22. CASE Done("insert", "restored")
  BY <1>22 DEF Done
<1>23. CASE Wipe("unwipe", "unplace", old.files)
  BY <1>23 DEF Wipe
<1>24. ASSUME NEW r \in Items, Place("unplace", r, old.files)
       PROVE  BackupTypeOK'
  BY <1>24 DEF Place
<1>25. CASE Drop("unplace", "uninsert", old.rows)
  BY <1>25 DEF Drop
<1>26. ASSUME NEW r \in Items, Insert("uninsert", r) PROVE BackupTypeOK'
  BY <1>26 DEF Insert
<1>27. CASE Done("uninsert", "failed")
  BY <1>27 DEF Done
<1>28. CASE FailRestore
  BY <1>28 DEF FailRestore, Failed
<1>29. CASE FailOutside
  BY <1>29 DEF FailOutside, Failed
<1>30. CASE Kill
  BY <1>30 DEF Kill
<1>31. CASE UNCHANGED vars
  BY <1>31 DEF vars
<1> QED
  BY <1>1, <1>2, <1>3, <1>4, <1>5, <1>6, <1>7, <1>8, <1>9,
     <1>10, <1>11, <1>12, <1>13, <1>14, <1>15, <1>16, <1>17, <1>18,
     <1>19, <1>20, <1>21, <1>22, <1>23, <1>24, <1>25, <1>26, <1>27,
     <1>28, <1>29, <1>30, <1>31
  DEF Next, Server, Tool, Restore, Rollback

(* The archive is the stage, and copies hold what was in the store.        *)
LEMMA PartsStep ==
    ASSUME BackupInv, BackupTypeOK', [Next]_vars
    PROVE  Parts'
<1> USE ItemsAssumption, BoundsAssumption, NoArchiveAssumption
    DEF Parts, BackupInv, BackupTypeOK, SavesHaveFiles, HoldsItems,
        ServerRests, Restoring, Contents, Stage, State, None, NoStage, Empty,
        Now, Present, Ended, server, tool, content
<1>1. ASSUME NEW r \in Items, SaveFile(r) PROVE Parts'
  BY <1>1 DEF SaveFile, Serve
<1>2. ASSUME NEW r \in Items, SaveRow(r) PROVE Parts'
  BY <1>2 DEF SaveRow, Serve
<1>3. ASSUME NEW r \in Items, RewriteFile(r) PROVE Parts'
  BY <1>3 DEF RewriteFile, Serve
<1>4. ASSUME NEW r \in Items, DeleteFile(r) PROVE Parts'
  BY <1>4 DEF DeleteFile, Serve
<1>5. ASSUME NEW r \in Items, DeleteRow(r) PROVE Parts'
  BY <1>5 DEF DeleteRow, Serve
<1>6. CASE StopServer
  BY <1>6 DEF StopServer
<1>7. CASE StartServer
  BY <1>7 DEF StartServer
<1>8. CASE BeginBackup
  BY <1>8 DEF BeginBackup
<1>9. ASSUME NEW r \in Items, DumpRow(r) PROVE Parts'
  BY <1>9 DEF DumpRow
<1>10. CASE ListFiles
  BY <1>10 DEF ListFiles
<1>11. ASSUME NEW r \in Items, CopyFile(r) PROVE Parts'
  BY <1>11 DEF CopyFile
<1>12. CASE StatFile
  BY <1>12 DEF StatFile
<1>13. CASE Publish
  BY <1>13 DEF Publish
<1>14. CASE Validate
  BY <1>14 DEF Validate
<1>15. CASE BeginRestore
  BY <1>15 DEF BeginRestore
<1>16. CASE Keep
  BY <1>16 DEF Keep
<1>17. CASE SetAside
  BY <1>17 DEF SetAside
<1>18. CASE Wipe("wipe", "place", archive.files)
  BY <1>18 DEF Wipe
<1>19. ASSUME NEW r \in Items, Place("place", r, archive.files) PROVE Parts'
  BY <1>19 DEF Place
<1>20. CASE Drop("place", "insert", archive.rows)
  BY <1>20 DEF Drop
<1>21. ASSUME NEW r \in Items, Insert("insert", r) PROVE Parts'
  BY <1>21 DEF Insert
<1>22. CASE Done("insert", "restored")
  BY <1>22 DEF Done
<1>23. CASE Wipe("unwipe", "unplace", old.files)
  BY <1>23 DEF Wipe
<1>24. ASSUME NEW r \in Items, Place("unplace", r, old.files) PROVE Parts'
  BY <1>24 DEF Place
<1>25. CASE Drop("unplace", "uninsert", old.rows)
  BY <1>25 DEF Drop
<1>26. ASSUME NEW r \in Items, Insert("uninsert", r) PROVE Parts'
  BY <1>26 DEF Insert
<1>27. CASE Done("uninsert", "failed")
  BY <1>27 DEF Done
<1>28. CASE FailRestore
  BY <1>28 DEF FailRestore, Failed
<1>29. CASE FailOutside
  BY <1>29 DEF FailOutside, Failed
<1>30. CASE Kill
  BY <1>30 DEF Kill
<1>31. CASE UNCHANGED vars
  BY <1>31 DEF vars
<1> QED
  BY <1>1, <1>2, <1>3, <1>4, <1>5, <1>6, <1>7, <1>8, <1>9,
     <1>10, <1>11, <1>12, <1>13, <1>14, <1>15, <1>16, <1>17, <1>18,
     <1>19, <1>20, <1>21, <1>22, <1>23, <1>24, <1>25, <1>26, <1>27,
     <1>28, <1>29, <1>30, <1>31
  DEF Next, Server, Tool, Restore, Rollback

(* A row that was dumped has its file: on disk, listed or staged; what is  *)
(* being deleted is in the history.                                        *)
LEMMA FilesStep ==
    ASSUME BackupInv, BackupTypeOK', [Next]_vars
    PROVE  RowsHaveFiles'
<1> USE ItemsAssumption, BoundsAssumption, NoArchiveAssumption
    DEF BackupInv, BackupTypeOK, SavesHaveFiles, HoldsItems, ServerRests,
        RowsHaveFiles, BackingUp, Restoring, Contents, Stage, State, None,
        NoStage, Empty, Now, Present, Deleting, Ended, server, tool, content
<1>1. ASSUME NEW r \in Items, SaveFile(r) PROVE RowsHaveFiles'
  BY <1>1 DEF SaveFile, Serve
<1>2. ASSUME NEW r \in Items, SaveRow(r) PROVE RowsHaveFiles'
  BY <1>2 DEF SaveRow, Serve
<1>3. ASSUME NEW r \in Items, RewriteFile(r) PROVE RowsHaveFiles'
  BY <1>3 DEF RewriteFile, Serve
<1>4. ASSUME NEW r \in Items, DeleteFile(r) PROVE RowsHaveFiles'
  BY <1>4 DEF DeleteFile, Serve
<1>5. ASSUME NEW r \in Items, DeleteRow(r) PROVE RowsHaveFiles'
  BY <1>5 DEF DeleteRow, Serve
<1>6. CASE StopServer
  BY <1>6 DEF StopServer
<1>7. CASE StartServer
  BY <1>7 DEF StartServer
<1>8. CASE BeginBackup
  BY <1>8 DEF BeginBackup
<1>9. ASSUME NEW r \in Items, DumpRow(r) PROVE RowsHaveFiles'
  BY <1>9 DEF DumpRow
<1>10. CASE ListFiles
  BY <1>10 DEF ListFiles
<1>11. ASSUME NEW r \in Items, CopyFile(r) PROVE RowsHaveFiles'
  BY <1>11 DEF CopyFile
<1>12. CASE StatFile
  BY <1>12 DEF StatFile
<1>13. CASE Publish
  BY <1>13 DEF Publish
<1>14. CASE Validate
  BY <1>14 DEF Validate
<1>15. CASE BeginRestore
  BY <1>15 DEF BeginRestore
<1>16. CASE Keep
  BY <1>16 DEF Keep
<1>17. CASE SetAside
  BY <1>17 DEF SetAside
<1>18. CASE Wipe("wipe", "place", archive.files)
  BY <1>18 DEF Wipe
<1>19. ASSUME NEW r \in Items, Place("place", r, archive.files)
       PROVE  RowsHaveFiles'
  BY <1>19 DEF Place
<1>20. CASE Drop("place", "insert", archive.rows)
  BY <1>20 DEF Drop
<1>21. ASSUME NEW r \in Items, Insert("insert", r) PROVE RowsHaveFiles'
  BY <1>21 DEF Insert
<1>22. CASE Done("insert", "restored")
  BY <1>22 DEF Done
<1>23. CASE Wipe("unwipe", "unplace", old.files)
  BY <1>23 DEF Wipe
<1>24. ASSUME NEW r \in Items, Place("unplace", r, old.files)
       PROVE  RowsHaveFiles'
  BY <1>24 DEF Place
<1>25. CASE Drop("unplace", "uninsert", old.rows)
  BY <1>25 DEF Drop
<1>26. ASSUME NEW r \in Items, Insert("uninsert", r) PROVE RowsHaveFiles'
  BY <1>26 DEF Insert
<1>27. CASE Done("uninsert", "failed")
  BY <1>27 DEF Done
<1>28. CASE FailRestore
  BY <1>28 DEF FailRestore, Failed
<1>29. CASE FailOutside
  BY <1>29 DEF FailOutside, Failed
<1>30. CASE Kill
  BY <1>30 DEF Kill
<1>31. CASE UNCHANGED vars
  BY <1>31 DEF vars
<1> QED
  BY <1>1, <1>2, <1>3, <1>4, <1>5, <1>6, <1>7, <1>8, <1>9,
     <1>10, <1>11, <1>12, <1>13, <1>14, <1>15, <1>16, <1>17, <1>18,
     <1>19, <1>20, <1>21, <1>22, <1>23, <1>24, <1>25, <1>26, <1>27,
     <1>28, <1>29, <1>30, <1>31
  DEF Next, Server, Tool, Restore, Rollback

(* A restore and a rollback leave exactly what they put back.              *)
LEMMA LoopsStep ==
    ASSUME BackupInv, BackupTypeOK', [Next]_vars
    PROVE  Loops'
<1> USE ItemsAssumption, BoundsAssumption, NoArchiveAssumption
    DEF Loops, BackupInv, BackupTypeOK, HoldsItems, ServerRests, LoopsFollow,
        RestoredOrRolledBack, Restoring, Contents, Stage, State, None, NoStage,
        Empty, Now, Present, Ended, server, tool, content
<1>1. ASSUME NEW r \in Items, SaveFile(r) PROVE Loops'
  BY <1>1 DEF SaveFile, Serve
<1>2. ASSUME NEW r \in Items, SaveRow(r) PROVE Loops'
  BY <1>2 DEF SaveRow, Serve
<1>3. ASSUME NEW r \in Items, RewriteFile(r) PROVE Loops'
  BY <1>3 DEF RewriteFile, Serve
<1>4. ASSUME NEW r \in Items, DeleteFile(r) PROVE Loops'
  BY <1>4 DEF DeleteFile, Serve
<1>5. ASSUME NEW r \in Items, DeleteRow(r) PROVE Loops'
  BY <1>5 DEF DeleteRow, Serve
<1>6. CASE StopServer
  BY <1>6 DEF StopServer
<1>7. CASE StartServer
  BY <1>7 DEF StartServer
<1>8. CASE BeginBackup
  <2>1. pc' = "dump" /\ outcome' = "none"
    BY <1>8 DEF BeginBackup
  <2> QED
    BY <2>1
<1>9. ASSUME NEW r \in Items, DumpRow(r) PROVE Loops'
  BY <1>9 DEF DumpRow
<1>10. CASE ListFiles
  BY <1>10 DEF ListFiles
<1>11. ASSUME NEW r \in Items, CopyFile(r) PROVE Loops'
  BY <1>11 DEF CopyFile
<1>12. CASE StatFile
  BY <1>12 DEF StatFile
<1>13. CASE Publish
  BY <1>13 DEF Publish
<1>14. CASE Validate
  BY <1>14 DEF Validate
<1>15. CASE BeginRestore
  BY <1>15 DEF BeginRestore
<1>16. CASE Keep
  BY <1>16 DEF Keep
<1>17. CASE SetAside
  BY <1>17 DEF SetAside
<1>18. CASE Wipe("wipe", "place", archive.files)
  BY <1>18 DEF Wipe
<1>19. ASSUME NEW r \in Items, Place("place", r, archive.files) PROVE Loops'
  BY <1>19 DEF Place
<1>20. CASE Drop("place", "insert", archive.rows)
  BY <1>20 DEF Drop
<1>21. ASSUME NEW r \in Items, Insert("insert", r) PROVE Loops'
  BY <1>21 DEF Insert
<1>22. CASE Done("insert", "restored")
  BY <1>22 DEF Done
<1>23. CASE Wipe("unwipe", "unplace", old.files)
  BY <1>23 DEF Wipe
<1>24. ASSUME NEW r \in Items, Place("unplace", r, old.files) PROVE Loops'
  BY <1>24 DEF Place
<1>25. CASE Drop("unplace", "uninsert", old.rows)
  BY <1>25 DEF Drop
<1>26. ASSUME NEW r \in Items, Insert("uninsert", r) PROVE Loops'
  BY <1>26 DEF Insert
<1>27. CASE Done("uninsert", "failed")
  BY <1>27 DEF Done
<1>28. CASE FailRestore
  BY <1>28 DEF FailRestore, Failed
<1>29. CASE FailOutside
  BY <1>29 DEF FailOutside, Failed
<1>30. CASE Kill
  BY <1>30 DEF Kill
<1>31. CASE UNCHANGED vars
  BY <1>31 DEF vars
<1> QED
  BY <1>1, <1>2, <1>3, <1>4, <1>5, <1>6, <1>7, <1>8, <1>9,
     <1>10, <1>11, <1>12, <1>13, <1>14, <1>15, <1>16, <1>17, <1>18,
     <1>19, <1>20, <1>21, <1>22, <1>23, <1>24, <1>25, <1>26, <1>27,
     <1>28, <1>29, <1>30, <1>31
  DEF Next, Server, Tool, Restore, Rollback

(* The server does nothing to an item, or the item grows older.            *)
Same(r) == /\ r \in used' <=> r \in used
           /\ r \in rows' <=> r \in rows
           /\ files'[r] = files[r]

(* An age is a number, and the same for an item that has not changed.      *)
Snapshot == [rows : SUBSET Items, files : Contents, used : SUBSET Items]

LEMMA AgeIsNumber ==
    ASSUME NEW s \in Snapshot, NEW t \in Snapshot, NEW r \in Items
    PROVE  /\ Age(s, r) \in Nat
           /\ /\ r \in s.used <=> r \in t.used
              /\ r \in s.rows <=> r \in t.rows
              /\ s.files[r] = t.files[r]
              => Age(s, r) = Age(t, r)
  BY BoundsAssumption DEF Age, Snapshot, Contents

LEMMA ServerAges ==
    ASSUME BackupInv, Server, NEW r \in Items
    PROVE  Same(r) \/ Age(Now, r)' > Age(Now, r)
<1> USE BoundsAssumption
    DEF BackupInv, BackupTypeOK, SavesHaveFiles, Contents, None, Now, Same,
        Age, Serve
<1>1. ASSUME NEW i \in Items, SaveFile(i)
      PROVE  Same(r) \/ Age(Now, r)' > Age(Now, r)
  BY <1>1 DEF SaveFile
<1>2. ASSUME NEW i \in Items, SaveRow(i)
      PROVE  Same(r) \/ Age(Now, r)' > Age(Now, r)
  BY <1>2 DEF SaveRow
<1>3. ASSUME NEW i \in Items, RewriteFile(i)
      PROVE  Same(r) \/ Age(Now, r)' > Age(Now, r)
  BY <1>3 DEF RewriteFile
<1>4. ASSUME NEW i \in Items, DeleteFile(i)
      PROVE  Same(r) \/ Age(Now, r)' > Age(Now, r)
  BY <1>4 DEF DeleteFile
<1>5. ASSUME NEW i \in Items, DeleteRow(i)
      PROVE  Same(r) \/ Age(Now, r)' > Age(Now, r)
  BY <1>5 DEF DeleteRow
<1>6. CASE StopServer \/ StartServer
  BY <1>6 DEF StopServer, StartServer
<1> QED
  BY <1>1, <1>2, <1>3, <1>4, <1>5, <1>6 DEF Server

(* What was read of an item beside a server is current: an item that is as *)
(* it was when the tool began has not been touched by this step either.    *)
LEMMA ReadsBesideServer ==
    ASSUME BackupInv, BackupTypeOK', Server
    PROVE  ReadsAreCurrent'
<1>1. /\ UNCHANGED <<pc, todo, hand, stage, archive, begun>>
      /\ outcome' \in {outcome, "none"}
  BY DEF Server, SaveFile, SaveRow, RewriteFile, DeleteFile, DeleteRow, Serve,
         StopServer, StartServer, tool
<1>2. BackingUp' \/ outcome' = "passed" => BackingUp \/ outcome = "passed"
  BY <1>1 DEF BackingUp
<1>3. ASSUME NEW r \in Items, BackingUp \/ outcome = "passed"
      PROVE  /\ Unchanged(r)' \/ Age(Now, r)' > Age(begun, r)'
             /\ Unchanged(r)' => Unchanged(r) /\ Same(r)
  <2> Now \in Snapshot /\ Now' \in Snapshot
      /\ begun \in Snapshot /\ begun' \in Snapshot
    BY DEF BackupInv, BackupTypeOK, Snapshot, Now
  <2>1. /\ Age(Now, r) \in Nat /\ Age(begun, r) \in Nat
        /\ Unchanged(r) => Age(Now, r) = Age(begun, r)
    BY AgeIsNumber DEF Unchanged, Now
  <2>2. /\ Age(Now', r) \in Nat /\ Age(begun', r) \in Nat
        /\ Unchanged(r)' => Age(Now', r) = Age(begun', r)
    BY AgeIsNumber DEF Unchanged, Now
  <2>7. Age(Now, r)' = Age(Now', r) /\ Age(begun, r)' = Age(begun', r)
    BY DEF Age
  <2>3. Age(begun, r)' = Age(begun, r)
    BY <1>1 DEF Age
  <2>4. Same(r) \/ Age(Now, r)' > Age(Now, r)
    BY ServerAges
  <2>5. Unchanged(r) \/ Age(Now, r) > Age(begun, r)
    BY <1>3 DEF BackupInv, ReadsAreCurrent
  <2>6. Same(r) => /\ Unchanged(r)' <=> Unchanged(r)
                   /\ Age(Now, r)' = Age(Now, r)
    BY <1>1 DEF Same, Unchanged, Age, Now
  <2> QED
    BY <2>1, <2>2, <2>3, <2>4, <2>5, <2>6, <2>7
<1> QED
  BY <1>1, <1>2, <1>3 DEF BackupInv, ReadsAreCurrent, Same, BackingUp

(* The tool reads what is there, and what it has read it keeps.            *)
LEMMA ReadsStep ==
    ASSUME BackupInv, BackupTypeOK', [Next]_vars
    PROVE  ReadsAreCurrent'
<1> USE ItemsAssumption, BoundsAssumption, NoArchiveAssumption
    DEF BackupInv, BackupTypeOK, HoldsItems, ServerRests, Restoring,
        ReadsAreCurrent, BackingUp, Unchanged, Contents, Stage, State, NoStage,
        Now, Present, Ended, server, tool, content
<1>1. CASE Server
  BY <1>1, ReadsBesideServer
<1>2. CASE BeginBackup
  <2>1. \A r \in Items : Unchanged(r)'
    BY <1>2 DEF BeginBackup
  <2>2. pc' = "dump" /\ outcome' = "none" /\ stage' = stage /\ todo' = Items
    BY <1>2 DEF BeginBackup
  <2>3. stage.files = None /\ stage.rows = {}
    BY <1>2 DEF BeginBackup
  <2> QED
    BY <2>1, <2>2, <2>3
<1>3. ASSUME NEW r \in Items, DumpRow(r) PROVE ReadsAreCurrent'
  BY <1>3 DEF DumpRow
<1>4. CASE ListFiles
  BY <1>4 DEF ListFiles, None
<1>5. ASSUME NEW r \in Items, CopyFile(r) PROVE ReadsAreCurrent'
  BY <1>5 DEF CopyFile
<1>6. CASE StatFile
  BY <1>6 DEF StatFile
<1>7. CASE Publish
  BY <1>7 DEF Publish
<1>8. CASE Validate
  BY <1>8 DEF Validate
<1>9. CASE BeginRestore
  BY <1>9 DEF BeginRestore
<1>10. CASE Keep \/ SetAside \/ Restore \/ Rollback \/ FailRestore
            \/ FailOutside \/ Kill
  <2>1. ~BackingUp' /\ outcome' # "passed"
    BY <1>10
    DEF Keep, SetAside, Restore, Rollback, Wipe, Place, Drop, Insert, Done,
        FailRestore, FailOutside, Kill, Failed
  <2> QED
    BY <2>1
<1>11. CASE UNCHANGED vars
  BY <1>11 DEF vars
<1> QED
  BY <1>1, <1>2, <1>3, <1>4, <1>5, <1>6, <1>7, <1>8, <1>9, <1>10, <1>11
  DEF Next, Tool

LEMMA BackupStep ==
    ASSUME BackupInv, [Next]_vars
    PROVE  BackupInv'
<1>1. BackupTypeOK'
  BY TypeStep
<1> QED
  BY <1>1, PartsStep, FilesStep, ReadsStep, LoopsStep
  DEF BackupInv, Parts, Loops

LEMMA BackupInitially ==
    ASSUME Init
    PROVE  BackupInv
  BY ItemsAssumption, BoundsAssumption
  DEF Init, BackupInv, BackupTypeOK, SavesHaveFiles, HoldsItems, ServerRests,
      RowsHaveFiles, ReadsAreCurrent, LoopsFollow, RestoredOrRolledBack,
      BackingUp, Restoring, Contents, Stage, State, Steps, None, NoStage, Empty,
      Now

(* The tool and the server keep to the invariant whatever their order.     *)
THEOREM BackupInvariant == Spec => []BackupInv
<1>1. Init => BackupInv
  BY BackupInitially
<1>2. BackupInv /\ [Next]_vars => BackupInv'
  BY BackupStep
<1> QED
  BY <1>1, <1>2, PTL DEF Spec

(* create_backup beside the server: a row of the archive has its file in   *)
(* the archive, or the item was deleted while the backup ran.              *)
THEOREM BackupsAreLoadable == Spec => []ArchiveIsLoadable
<1>1. BackupInv => ArchiveIsLoadable
  BY DEF BackupInv, RowsHaveFiles, ArchiveIsLoadable
<1> QED
  BY <1>1, BackupInvariant, PTL

(* create_backup: a backup that passes its validation, with rows, files    *)
(* and ids as they were when it began, holds exactly them: an item cannot  *)
(* have changed and changed back, because its life goes one way.           *)
THEOREM QuietBackups == Spec => []QuietBackupIsExact
<1>1. BackupInv => QuietBackupIsExact
  <2> SUFFICES ASSUME BackupInv, outcome = "passed", Now = begun
               PROVE  archive.rows = rows /\ archive.files = files
    BY DEF QuietBackupIsExact
  <2>1. \A r \in Items : Unchanged(r)
    BY DEF Unchanged, Now
  <2>2. /\ archive # NoArchive
        /\ \A r \in Items : /\ r \in archive.rows <=> r \in rows
                            /\ archive.files[r] = files[r]
    BY <2>1 DEF BackupInv, ReadsAreCurrent
  <2>3. /\ archive \in Stage /\ files \in Contents
        /\ rows \in SUBSET used /\ used \in SUBSET Items
    BY <2>2 DEF BackupInv, BackupTypeOK
  <2>4. archive.rows = rows
    BY <2>2, <2>3 DEF Stage
  <2>5. archive.files = files
    BY <2>2, <2>3 DEF Stage, Contents
  <2> QED
    BY <2>4, <2>5
<1> QED
  BY <1>1, BackupInvariant, PTL

(* restore_backup: a restore that succeeds leaves the archive, and one     *)
(* that is rolled back from complete copies leaves what was there.         *)
THEOREM RestoreOrRollback == Spec => []RestoredOrRolledBack
<1>1. BackupInv => RestoredOrRolledBack
  BY DEF BackupInv
<1> QED
  BY <1>1, BackupInvariant, PTL

-----------------------------------------------------------------------------
(* The sessions, for any number of requests and tokens and any life of a   *)
(* token and of a login. SessionsInv is inductive.                         *)

(* The next token has a number of its own.                                 *)
LEMMA NextNumber ==
    ASSUME SessionsInv, Cardinality(tokens) < MaxTokens
    PROVE  Cardinality(tokens) + 1 \in 1..MaxTokens
<1>1. Cardinality(tokens) \in Nat
  BY FS_CardinalityType DEF SessionsInv
<1> QED
  BY <1>1, SessionBounds

(* A token is signed for what was read: the version and the deadline.      *)
LEMMA IssueKeeps ==
    ASSUME SessionsInv, NEW c \in SessionThreads, Issue(c)
    PROVE  SessionsInv'
<1> DEFINE t == [id |-> Cardinality(tokens) + 1, sv |-> got[c].sv,
                 exp |-> sessionNow + Life, deadline |-> got[c].deadline,
                 login |-> got[c].login, epoch |-> got[c].epoch]
<1>1. got[c] \in Reading /\ got[c] # NoToken
  BY DEF SessionsInv, SessionsTypeOK, InWindow, Issue, SessionGoto
<1>2. t \in Token
  BY <1>1, NextNumber, LifeAssumption
  DEF SessionsInv, SessionsTypeOK, Token, Reading, Issue
<1>3. tokens' = tokens \cup {t}
  BY DEF Issue
<1> HIDE DEF t
<1>4. SessionsTypeOK'
  BY <1>2, <1>3 DEF SessionsInv, SessionsTypeOK, Issue, SessionGoto, row,
                    history
<1>5. IsFiniteSet(tokens')
  BY <1>3, FS_AddElement DEF SessionsInv
<1>6. NothingAhead'
  BY <1>1, <1>3
  DEF SessionsInv, SessionsTypeOK, NothingAhead, Current, Issue, row, history, t
<1>7. InWindow'
  BY <1>1, <1>2, <1>3, LifeAssumption, WindowAssumption
  DEF SessionsInv, SessionsTypeOK, InWindow, Issue, SessionGoto, Reading,
      row, history, t
<1> QED
  BY <1>4, <1>5, <1>6, <1>7 DEF SessionsInv

(* Every step keeps the inductive invariant.                               *)
LEMMA SessionsStep ==
    ASSUME SessionsInv, [SessionsNext]_sessionsVars
    PROVE  SessionsInv'
<1> USE LifeAssumption, WindowAssumption, SessionBounds, NoTokenAssumption
    DEF SessionsInv, SessionsTypeOK, NothingAhead, Current, InWindow, Token,
        Reading, SessionGoto, row, sessionLocal, history
<1>1. ASSUME NEW c \in SessionThreads, ReadLogin(c)
      PROVE  SessionsInv'
  BY <1>1 DEF ReadLogin
<1>2. ASSUME NEW c \in SessionThreads, NEW t \in tokens, ReadRenewal(c, t)
      PROVE  SessionsInv'
  BY <1>2 DEF ReadRenewal, Accepted
<1>3. ASSUME NEW c \in SessionThreads, NEW t \in tokens,
             NEW to \in {"logout", "password"}, Check(c, t, to)
      PROVE  SessionsInv'
  BY <1>3 DEF Check
<1>4. ASSUME NEW c \in SessionThreads, Logout(c) \/ ChangePassword(c)
      PROVE  SessionsInv'
  BY <1>4 DEF Logout, ChangePassword, Revoked
<1>5. ASSUME NEW c \in SessionThreads, VerifyPassword(c) \/ ReadVersion(c)
      PROVE  SessionsInv'
  BY <1>5 DEF VerifyPassword, ReadVersion
<1>6. ASSUME NEW c \in SessionThreads, Disable(c)
      PROVE  SessionsInv'
  <2>1. \/ lost'
        \/ ~lost /\ version' = version + 1
    BY <1>6 DEF Disable
  <2> QED
    BY <1>6, <2>1 DEF Disable
<1>7. CASE Enable
  BY <1>7 DEF Enable
<1>9. CASE SessionTick
  BY <1>9 DEF SessionTick
<1>8. CASE UNCHANGED sessionsVars
  BY <1>8 DEF sessionsVars
<1> QED
  BY <1>1, <1>2, <1>3, <1>4, <1>5, <1>6, <1>7, <1>8, <1>9, IssueKeeps
  DEF SessionsNext

LEMMA SessionsInitially == SessionsInit => SessionsInv
<1> SUFFICES ASSUME SessionsInit PROVE SessionsInv
  OBVIOUS
<1> USE DEF SessionsInit
<1>1. IsFiniteSet(tokens)
  BY FS_EmptySet
<1>2. SessionsTypeOK
  <2>1. sessionNow \in 0..SessionMaxTime
    BY SessionBounds
  <2>2. /\ got \in [SessionThreads -> Reading \cup {NoToken}]
        /\ read \in [SessionThreads -> Nat]
    OBVIOUS
  <2> QED
    BY <2>1, <2>2 DEF SessionsTypeOK
<1>3. NothingAhead /\ InWindow
  BY DEF NothingAhead, InWindow
<1> QED
  BY <1>1, <1>2, <1>3 DEF SessionsInv

(* Versions, tokens and what requests have read keep their types, and no   *)
(* token is of a version that is still to come.                            *)
THEOREM SessionsInvariant == SessionsSpec => []SessionsInv
<1> QED
  BY SessionsInitially, SessionsStep, PTL DEF SessionsSpec

(* A token from before a logout, a change of the password or a disabling   *)
(* (auth/service.py revoke_sessions, change_password, update_user) is      *)
(* never accepted again, nor is one renewed from it.                       *)
THEOREM RevocationSafety == SessionsSpec => []RevocationIsFinal
<1>1. SessionsInv => RevocationIsFinal
  BY DEF SessionsInv, NothingAhead, Current, RevocationIsFinal, Accepted
<1> QED
  BY <1>1, SessionsInvariant, PTL

(* Renewals (auth/service.py, the deadline of a renewed token) do not      *)
(* carry a login past its window and the life of one token.                *)
THEOREM LoginsEnd == SessionsSpec => []LoginEnds
<1>1. SessionsInv => LoginEnds
  BY LifeAssumption, WindowAssumption
  DEF SessionsInv, SessionsTypeOK, Token, InWindow, LoginEnds, Accepted
<1> QED
  BY <1>1, SessionsInvariant, PTL

-----------------------------------------------------------------------------
(* Reports, sessions and the tool share no state: each keeps its invariant *)
(* in the steps of the others.                                             *)

LEMMA ServerStep ==
    ASSUME ServerInv, [ServerNext]_serverVars
    PROVE  ServerInv'
<1>1. CASE part = "reports" /\ ReportsNext /\ UNCHANGED part
  BY <1>1, ReportsStep DEF ServerInv
<1>2. CASE part = "sessions" /\ SessionsNext /\ UNCHANGED part
  BY <1>2, SessionsStep DEF ServerInv
<1>3. CASE part = "backup" /\ Next /\ UNCHANGED part
  BY <1>3, BackupStep DEF ServerInv
<1>4. CASE UNCHANGED serverVars
  BY <1>4, ReportsStep, SessionsStep, BackupStep DEF serverVars, ServerInv
<1> QED
  BY <1>1, <1>2, <1>3, <1>4 DEF ServerNext

(* The inductive invariants of reports, sessions and the tool hold side    *)
(* by side.                                                                *)
THEOREM ServerInvariant == ServerSpec => []ServerInv
<1>1. ServerInit => ServerInv
  BY ReportsInitially, SessionsInitially, BackupInitially DEF ServerInit, ServerInv
<1> QED
  BY <1>1, ServerStep, PTL DEF ServerSpec
=============================================================================
