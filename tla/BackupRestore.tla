----------------------------- MODULE BackupRestore -----------------------------
(***************************************************************************)
(* The backup and restore tool (backend/auth/backup_restore.py) beside the *)
(* server whose database and storage directory it copies. A report or      *)
(* capture is an item: a row in MongoDB and a file below storage/users.    *)
(* The server writes the file before the row and removes it before the     *)
(* row; it rewrites a file when notes are saved. The tool takes no lock.   *)
(*                                                                         *)
(* The two use one storage directory: the model is of a server without     *)
(* ELEVADR_STORAGE_ROOT, which the stores follow and the tool does not     *)
(* (capture_store.py:18, report_store.py:71, backup_restore.py:19).        *)
(*                                                                         *)
(* A backup may run beside the server; for a restore the operator stops    *)
(* the server (docs/source/operator-guide.md:148). Encryption and the zip  *)
(* container are left out.                                                 *)
(***************************************************************************)
EXTENDS Integers, FiniteSets

CONSTANTS Items,        \* reports and captures; an id is used once
          MaxVersion,   \* bound of the model: rewrites of a file
          MaxFailures,  \* bound of the model: calls of a restore that fail
          NoItem,       \* no item in hand
          NoArchive     \* no backup was made

(* Contents of files; 0 is a file that is not there. *)
Contents == [Items -> 0..MaxVersion]

(* What is staged for an archive: the dumped rows, the copied files, and   *)
(* the sizes of the manifest, which tell versions apart.                   *)
Stage == [rows : SUBSET Items, files : Contents, sizes : Contents]

State == [rows : SUBSET Items, files : Contents]

ASSUME ItemsAssumption == IsFiniteSet(Items) /\ NoItem \notin Items
ASSUME BoundsAssumption == MaxVersion \in Nat \ {0} /\ MaxFailures \in Nat
ASSUME NoArchiveAssumption == NoArchive \notin Stage

VARIABLES
    rows, files,  \* the database and the storage directory
    used,         \* items whose id was drawn
    saving,       \* items whose row is about to be written
    serving,      \* the server runs
    pc,           \* where the tool is
    todo,         \* items the current loop of the tool has still to visit
    hand,         \* the item between two steps
    stage,        \* the temporary directory
    archive,      \* the backup at its destination
    old,          \* the copies a restore keeps for its rollback
    outcome,      \* how the last run of the tool ended
    failures,     \* failed calls of the current restore
    begun,        \* history: rows and files when the tool began
    gone          \* history: items being deleted at some time of the backup

server == <<rows, files, used, saving, serving>>
tool == <<pc, todo, hand, stage, archive, old, outcome, failures, begun>>
vars == <<server, tool, gone>>

None == [r \in Items |-> 0]
Now == [rows |-> rows, files |-> files, used |-> used]
NoStage == [rows |-> {}, files |-> None, sizes |-> None]
Empty == [rows |-> {}, files |-> None]
Present(F) == {r \in Items : F[r] # 0}

Steps == {"idle", "dump", "copy", "stat", "validate", "keep", "aside", "wipe",
          "place", "insert", "unwipe", "unplace", "uninsert"}

BackupTypeOK ==
    /\ rows \in SUBSET used
    /\ files \in Contents
    /\ used \in SUBSET Items
    /\ saving \in SUBSET used
    /\ serving \in BOOLEAN
    /\ pc \in Steps
    /\ todo \in SUBSET Items
    /\ hand \in Items \cup {NoItem}
    /\ stage \in Stage
    /\ archive \in Stage \cup {NoArchive}
    /\ old \in State
    /\ outcome \in {"none", "passed", "error", "restored", "failed", "killed"}
    /\ failures \in 0..MaxFailures
    /\ begun \in [rows : SUBSET Items, files : Contents, used : SUBSET Items]
    /\ gone \in SUBSET Items

Init ==
    /\ rows = {} /\ files = None /\ used = {} /\ saving = {} /\ serving = TRUE
    /\ pc = "idle" /\ todo = {} /\ hand = NoItem
    /\ stage = NoStage /\ archive = NoArchive /\ old = Empty
    /\ outcome = "none" /\ failures = 0
    /\ begun = Now
    /\ gone = {}

-----------------------------------------------------------------------------
(* The server (ReportStore and CaptureStore have it in detail).            *)

Deleting(R, F) == R \ Present(F)

Serve(newRows, newFiles) ==
    /\ serving
    /\ rows' = newRows
    /\ files' = newFiles
    /\ gone' = gone \cup Deleting(newRows, newFiles)
    /\ UNCHANGED <<serving, tool>>

SaveFile(r) == /\ r \notin used
               /\ used' = used \cup {r}
               /\ saving' = saving \cup {r}
               /\ Serve(rows, [files EXCEPT ![r] = 1])

SaveRow(r) == /\ r \in saving
              /\ saving' = saving \ {r}
              /\ UNCHANGED used
              /\ Serve(rows \cup {r}, files)

RewriteFile(r) == /\ r \in rows /\ files[r] \in 1..(MaxVersion - 1)
                  /\ UNCHANGED <<used, saving>>
                  /\ Serve(rows, [files EXCEPT ![r] = @ + 1])

DeleteFile(r) == /\ r \in rows /\ files[r] # 0
                 /\ UNCHANGED <<used, saving>>
                 /\ Serve(rows, [files EXCEPT ![r] = 0])

DeleteRow(r) == /\ r \in rows /\ files[r] = 0
                /\ UNCHANGED <<used, saving>>
                /\ Serve(rows \ {r}, files)

(* The operator stops the server, and starts it when no restore runs.      *)
StopServer == /\ serving
              /\ serving' = FALSE
              /\ saving' = {}
              /\ UNCHANGED <<rows, files, used, tool, gone>>

Restoring == pc \in {"keep", "aside", "wipe", "place", "insert",
                     "unwipe", "unplace", "uninsert"}

StartServer == /\ ~serving /\ ~Restoring
               /\ serving' = TRUE
               /\ outcome' = "none"
               /\ UNCHANGED <<rows, files, used, saving, pc, todo, hand, stage,
                              archive, old, failures, begun, gone>>

-----------------------------------------------------------------------------
Ended(how) == /\ pc' = "idle" /\ todo' = {} /\ hand' = NoItem
              /\ stage' = NoStage
              /\ outcome' = how

(* create_backup: the rows are dumped first, ...                           *)
BeginBackup ==
    /\ pc = "idle"
    /\ pc' = "dump"
    /\ todo' = Items
    /\ outcome' = "none"
    /\ begun' = Now
    /\ gone' = Deleting(rows, files)
    /\ UNCHANGED <<server, hand, stage, archive, old, failures>>

DumpRow(r) ==
    /\ pc = "dump" /\ r \in todo
    /\ todo' = todo \ {r}
    /\ stage' = [stage EXCEPT !.rows = IF r \in rows THEN @ \cup {r} ELSE @]
    /\ UNCHANGED <<server, pc, hand, archive, old, outcome, failures, begun, gone>>

(* Fault: the list is as old as the backup. *)
ListFilesAtStart ==
    /\ pc = "dump" /\ todo = {}
    /\ pc' = "copy"
    /\ todo' = Present(begun.files)
    /\ UNCHANGED <<server, hand, stage, archive, old, outcome, failures, begun,
                   gone>>

(* Fault: only the files of dumped rows are listed. *)
ListFilesOfRows ==
    /\ pc = "dump" /\ todo = {}
    /\ pc' = "copy"
    /\ todo' = Present(files) \cap stage.rows
    /\ UNCHANGED <<server, hand, stage, archive, old, outcome, failures, begun,
                   gone>>

(* ... then the files are listed, ...                                      *)
ListFiles ==
    /\ pc = "dump" /\ todo = {}
    /\ pc' = "copy"
    /\ todo' = Present(files)
    /\ UNCHANGED <<server, hand, stage, archive, old, outcome, failures, begun,
                   gone>>

(* ... copied and measured; a file that has gone ends the backup.          *)
CopyFile(r) ==
    /\ pc = "copy" /\ r \in todo
    /\ \/ /\ files[r] # 0
          /\ pc' = "stat"
          /\ hand' = r
          /\ todo' = todo \ {r}
          /\ stage' = [stage EXCEPT !.files[r] = files[r]]
          /\ UNCHANGED outcome
       \/ files[r] = 0 /\ Ended("error")
    /\ UNCHANGED <<server, archive, old, failures, begun, gone>>

StatFile ==
    /\ pc = "stat"
    /\ \/ /\ files[hand] # 0
          /\ pc' = "copy"
          /\ hand' = NoItem
          /\ stage' = [stage EXCEPT !.sizes[hand] = files[hand]]
          /\ UNCHANGED <<todo, outcome>>
       \/ files[hand] = 0 /\ Ended("error")
    /\ UNCHANGED <<server, archive, old, failures, begun, gone>>

(* The archive replaces the one at its destination and is then validated.  *)
Publish ==
    /\ pc = "copy" /\ todo = {}
    /\ pc' = "validate"
    /\ archive' = stage
    /\ stage' = NoStage
    /\ UNCHANGED <<server, todo, hand, old, outcome, failures, begun, gone>>

Valid(a) == a.files = a.sizes

Validate ==
    /\ pc = "validate"
    /\ Ended(IF Valid(archive) THEN "passed" ELSE "error")
    /\ UNCHANGED <<server, archive, old, failures, begun, gone>>

-----------------------------------------------------------------------------
(* restore_backup: the archive is validated again, ...                     *)
BeginRestore ==
    /\ pc = "idle" /\ ~serving /\ archive # NoArchive
    /\ \/ Valid(archive) /\ pc' = "keep" /\ outcome' = "none"
       \/ ~Valid(archive) /\ outcome' = "error" /\ UNCHANGED pc
    /\ begun' = Now
    /\ old' = Empty
    /\ failures' = 0
    /\ UNCHANGED <<server, todo, hand, stage, archive, gone>>

(* ... the rows are dumped for the rollback, ...                           *)
Keep ==
    /\ pc = "keep"
    /\ pc' = "aside"
    /\ old' = [old EXCEPT !.rows = rows]
    /\ UNCHANGED <<server, todo, hand, stage, archive, outcome, failures,
                   begun, gone>>

(* ... and the storage directory is copied aside.                          *)
SetAside ==
    /\ pc = "aside"
    /\ pc' = "wipe"
    /\ old' = [old EXCEPT !.files = files]
    /\ UNCHANGED <<server, todo, hand, stage, archive, outcome, failures,
                   begun, gone>>

content == <<used, saving, serving, hand, stage, archive, old, outcome,
             failures, begun, gone>>

(* The storage directory is emptied ...                                    *)
Wipe(from, to, F) ==
    /\ pc = from
    /\ pc' = to
    /\ files' = None
    /\ todo' = Present(F)
    /\ UNCHANGED <<rows, content>>

(* ... and filled, ...                                                     *)
Place(at, r, F) ==
    /\ pc = at /\ r \in todo
    /\ files' = [files EXCEPT ![r] = F[r]]
    /\ todo' = todo \ {r}
    /\ UNCHANGED <<rows, pc, content>>

(* Fault: the collections are not emptied. *)
DropNothing(from, to, R) ==
    /\ pc = from /\ todo = {}
    /\ pc' = to
    /\ todo' = R
    /\ UNCHANGED <<rows, files, content>>

(* ... the collections are dropped, and the documents inserted.            *)
Drop(from, to, R) ==
    /\ pc = from /\ todo = {}
    /\ pc' = to
    /\ rows' = {}
    /\ todo' = R
    /\ UNCHANGED <<files, content>>

Insert(at, r) ==
    /\ pc = at /\ r \in todo
    /\ rows' = rows \cup {r}
    /\ todo' = todo \ {r}
    /\ UNCHANGED <<files, pc, content>>

Done(at, how) ==
    /\ pc = at /\ todo = {}
    /\ Ended(how)
    /\ UNCHANGED <<server, archive, old, failures, begun, gone>>

Restore ==
    \/ Wipe("wipe", "place", archive.files)
    \/ \E r \in Items : Place("place", r, archive.files)
    \/ Drop("place", "insert", archive.rows)
    \/ \E r \in Items : Insert("insert", r)
    \/ Done("insert", "restored")

(* The except branch: the same with the copies, and the error is raised.   *)
Rollback ==
    \/ Wipe("unwipe", "unplace", old.files)
    \/ \E r \in Items : Place("unplace", r, old.files)
    \/ Drop("unplace", "uninsert", old.rows)
    \/ \E r \in Items : Insert("uninsert", r)
    \/ Done("uninsert", "failed")

Failed == failures < MaxFailures /\ failures' = failures + 1

(* A call raises inside the try block. The copy aside goes on to the other *)
(* files and raises at its end.                                            *)
FailRestore ==
    /\ Failed
    /\ pc \in {"aside", "wipe", "place", "insert"}
    /\ pc' = "unwipe"
    /\ todo' = {}
    /\ \/ /\ pc = "aside"
          /\ \E r \in Present(files) :
                old' = [old EXCEPT !.files = [files EXCEPT ![r] = 0]]
       \/ pc # "aside" /\ UNCHANGED old
    /\ UNCHANGED <<server, hand, stage, archive, outcome, begun, gone>>

(* A call raises before the try block or in the rollback.                  *)
FailOutside ==
    /\ Failed
    /\ pc \in {"keep", "unwipe", "unplace", "uninsert"}
    /\ Ended("error")
    /\ UNCHANGED <<server, archive, old, begun, gone>>

(* The tool is killed, or the machine stops.                               *)
Kill == /\ pc # "idle"
        /\ Ended("killed")
        /\ UNCHANGED <<server, archive, old, failures, begun, gone>>

Server == \/ \E r \in Items : \/ SaveFile(r) \/ SaveRow(r) \/ RewriteFile(r)
                             \/ DeleteFile(r) \/ DeleteRow(r)
          \/ StopServer \/ StartServer

Tool == \/ BeginBackup \/ ListFiles \/ StatFile \/ Publish \/ Validate
        \/ \E r \in Items : DumpRow(r) \/ CopyFile(r)
        \/ BeginRestore \/ Keep \/ SetAside \/ Restore \/ Rollback

Next == Server \/ Tool \/ FailRestore \/ FailOutside \/ Kill

Spec == Init /\ [][Next]_vars

-----------------------------------------------------------------------------
(* A row in an archive has its file there unless the item was deleted      *)
(* while the backup ran: saves, notes and deletions beside the backup      *)
(* produce no other report or capture that is listed and not loadable.     *)
ArchiveIsLoadable ==
    pc = "validate" => archive.rows \subseteq Present(archive.files) \cup gone

(* A backup during which nothing changed is the state of the system.       *)
QuietBackupIsExact ==
    outcome = "passed" /\ Now = begun
    => archive.rows = rows /\ archive.files = files

(* A restore that succeeds leaves the archive and nothing else. One that   *)
(* fails once, with the storage copied aside, leaves what was there.       *)
RestoredOrRolledBack ==
    /\ outcome = "restored" => rows = archive.rows /\ files = archive.files
    /\ outcome = "failed" /\ old.files = begun.files
          => rows = begun.rows /\ files = begun.files

-----------------------------------------------------------------------------
(* The parts of the inductive invariant that are not properties of their   *)
(* own. A save under way has its file and no row yet.                      *)
SavesHaveFiles ==
    \A r \in saving : files[r] # 0 /\ r \notin rows

(* Archives, stages and the copies aside hold items of the store, and the  *)
(* temporary directory is there while a backup fills it.                   *)
HoldsItems ==
    /\ stage.rows \subseteq used
    /\ pc \notin {"dump", "copy", "stat"} => stage = NoStage
    /\ archive # NoArchive => archive.rows \subseteq used
    /\ old.rows \subseteq used

(* The server rests while a restore runs, and until it is started again.   *)
ServerRests ==
    /\ Restoring \/ outcome \in {"restored", "failed"} =>
          ~serving /\ archive # NoArchive
    /\ ~serving => saving = {}
    /\ outcome # "none" => pc = "idle"
    /\ pc = "stat" <=> hand # NoItem

BackingUp == pc \in {"dump", "copy", "stat", "validate"}

(* A dumped row has its file: on disk, on the list of files to copy, or in *)
(* the stage; or the item was being deleted.                               *)
RowsHaveFiles ==
    /\ BackingUp => Deleting(rows, files) \subseteq gone
    /\ pc = "dump" => stage.rows \subseteq Present(files) \cup gone
    /\ pc \in {"copy", "stat"} =>
          stage.rows \subseteq Present(stage.files) \cup todo \cup gone
    /\ pc = "validate" => archive.rows \subseteq Present(archive.files) \cup gone

(* The life of an item: unused, a file without a row, a row with a file    *)
(* that is rewritten, a row without its file, neither.                     *)
Age(s, r) ==
    IF r \notin s.used THEN 0
    ELSE IF r \in s.rows THEN IF s.files[r] = 0 THEN MaxVersion + 2
                                               ELSE s.files[r] + 1
    ELSE IF s.files[r] = 0 THEN MaxVersion + 3 ELSE 1

(* An item is as it was when the tool began.                               *)
Unchanged(r) == /\ r \in used <=> r \in begun.used
                /\ r \in rows <=> r \in begun.rows
                /\ files[r] = begun.files[r]

(* While a backup runs, and until something else begins, an item that has  *)
(* changed never again is what it was; what was read of one that has not   *)
(* changed is what it is.                                                  *)
ReadsAreCurrent ==
    /\ BackingUp \/ outcome = "passed" =>
          \A r \in Items : Unchanged(r) \/ Age(Now, r) > Age(begun, r)
    /\ pc = "dump" => /\ stage.files = None /\ stage.rows \cap todo = {}
                      /\ \A r \in Items \ todo : Unchanged(r) =>
                            (r \in stage.rows <=> r \in rows)
    /\ pc \in {"copy", "stat"} => \A r \in Items : Unchanged(r) =>
          /\ r \in stage.rows <=> r \in rows
          /\ r \notin todo => stage.files[r] = files[r]
    /\ pc = "validate" \/ outcome = "passed" =>
          /\ archive # NoArchive
          /\ \A r \in Items : Unchanged(r) =>
                /\ r \in archive.rows <=> r \in rows
                /\ archive.files[r] = files[r]

(* What a loop of the restore has done so far is as in the archive, and    *)
(* what one of the rollback has done as in the copies.                     *)
LoopsFollow ==
    /\ pc = "place" => \A r \in Items \ todo : files[r] = archive.files[r]
    /\ pc = "insert" => /\ files = archive.files
                        /\ todo \subseteq archive.rows
                        /\ rows = archive.rows \ todo
    /\ pc = "unplace" => \A r \in Items \ todo : files[r] = old.files[r]
    /\ pc = "uninsert" => /\ files = old.files
                          /\ todo \subseteq old.rows
                          /\ rows = old.rows \ todo
    /\ pc \in {"keep", "aside", "wipe"} => rows = begun.rows /\ files = begun.files
    /\ Restoring /\ pc # "keep" => old.rows = begun.rows
    /\ outcome = "failed" => /\ old.rows = begun.rows
                             /\ rows = old.rows /\ files = old.files

BackupInv ==
    /\ BackupTypeOK
    /\ SavesHaveFiles
    /\ HoldsItems
    /\ ServerRests
    /\ RowsHaveFiles
    /\ ReadsAreCurrent
    /\ LoopsFollow
    /\ RestoredOrRolledBack

-----------------------------------------------------------------------------
(* "attempts rollback of prior local state if restoration raises an error" *)
(* (backend/reference/backup_restore.md:23): a rollback that ends without  *)
(* an error of its own leaves the prior state.                             *)
RollbackRestores ==
    outcome = "failed" => rows = begun.rows /\ files = begun.files
=============================================================================
