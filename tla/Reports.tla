-------------------------------- MODULE Reports --------------------------------
(***************************************************************************)
(* Saved reports: a metadata row in MongoDB and a JSON file for each       *)
(* (backend/auth/report_store.py), changed in separate steps by request    *)
(* threads that hold no common lock, and the copies of the analyst's notes *)
(* that browsers keep (frontend/src/app/App.tsx: React state and           *)
(* localStorage). A browser sends all the notes it shows with every edit   *)
(* and does not wait for the answer.                                       *)
(*                                                                         *)
(* A step is one database command or one file-system effect; files are     *)
(* replaced atomically. A report is identified by its id, which is new for *)
(* every analysis. What a file holds is its notes; section notes, entity   *)
(* notes and overrides are treated alike by the code and are one set.      *)
(***************************************************************************)
EXTENDS Naturals, FiniteSets

CONSTANTS Threads,   \* threads of the server that use the store
          ReportIds, \* report ids
          Devices,   \* browsers
          Notes,     \* notes an analyst may write
          MaxSends,  \* bound of the model: edits of all browsers together
          NoReport,  \* no report in hand, or open
          Nobody     \* no browser

Request == [number : 1..MaxSends, id : ReportIds, notes : SUBSET Notes]

ASSUME ReportIdsAssumption == NoReport \notin ReportIds
ASSUME NobodyAssumption == Nobody \notin Devices
ASSUME MaxSendsAssumption == MaxSends \in Nat

VARIABLES
    reportRows,   \* reports in the collection
    reportFiles,  \* reports whose file is on disk
    disk,         \* the notes in the file
    saved,        \* reports whose save has begun: an id is used once
    reportPc,     \* where a thread is in an operation
    reportHand,   \* the report it works on
    body,         \* the notes of the request it serves
    caller,       \* the browser it loads a report for
    open,         \* the report a browser shows
    shown,        \* the notes a browser shows
    kept,         \* the notes in its localStorage, per report
    flight,       \* notes requests sent and not taken up by a thread yet
    sent,         \* notes requests sent so far
    deletedReports,         \* history: reports whose row was deleted
    crashed,      \* history: the server was stopped or crashed, or a deletion
                  \* failed between the file and the row
    editor,       \* history: the browser that edited a report last
    serial,       \* history: no two notes requests overlapped
    lossless      \* history: no notes request was lost

store == <<reportRows, reportFiles, disk, saved>>
thread == <<reportPc, reportHand, body, caller>>
browser == <<open, shown, kept>>
noteHistory == <<deletedReports, crashed, editor, serial, lossless>>
reportsVars == <<store, thread, browser, flight, sent, noteHistory>>

ReportSteps == {"idle", "upsert", "reload", "notes", "read", "replace", "stamp",
                "open", "load", "title", "retitle", "lookup", "unlink", "delete"}

ReportsTypeOK ==
    /\ reportRows \in SUBSET saved
    /\ reportFiles \in SUBSET saved
    /\ disk \in [ReportIds -> SUBSET Notes]
    /\ saved \in SUBSET ReportIds
    /\ reportPc \in [Threads -> ReportSteps]
    /\ reportHand \in [Threads -> saved \cup {NoReport}]
    /\ body \in [Threads -> SUBSET Notes]
    /\ caller \in [Threads -> Devices \cup {Nobody}]
    /\ open \in [Devices -> saved \cup {NoReport}]
    /\ shown \in [Devices -> SUBSET Notes]
    /\ kept \in [Devices -> [ReportIds -> SUBSET Notes]]
    /\ flight \in SUBSET Request
    /\ sent \in 0..MaxSends
    /\ deletedReports \in SUBSET saved
    /\ crashed \in BOOLEAN
    /\ editor \in [ReportIds -> Devices \cup {Nobody}]
    /\ serial \in BOOLEAN
    /\ lossless \in BOOLEAN

ReportsInit ==
    /\ reportRows = {} /\ reportFiles = {} /\ saved = {}
    /\ disk = [r \in ReportIds |-> {}]
    /\ reportPc = [c \in Threads |-> "idle"]
    /\ reportHand = [c \in Threads |-> NoReport]
    /\ body = [c \in Threads |-> {}]
    /\ caller = [c \in Threads |-> Nobody]
    /\ open = [d \in Devices |-> NoReport]
    /\ shown = [d \in Devices |-> {}]
    /\ kept = [d \in Devices |-> [r \in ReportIds |-> {}]]
    /\ flight = {} /\ sent = 0
    /\ deletedReports = {} /\ crashed = FALSE
    /\ editor = [r \in ReportIds |-> Nobody]
    /\ serial = TRUE
    /\ lossless = TRUE

-----------------------------------------------------------------------------
(* Threads.                                                                *)

ReportGoto(c, from, to) == reportPc[c] = from /\ reportPc' = [reportPc EXCEPT ![c] = to]

BeginRequest(c, r, to) == /\ ReportGoto(c, "idle", to)
                          /\ reportHand' = [reportHand EXCEPT ![c] = r]

FinishRequest(c, from) == /\ ReportGoto(c, from, "idle")
                          /\ reportHand' = [reportHand EXCEPT ![c] = NoReport]
                          /\ body' = [body EXCEPT ![c] = {}]
                          /\ caller' = [caller EXCEPT ![c] = Nobody]

ContinueRequest(c, from, to) == /\ ReportGoto(c, from, to)
                                /\ UNCHANGED <<reportHand, body, caller>>

(* A lookup in the collection or on disk: go on, or answer "not found". *)
Find(c, there, from, to) ==
    /\ \/ reportHand[c] \in there /\ ContinueRequest(c, from, to)
       \/ reportHand[c] \notin there /\ FinishRequest(c, from)
    /\ UNCHANGED <<store, browser, flight, sent, noteHistory>>

(* The client names a report it has seen. *)
BeginOn(c, r, to) == /\ r \in saved
                     /\ BeginRequest(c, r, to)
                     /\ UNCHANGED <<store, body, caller, browser, flight, sent,
                                    noteHistory>>

(* save: the file first, then the row, which is then read again.           *)
WriteReport(c, r) ==
    /\ r \notin saved
    /\ BeginRequest(c, r, "upsert")
    /\ reportFiles' = reportFiles \cup {r}
    /\ saved' = saved \cup {r}
    /\ UNCHANGED <<reportRows, disk, body, caller, browser, flight, sent, noteHistory>>

UpsertRow(c) ==
    /\ ContinueRequest(c, "upsert", "reload")
    /\ reportRows' = reportRows \cup {reportHand[c]}
    /\ UNCHANGED <<reportFiles, disk, saved, browser, flight, sent, noteHistory>>

ReloadReport(c) == /\ FinishRequest(c, "reload")
                   /\ UNCHANGED <<store, browser, flight, sent, noteHistory>>

(* rename: the row is looked up, changed, and read again.                  *)
BeginRename(c, r) == BeginOn(c, r, "title")
FindForRename(c) == Find(c, reportRows, "title", "retitle")
Retitle(c) == /\ ContinueRequest(c, "retitle", "reload")
              /\ UNCHANGED <<store, browser, flight, sent, noteHistory>>

(* delete: the row is looked up, the file goes, the row goes.              *)
BeginReportDelete(c, r) == BeginOn(c, r, "lookup")
FindForDelete(c) == Find(c, reportRows, "lookup", "unlink")

UnlinkReport(c) ==
    /\ ContinueRequest(c, "unlink", "delete")
    /\ reportFiles' = reportFiles \ {reportHand[c]}
    /\ disk' = [disk EXCEPT ![reportHand[c]] = {}]
    /\ UNCHANGED <<reportRows, saved, browser, flight, sent, noteHistory>>

DeleteReportRow(c) ==
    /\ FinishRequest(c, "delete")
    /\ reportRows' = reportRows \ {reportHand[c]}
    /\ deletedReports' = deletedReports \cup {reportHand[c]}
    /\ UNCHANGED <<reportFiles, disk, saved, browser, flight, sent, crashed, editor,
                   serial, lossless>>

(* load for a browser: the row, then the file; the browser lays its own    *)
(* copy over the notes of the file.                                        *)
BeginLoad(c, r, d) ==
    /\ r \in saved
    /\ BeginRequest(c, r, "open")
    /\ caller' = [caller EXCEPT ![c] = d]
    /\ UNCHANGED <<store, body, browser, flight, sent, noteHistory>>

FindForLoad(c) == Find(c, reportRows, "open", "load")

Show(d, r, N) == /\ open' = [open EXCEPT ![d] = r]
                 /\ shown' = [shown EXCEPT ![d] = N]
                 /\ UNCHANGED kept

LoadFile(c) ==
    /\ FinishRequest(c, "load")
    /\ \/ /\ reportHand[c] \in reportFiles
          /\ Show(caller[c], reportHand[c],
                  disk[reportHand[c]] \cup kept[caller[c]][reportHand[c]])
       \/ reportHand[c] \notin reportFiles /\ UNCHANGED browser
    /\ UNCHANGED <<store, flight, sent, noteHistory>>

-----------------------------------------------------------------------------
(* Notes in the browser.                                                   *)

Serving(c) == reportPc[c] \in {"notes", "read", "replace"}

(* syncReportNotes; the promise is not awaited.                            *)
Sync(d, N) ==
    /\ sent < MaxSends
    /\ sent' = sent + 1
    /\ flight' = flight \cup {[number |-> sent', id |-> open[d], notes |-> N]}
    /\ serial' = (serial /\ flight = {} /\ \A c \in Threads : ~Serving(c))

Edit(d, N) ==
    /\ open[d] # NoReport
    /\ N # shown[d]
    /\ shown' = [shown EXCEPT ![d] = N]
    /\ kept' = [kept EXCEPT ![d][open[d]] = N]
    /\ editor' = [editor EXCEPT ![open[d]] = d]
    /\ UNCHANGED <<store, thread, open, deletedReports, crashed, lossless>>

(* Fault: the request carries the state before the edit. *)
WriteStale(d, n) == Edit(d, shown[d] \cup {n}) /\ Sync(d, shown[d])

(* saveSectionNotes, saveEntityNote, saveEntityOverrides.                  *)
Write(d, n) == Edit(d, shown[d] \cup {n}) /\ Sync(d, shown[d] \cup {n})

(* deleteSectionNotes, deleteEntityNote, or an empty note saved.           *)
Erase(d, n) == Edit(d, shown[d] \ {n}) /\ Sync(d, shown[d] \ {n})

(* The request fails on the way or at the server; the error is dropped.    *)
Lose(m) == /\ flight' = flight \ {m}
           /\ lossless' = FALSE
           /\ UNCHANGED <<store, thread, browser, sent, deletedReports, crashed, editor,
                          serial>>

(* update_notes: the row, the file, the file replaced with the notes of    *)
(* the request in the place of the old ones, the row stamped.              *)
TakeNotes(c, m) ==
    /\ BeginRequest(c, m.id, "notes")
    /\ body' = [body EXCEPT ![c] = m.notes]
    /\ flight' = flight \ {m}
    /\ UNCHANGED <<store, caller, browser, sent, noteHistory>>

FindForNotes(c) == Find(c, reportRows, "notes", "read")
ReadForNotes(c) == Find(c, reportFiles, "read", "replace")

ReplaceFile(c) ==
    /\ ContinueRequest(c, "replace", "stamp")
    /\ reportFiles' = reportFiles \cup {reportHand[c]}
    /\ disk' = [disk EXCEPT ![reportHand[c]] = body[c]]
    /\ UNCHANGED <<reportRows, saved, browser, flight, sent, noteHistory>>

(* Fault: the stamp is an upsert. *)
UpsertStamp(c) == /\ FinishRequest(c, "stamp")
                  /\ reportRows' = reportRows \cup {reportHand[c]}
                  /\ UNCHANGED <<reportFiles, disk, saved, browser, flight, sent,
                                 noteHistory>>

StampRow(c) == /\ FinishRequest(c, "stamp")
               /\ UNCHANGED <<store, browser, flight, sent, noteHistory>>

-----------------------------------------------------------------------------
(* A database command or a file operation fails, and with it the request;  *)
(* a notes request that fails is lost, and a deletion that has taken the   *)
(* file leaves the row.                                                    *)
RaiseInRequest(c) ==
    /\ reportPc[c] # "idle"
    /\ FinishRequest(c, reportPc[c])
    /\ crashed' = (crashed \/ reportPc[c] = "delete")
    /\ lossless' = (lossless /\ ~Serving(c))
    /\ UNCHANGED <<store, browser, flight, sent, deletedReports, editor, serial>>

(* The server process ends and is started again; what is on disk and in    *)
(* the database remains, and requests under way are lost.                  *)
ReportsCrash == /\ reportPc' = [c \in Threads |-> "idle"]
                /\ reportHand' = [c \in Threads |-> NoReport]
                /\ body' = [c \in Threads |-> {}]
                /\ caller' = [c \in Threads |-> Nobody]
                /\ crashed' = TRUE
                /\ lossless' = FALSE
                /\ UNCHANGED <<store, browser, flight, sent, deletedReports, editor, serial>>

Start(c) == \/ \E r \in ReportIds : \/ WriteReport(c, r) \/ BeginRename(c, r)
                                    \/ BeginReportDelete(c, r)
                              \/ \E d \in Devices : BeginLoad(c, r, d)
            \/ \E m \in flight : TakeNotes(c, m)

Proceed(c) == \/ UpsertRow(c) \/ ReloadReport(c)
              \/ FindForRename(c) \/ Retitle(c)
              \/ FindForDelete(c) \/ UnlinkReport(c) \/ DeleteReportRow(c)
              \/ FindForLoad(c) \/ LoadFile(c)
              \/ FindForNotes(c) \/ ReadForNotes(c) \/ ReplaceFile(c) \/ StampRow(c)
              \/ RaiseInRequest(c)

ReportsNext == \/ \E c \in Threads : Start(c) \/ Proceed(c)
               \/ \E d \in Devices, n \in Notes : Write(d, n) \/ Erase(d, n)
               \/ \E m \in flight : Lose(m)
               \/ ReportsCrash

ReportsSpec == ReportsInit /\ [][ReportsNext]_reportsVars

-----------------------------------------------------------------------------
(* A report that is listed can be loaded: until the process crashes or a   *)
(* deletion fails half-way, a row has its file unless a deletion is        *)
(* between its two steps; notes that are saved while the report is deleted *)
(* do not change that. And a report that was deleted is never listed       *)
(* again, whatever saves, notes and renames were under way when it was     *)
(* deleted, and whatever fails or crashes.                                 *)
ListedIsLoadable ==
    /\ ~crashed => \A r \in reportRows \ reportFiles :
                       \E c \in Threads : reportPc[c] = "delete" /\ reportHand[c] = r
    /\ reportRows \cap deletedReports = {}

Settled == flight = {} /\ \A c \in Threads : ~Serving(c)

(* When notes requests were served one at a time and none was lost, the    *)
(* file of a listed report holds the notes of the browser that edited it   *)
(* last. And a browser never shows less than its own copy: notes whose     *)
(* request was lost, delayed or overwritten come back with the report.     *)
NotesPersist ==
    /\ serial /\ lossless /\ Settled =>
         \A r \in reportRows \cap reportFiles :
             editor[r] # Nobody => disk[r] = kept[editor[r]][r]
    /\ \A d \in Devices : open[d] # NoReport => kept[d][open[d]] \subseteq shown[d]

(* The parts of the inductive invariant that are not properties of their   *)
(* own. A report that was listed at some time: its row will not come back  *)
(* when it is deleted.                                                     *)
Listed == reportRows \cup deletedReports

(* The report of a save is not listed before its row is written, its file  *)
(* is there, and no other thread saves it.                                 *)
SavesAreNew ==
    \A c \in Threads : reportPc[c] = "upsert" =>
        /\ reportHand[c] \in reportFiles
        /\ reportHand[c] \notin Listed
        /\ \A d \in Threads :
              reportPc[d] = "upsert" /\ reportHand[d] = reportHand[c] => d = c

(* Requests name saved reports; those that found a row, and what browsers  *)
(* do with a report they show, name reports that were listed.              *)
RequestsNameReports ==
    /\ \A c \in Threads :
          /\ reportPc[c] # "idle" => reportHand[c] # NoReport
          /\ reportPc[c] \in {"open", "load"} => caller[c] \in Devices
          /\ reportPc[c] \in {"unlink", "delete", "load", "notes", "read", "replace"}
                => reportHand[c] \in Listed
    /\ \A d \in Devices : open[d] # NoReport => open[d] \in Listed
    /\ \A m \in flight : m.id \in Listed
    /\ \A r \in ReportIds : editor[r] # Nobody => r \in Listed

(* A notes request under way for a report.                                 *)
Pending(r) == \/ \E m \in flight : m.id = r
              \/ \E c \in Threads : Serving(c) /\ reportHand[c] = r

(* As long as requests were served one at a time and none was lost, what   *)
(* is under way, or else the file, has the notes of the last editor.       *)
LastEdit(r) == kept[editor[r]][r]

NotesOnTheirWay ==
    serial /\ lossless =>
        /\ \A m \in flight : editor[m.id] # Nobody /\ m.notes = LastEdit(m.id)
        /\ \A c \in Threads : Serving(c) =>
              editor[reportHand[c]] # Nobody /\ body[c] = LastEdit(reportHand[c])
        /\ \A r \in reportRows \cap reportFiles :
              editor[r] # Nobody => Pending(r) \/ disk[r] = LastEdit(r)

ReportsInv ==
    /\ ReportsTypeOK
    /\ ListedIsLoadable
    /\ NotesPersist
    /\ SavesAreNew
    /\ RequestsNameReports
    /\ NotesOnTheirWay
=============================================================================
