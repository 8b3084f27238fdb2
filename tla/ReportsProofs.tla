---------------------------- MODULE ReportsProofs ----------------------------
(***************************************************************************)
(* Proofs about Reports, for any number of reports, threads, browsers,     *)
(* notes and edits. ReportsInv is inductive.                               *)
(***************************************************************************)
EXTENDS Reports, TLAPS

(* A report that was listed has been saved. *)
LEMMA ListedIsSaved == ReportsTypeOK => Listed \in SUBSET saved
  BY DEF ReportsTypeOK, Listed

(* Types.                                                                  *)
LEMMA ReportsTypeStep ==
    ASSUME ReportsInv, [ReportsNext]_reportsVars
    PROVE  ReportsTypeOK'
<1> USE ReportIdsAssumption, NobodyAssumption, MaxSendsAssumption
    DEF ReportsInv, ReportsTypeOK, RequestsNameReports, Listed, ReportSteps,
        ReportGoto, BeginRequest, FinishRequest, ContinueRequest, Find, BeginOn,
        store, thread, browser, noteHistory
<1>1. ASSUME NEW c \in Threads, Start(c)
      PROVE  ReportsTypeOK'
  <2>1. ASSUME NEW r \in ReportIds, WriteReport(c, r) PROVE ReportsTypeOK'
    BY <2>1 DEF WriteReport
  <2>2. ASSUME NEW r \in ReportIds, NEW to \in {"title", "lookup"},
               BeginOn(c, r, to)
        PROVE  ReportsTypeOK'
    BY <2>2
  <2>3. ASSUME NEW r \in ReportIds, NEW d \in Devices, BeginLoad(c, r, d)
        PROVE  ReportsTypeOK'
    BY <2>3 DEF BeginLoad
  <2>4. ASSUME NEW m \in flight, TakeNotes(c, m) PROVE ReportsTypeOK'
    BY <2>4 DEF TakeNotes, Request
  <2> QED
    BY <1>1, <2>1, <2>2, <2>3, <2>4 DEF Start, BeginRename, BeginReportDelete
<1>2. ASSUME NEW c \in Threads, Proceed(c)
      PROVE  ReportsTypeOK'
  <2>1. CASE UpsertRow(c)
    BY <2>1 DEF UpsertRow
  <2>2. CASE ReloadReport(c) \/ StampRow(c) \/ Retitle(c)
    BY <2>2 DEF ReloadReport, StampRow, Retitle
  <2>3. CASE FindForRename(c) \/ FindForDelete(c) \/ FindForLoad(c)
             \/ FindForNotes(c) \/ ReadForNotes(c)
    BY <2>3 DEF FindForRename, FindForDelete, FindForLoad, FindForNotes,
                ReadForNotes
  <2>4. CASE UnlinkReport(c)
    BY <2>4 DEF UnlinkReport
  <2>5. CASE DeleteReportRow(c)
    BY <2>5 DEF DeleteReportRow
  <2>6. CASE LoadFile(c)
    <3>1. caller[c] \in Devices /\ reportHand[c] \in ReportIds
      BY <2>6 DEF LoadFile
    <3>2. UNCHANGED <<open, shown, kept>> \/
            /\ open' = [open EXCEPT ![caller[c]] = reportHand[c]]
            /\ shown' = [shown EXCEPT ![caller[c]] =
                   disk[reportHand[c]] \cup kept[caller[c]][reportHand[c]]]
            /\ UNCHANGED kept
      BY <2>6 DEF LoadFile, Show
    <3>3. disk[reportHand[c]] \cup kept[caller[c]][reportHand[c]] \in SUBSET Notes
      BY <3>1
    <3>4. /\ open' \in [Devices -> saved \cup {NoReport}]
          /\ shown' \in [Devices -> SUBSET Notes]
      BY <3>1, <3>2, <3>3
    <3> QED
      BY <2>6, <3>2, <3>4 DEF LoadFile
  <2>7. CASE ReplaceFile(c)
    BY <2>7 DEF ReplaceFile
  <2>8. CASE RaiseInRequest(c)
    BY <2>8 DEF RaiseInRequest
  <2> QED
    BY <1>2, <2>1, <2>2, <2>3, <2>4, <2>5, <2>6, <2>7, <2>8 DEF Proceed
<1>3. ASSUME NEW d \in Devices, NEW N \in SUBSET Notes, Edit(d, N), Sync(d, N)
      PROVE  ReportsTypeOK'
  <2>1. open[d] \in ReportIds
    BY <1>3 DEF Edit
  <2>2. sent' \in 1..MaxSends /\ flight' \in SUBSET Request
    BY <1>3, <2>1 DEF Sync, Request
  <2>3. /\ shown' \in [Devices -> SUBSET Notes]
        /\ editor' \in [ReportIds -> Devices \cup {Nobody}]
    BY <1>3, <2>1 DEF Edit
  <2>4. kept' \in [Devices -> [ReportIds -> SUBSET Notes]]
    BY <1>3, <2>1 DEF Edit
  <2> QED
    BY <1>3, <2>2, <2>3, <2>4 DEF Edit, Sync
<1>4. ASSUME NEW m \in flight, Lose(m)
      PROVE  ReportsTypeOK'
  BY <1>4 DEF Lose
<1>5. CASE ReportsCrash
  BY <1>5 DEF ReportsCrash
<1>6. CASE UNCHANGED reportsVars
  BY <1>6 DEF reportsVars
<1> QED
  BY <1>1, <1>2, <1>3, <1>4, <1>5, <1>6 DEF ReportsNext, Write, Erase

(* An edit changes the notes of a report to other notes, and sends them.   *)
LEMMA EditCases ==
    ASSUME ReportsTypeOK, NEW d \in Devices, NEW n \in Notes,
           Write(d, n) \/ Erase(d, n)
    PROVE  \E N \in SUBSET Notes : Edit(d, N) /\ Sync(d, N)
<1>1. shown[d] \cup {n} \in SUBSET Notes /\ shown[d] \ {n} \in SUBSET Notes
  BY DEF ReportsTypeOK
<1> QED
  BY <1>1 DEF Write, Erase

-----------------------------------------------------------------------------
(* What is saved, listed and deleted. *)

(* A request that ends leaves the store alone, be it that it is done or    *)
(* that it has failed.                                                     *)
LEMMA FinishKeepsListing ==
    ASSUME ReportsInv, NEW c \in Threads, FinishRequest(c, reportPc[c]),
           crashed \/ reportPc[c] = "delete" => crashed',
           UNCHANGED <<store, browser, flight, sent, deletedReports, editor>>
    PROVE  SavesAreNew' /\ RequestsNameReports' /\ ListedIsLoadable'
<1> USE DEF ReportsInv, ReportsTypeOK, SavesAreNew, RequestsNameReports,
        ListedIsLoadable, Listed, ReportSteps, ReportGoto, BeginRequest,
        FinishRequest, ContinueRequest, Find, BeginOn, store, thread, browser,
        noteHistory
<1>1. \A d \in Threads : d # c => /\ reportPc'[d] = reportPc[d]
                                /\ reportHand'[d] = reportHand[d]
                                /\ caller'[d] = caller[d]
  OBVIOUS
<1>2. reportPc'[c] = "idle"
  OBVIOUS
<1>3. SavesAreNew'
  BY <1>1, <1>2
<1>4. RequestsNameReports'
  BY <1>1, <1>2
<1>5. ListedIsLoadable'
  BY <1>1, <1>2
<1> QED
  BY <1>3, <1>4, <1>5

(* A save is of a report that nobody has listed or deleted, and requests   *)
(* of browsers are about reports that were listed.                         *)
LEMMA ListingStep ==
    ASSUME ReportsInv, [ReportsNext]_reportsVars
    PROVE  SavesAreNew' /\ RequestsNameReports' /\ ListedIsLoadable'
<1>0. ReportsTypeOK
  BY DEF ReportsInv
<1> USE ReportIdsAssumption, NobodyAssumption
    DEF ReportsInv, ReportsTypeOK, SavesAreNew, RequestsNameReports,
        ListedIsLoadable, Listed, ReportSteps, ReportGoto, BeginRequest,
        FinishRequest, ContinueRequest, Find, BeginOn, store, thread, browser,
        noteHistory
<1>1. ASSUME NEW c \in Threads, NEW r \in ReportIds, WriteReport(c, r)
      PROVE  SavesAreNew' /\ RequestsNameReports' /\ ListedIsLoadable'
  BY <1>1 DEF WriteReport
<1>2. ASSUME NEW c \in Threads, NEW r \in ReportIds,
             NEW to \in {"title", "lookup"}, BeginOn(c, r, to)
      PROVE  SavesAreNew' /\ RequestsNameReports' /\ ListedIsLoadable'
  BY <1>2
<1>3. ASSUME NEW c \in Threads, NEW r \in ReportIds, NEW d \in Devices,
             BeginLoad(c, r, d)
      PROVE  SavesAreNew' /\ RequestsNameReports' /\ ListedIsLoadable'
  BY <1>3 DEF BeginLoad
<1>4. ASSUME NEW c \in Threads, NEW m \in flight, TakeNotes(c, m)
      PROVE  SavesAreNew' /\ RequestsNameReports' /\ ListedIsLoadable'
  BY <1>4 DEF TakeNotes
<1>5. ASSUME NEW c \in Threads, UpsertRow(c)
      PROVE  SavesAreNew' /\ RequestsNameReports' /\ ListedIsLoadable'
  BY <1>5 DEF UpsertRow
<1>6. ASSUME NEW c \in Threads, ReloadReport(c) \/ StampRow(c)
      PROVE  SavesAreNew' /\ RequestsNameReports' /\ ListedIsLoadable'
  BY <1>6, FinishKeepsListing DEF ReloadReport, StampRow
<1>7. ASSUME NEW c \in Threads, Retitle(c)
      PROVE  SavesAreNew' /\ RequestsNameReports' /\ ListedIsLoadable'
  BY <1>7 DEF Retitle
<1>8. ASSUME NEW c \in Threads, FindForRename(c) \/ FindForDelete(c)
      PROVE  SavesAreNew' /\ RequestsNameReports' /\ ListedIsLoadable'
  <2>1. CASE FinishRequest(c, reportPc[c])
    BY <1>8, <2>1, FinishKeepsListing DEF FindForRename, FindForDelete
  <2>2. CASE reportPc'[c] # "idle"
    BY <1>8, <2>2 DEF FindForRename, FindForDelete
  <2> QED
    BY <1>8, <2>1, <2>2 DEF FindForRename, FindForDelete
<1>9. ASSUME NEW c \in Threads, FindForLoad(c)
      PROVE  SavesAreNew' /\ RequestsNameReports' /\ ListedIsLoadable'
  <2>1. CASE FinishRequest(c, reportPc[c])
    BY <1>9, <2>1, FinishKeepsListing DEF FindForLoad
  <2>2. CASE reportPc'[c] # "idle"
    BY <1>9, <2>2 DEF FindForLoad
  <2> QED
    BY <1>9, <2>1, <2>2 DEF FindForLoad
<1>10. ASSUME NEW c \in Threads, FindForNotes(c)
      PROVE  SavesAreNew' /\ RequestsNameReports' /\ ListedIsLoadable'
  <2>1. CASE FinishRequest(c, reportPc[c])
    BY <1>10, <2>1, FinishKeepsListing DEF FindForNotes
  <2>2. CASE reportPc'[c] # "idle"
    BY <1>10, <2>2 DEF FindForNotes
  <2> QED
    BY <1>10, <2>1, <2>2 DEF FindForNotes
<1>11. ASSUME NEW c \in Threads, ReadForNotes(c)
      PROVE  SavesAreNew' /\ RequestsNameReports' /\ ListedIsLoadable'
  <2>1. CASE FinishRequest(c, reportPc[c])
    BY <1>11, <2>1, FinishKeepsListing DEF ReadForNotes
  <2>2. CASE reportPc'[c] # "idle"
    BY <1>11, <2>2 DEF ReadForNotes
  <2> QED
    BY <1>11, <2>1, <2>2 DEF ReadForNotes
<1>12. ASSUME NEW c \in Threads, UnlinkReport(c)
      PROVE  SavesAreNew' /\ RequestsNameReports' /\ ListedIsLoadable'
  BY <1>12 DEF UnlinkReport
<1>13. ASSUME NEW c \in Threads, DeleteReportRow(c)
      PROVE  SavesAreNew' /\ RequestsNameReports' /\ ListedIsLoadable'
  BY <1>13 DEF DeleteReportRow
<1>14. ASSUME NEW c \in Threads, LoadFile(c)
      PROVE  SavesAreNew' /\ RequestsNameReports' /\ ListedIsLoadable'
  BY <1>14 DEF LoadFile, Show
<1>15. ASSUME NEW c \in Threads, ReplaceFile(c)
      PROVE  SavesAreNew' /\ RequestsNameReports' /\ ListedIsLoadable'
  BY <1>15 DEF ReplaceFile
<1>16. ASSUME NEW d \in Devices, NEW N \in SUBSET Notes, Edit(d, N), Sync(d, N)
      PROVE  SavesAreNew' /\ RequestsNameReports' /\ ListedIsLoadable'
  BY <1>16 DEF Edit, Sync
<1>17. ASSUME NEW m \in flight, Lose(m)
      PROVE  SavesAreNew' /\ RequestsNameReports' /\ ListedIsLoadable'
  BY <1>17 DEF Lose
<1>20. ASSUME NEW c \in Threads, RaiseInRequest(c)
      PROVE  SavesAreNew' /\ RequestsNameReports' /\ ListedIsLoadable'
  <2>1. /\ FinishRequest(c, reportPc[c])
        /\ crashed \/ reportPc[c] = "delete" => crashed'
        /\ UNCHANGED <<store, browser, flight, sent, deletedReports, editor>>
    BY <1>20 DEF RaiseInRequest
  <2> HIDE DEF ReportsInv, FinishRequest, store, browser
  <2> QED
    BY <2>1, FinishKeepsListing
<1>18. CASE ReportsCrash
  BY <1>18 DEF ReportsCrash
<1>19. CASE UNCHANGED reportsVars
  BY <1>19 DEF reportsVars
<1> HIDE DEF ReportsInv, ReportsTypeOK, SavesAreNew, RequestsNameReports,
             ListedIsLoadable, BeginOn, Find
<1> QED
  BY EditCases, <1>0, <1>1, <1>2, <1>3, <1>4, <1>5, <1>6, <1>7,
     <1>8, <1>9, <1>10, <1>11, <1>12, <1>13,
     <1>14, <1>15, <1>16, <1>17, <1>18, <1>19, <1>20
  DEF ReportsNext, Start, Proceed, BeginRename, BeginReportDelete

(* A browser never shows less than its own copy.                           *)
LEMMA OwnCopyStep ==
    ASSUME ReportsInv, [ReportsNext]_reportsVars, NEW b \in Devices,
           open'[b] # NoReport
    PROVE  kept'[b][open'[b]] \subseteq shown'[b]
<1>0. ReportsTypeOK
  BY DEF ReportsInv
<1> USE DEF ReportsInv, ReportsTypeOK, NotesPersist, store, thread, browser,
            noteHistory, BeginOn, Find
<1>1. ASSUME NEW c \in Threads, NEW r \in ReportIds, WriteReport(c, r)
      PROVE  kept'[b][open'[b]] \subseteq shown'[b]
  BY <1>1 DEF WriteReport
<1>2. ASSUME NEW c \in Threads, NEW r \in ReportIds,
             NEW to \in {"title", "lookup"}, BeginOn(c, r, to)
      PROVE  kept'[b][open'[b]] \subseteq shown'[b]
  BY <1>2
<1>3. ASSUME NEW c \in Threads, NEW r \in ReportIds, NEW d \in Devices,
             BeginLoad(c, r, d)
      PROVE  kept'[b][open'[b]] \subseteq shown'[b]
  BY <1>3 DEF BeginLoad
<1>4. ASSUME NEW c \in Threads, NEW m \in flight, TakeNotes(c, m)
      PROVE  kept'[b][open'[b]] \subseteq shown'[b]
  BY <1>4 DEF TakeNotes
<1>5. ASSUME NEW c \in Threads, UpsertRow(c)
      PROVE  kept'[b][open'[b]] \subseteq shown'[b]
  BY <1>5 DEF UpsertRow
<1>6. ASSUME NEW c \in Threads, ReloadReport(c) \/ StampRow(c)
      PROVE  kept'[b][open'[b]] \subseteq shown'[b]
  BY <1>6 DEF ReloadReport, StampRow
<1>7. ASSUME NEW c \in Threads, Retitle(c)
      PROVE  kept'[b][open'[b]] \subseteq shown'[b]
  BY <1>7 DEF Retitle
<1>8. ASSUME NEW c \in Threads, FindForRename(c) \/ FindForDelete(c)
      PROVE  kept'[b][open'[b]] \subseteq shown'[b]
  BY <1>8 DEF FindForRename, FindForDelete
<1>9. ASSUME NEW c \in Threads, FindForLoad(c)
      PROVE  kept'[b][open'[b]] \subseteq shown'[b]
  BY <1>9 DEF FindForLoad
<1>10. ASSUME NEW c \in Threads, FindForNotes(c)
      PROVE  kept'[b][open'[b]] \subseteq shown'[b]
  BY <1>10 DEF FindForNotes
<1>11. ASSUME NEW c \in Threads, ReadForNotes(c)
      PROVE  kept'[b][open'[b]] \subseteq shown'[b]
  BY <1>11 DEF ReadForNotes
<1>12. ASSUME NEW c \in Threads, UnlinkReport(c)
      PROVE  kept'[b][open'[b]] \subseteq shown'[b]
  BY <1>12 DEF UnlinkReport
<1>13. ASSUME NEW c \in Threads, DeleteReportRow(c)
      PROVE  kept'[b][open'[b]] \subseteq shown'[b]
  BY <1>13 DEF DeleteReportRow
<1>14. ASSUME NEW c \in Threads, LoadFile(c)
      PROVE  kept'[b][open'[b]] \subseteq shown'[b]
  BY <1>14 DEF LoadFile, Show
<1>15. ASSUME NEW c \in Threads, ReplaceFile(c)
      PROVE  kept'[b][open'[b]] \subseteq shown'[b]
  BY <1>15 DEF ReplaceFile
<1>16. ASSUME NEW d \in Devices, NEW N \in SUBSET Notes, Edit(d, N), Sync(d, N)
      PROVE  kept'[b][open'[b]] \subseteq shown'[b]
  BY <1>16 DEF Edit, Sync
<1>17. ASSUME NEW m \in flight, Lose(m)
      PROVE  kept'[b][open'[b]] \subseteq shown'[b]
  BY <1>17 DEF Lose
<1>20. ASSUME NEW c \in Threads, RaiseInRequest(c)
      PROVE  kept'[b][open'[b]] \subseteq shown'[b]
  BY <1>20 DEF RaiseInRequest
<1>18. CASE ReportsCrash
  BY <1>18 DEF ReportsCrash
<1>19. CASE UNCHANGED reportsVars
  BY <1>19 DEF reportsVars
<1> HIDE DEF ReportsInv, ReportsTypeOK, NotesPersist, BeginOn, Find
<1> QED
  BY EditCases, <1>0, <1>1, <1>2, <1>3, <1>4, <1>5, <1>6, <1>7,
     <1>8, <1>9, <1>10, <1>11, <1>12, <1>13,
     <1>14, <1>15, <1>16, <1>17, <1>18, <1>19, <1>20
  DEF ReportsNext, Start, Proceed, BeginRename, BeginReportDelete

-----------------------------------------------------------------------------
(* Notes on their way. *)

(* A request that ends was not serving notes, or of a report that is not   *)
(* there any more.                                                         *)
LEMMA FinishKeepsNotes ==
    ASSUME ReportsInv, NEW c \in Threads, FinishRequest(c, reportPc[c]),
           Serving(c) => reportHand[c] \notin reportRows \cap reportFiles,
           reportRows' \cap reportFiles' \subseteq reportRows \cap reportFiles,
           UNCHANGED <<disk, kept, editor, flight, serial, lossless>>
    PROVE  NotesOnTheirWay'
<1> USE DEF ReportsInv, ReportsTypeOK, SavesAreNew, RequestsNameReports,
        NotesOnTheirWay, Pending, LastEdit, Serving, Listed, ReportSteps,
        ReportGoto, BeginRequest, FinishRequest, ContinueRequest, Find, BeginOn,
        store, thread, browser, noteHistory
<1>1. \A d \in Threads : d # c => /\ reportPc'[d] = reportPc[d]
                                /\ reportHand'[d] = reportHand[d]
                                /\ body'[d] = body[d]
  OBVIOUS
<1>2. reportPc'[c] = "idle"
  OBVIOUS
<1>3. \A r \in reportRows \cap reportFiles : Pending(r) => Pending(r)'
  BY <1>1, <1>2
<1> HIDE DEF Pending
<1> QED
  BY <1>1, <1>2, <1>3

LEMMA NotesStep ==
    ASSUME ReportsInv, ReportsTypeOK', [ReportsNext]_reportsVars
    PROVE  NotesOnTheirWay'
<1>0. ReportsTypeOK
  BY DEF ReportsInv
<1> USE ReportIdsAssumption, NobodyAssumption
    DEF ReportsInv, ReportsTypeOK, SavesAreNew, RequestsNameReports,
        NotesOnTheirWay, Pending, LastEdit, Serving, Listed, ReportSteps,
        ReportGoto, BeginRequest, FinishRequest, ContinueRequest, Find, BeginOn,
        store, thread, browser, noteHistory
<1>1. ASSUME NEW c \in Threads, NEW r \in ReportIds, WriteReport(c, r)
      PROVE  NotesOnTheirWay'
  BY <1>1 DEF WriteReport
<1>2. ASSUME NEW c \in Threads, NEW r \in ReportIds,
             NEW to \in {"title", "lookup"}, BeginOn(c, r, to)
      PROVE  NotesOnTheirWay'
  BY <1>2
<1>3. ASSUME NEW c \in Threads, NEW r \in ReportIds, NEW d \in Devices,
             BeginLoad(c, r, d)
      PROVE  NotesOnTheirWay'
  BY <1>3 DEF BeginLoad
<1>4. ASSUME NEW c \in Threads, NEW m \in flight, TakeNotes(c, m)
      PROVE  NotesOnTheirWay'
  BY <1>4 DEF TakeNotes
<1>5. ASSUME NEW c \in Threads, UpsertRow(c)
      PROVE  NotesOnTheirWay'
  BY <1>5 DEF UpsertRow
<1>6. ASSUME NEW c \in Threads, ReloadReport(c) \/ StampRow(c)
      PROVE  NotesOnTheirWay'
  BY <1>6, FinishKeepsNotes DEF ReloadReport, StampRow
<1>7. ASSUME NEW c \in Threads, Retitle(c)
      PROVE  NotesOnTheirWay'
  BY <1>7 DEF Retitle
<1>8. ASSUME NEW c \in Threads, FindForRename(c) \/ FindForDelete(c)
      PROVE  NotesOnTheirWay'
  <2>0. UNCHANGED <<store, browser, flight, sent, noteHistory>>
    BY <1>8 DEF FindForRename, FindForDelete
  <2>1. CASE FinishRequest(c, reportPc[c])
    BY <1>8, <2>1, FinishKeepsNotes DEF FindForRename, FindForDelete
  <2>2. CASE ContinueRequest(c, "title", "retitle")
    BY <2>0, <2>2
  <2>3. CASE ContinueRequest(c, "lookup", "unlink")
    BY <2>0, <2>3
  <2> QED
    BY <1>8, <2>1, <2>2, <2>3 DEF FindForRename, FindForDelete
<1>9. ASSUME NEW c \in Threads, FindForLoad(c)
      PROVE  NotesOnTheirWay'
  <2>1. CASE FinishRequest(c, reportPc[c])
    BY <1>9, <2>1, FinishKeepsNotes DEF FindForLoad
  <2>2. CASE reportPc'[c] # "idle"
    BY <1>9, <2>2 DEF FindForLoad
  <2> QED
    BY <1>9, <2>1, <2>2 DEF FindForLoad
<1>10. ASSUME NEW c \in Threads, FindForNotes(c)
      PROVE  NotesOnTheirWay'
  <2>1. CASE FinishRequest(c, reportPc[c])
    BY <1>10, <2>1, FinishKeepsNotes DEF FindForNotes
  <2>2. CASE reportPc'[c] # "idle"
    BY <1>10, <2>2 DEF FindForNotes
  <2> QED
    BY <1>10, <2>1, <2>2 DEF FindForNotes
<1>11. ASSUME NEW c \in Threads, ReadForNotes(c)
      PROVE  NotesOnTheirWay'
  <2>1. CASE FinishRequest(c, reportPc[c])
    BY <1>11, <2>1, FinishKeepsNotes DEF ReadForNotes
  <2>2. CASE reportPc'[c] # "idle"
    BY <1>11, <2>2 DEF ReadForNotes
  <2> QED
    BY <1>11, <2>1, <2>2 DEF ReadForNotes
<1>12. ASSUME NEW c \in Threads, UnlinkReport(c)
      PROVE  NotesOnTheirWay'
  BY <1>12 DEF UnlinkReport
<1>13. ASSUME NEW c \in Threads, DeleteReportRow(c)
      PROVE  NotesOnTheirWay'
  BY <1>13 DEF DeleteReportRow
<1>14. ASSUME NEW c \in Threads, LoadFile(c)
      PROVE  NotesOnTheirWay'
  BY <1>14 DEF LoadFile, Show
<1>15. ASSUME NEW c \in Threads, ReplaceFile(c)
      PROVE  NotesOnTheirWay'
  <2>1. /\ reportHand[c] \in ReportIds /\ Serving(c) /\ ~Serving(c)'
        /\ \A e \in Threads : e # c => (Serving(e) <=> Serving(e)')
    BY <1>15 DEF ReplaceFile
  <2>2. \A r \in ReportIds \ {reportHand[c]} : Pending(r) => Pending(r)'
    BY <1>15, <2>1 DEF ReplaceFile
  <2> HIDE DEF Pending, Serving
  <2> QED
    BY <1>15, <2>1, <2>2 DEF ReplaceFile
<1>16. ASSUME NEW d \in Devices, NEW N \in SUBSET Notes, Edit(d, N), Sync(d, N)
      PROVE  NotesOnTheirWay'
  <2> SUFFICES ASSUME serial', lossless' PROVE NotesOnTheirWay'
    OBVIOUS
  <2>1. /\ flight = {} /\ \A c \in Threads : ~Serving(c)
        /\ serial /\ lossless
    BY <1>16 DEF Edit, Sync
  <2>2. open[d] \in ReportIds
    BY <1>16 DEF Edit
  <2>3. /\ \A m \in flight' : m.id = open[d] /\ m.notes = N
        /\ \E m \in flight' : m.id = open[d]
    BY <1>16, <2>1 DEF Edit, Sync
  <2>4. /\ editor'[open[d]] = d /\ kept'[d][open[d]] = N
        /\ \A r \in ReportIds \ {open[d]} :
              /\ editor'[r] = editor[r]
              /\ \A e \in Devices : kept'[e][r] = kept[e][r]
    BY <1>16, <2>2 DEF Edit
  <2>5. \A r \in ReportIds : ~Pending(r)
    BY <2>1
  <2>6. UNCHANGED <<store, thread>>
    BY <1>16 DEF Edit
  <2>7. \A m \in flight' : editor'[m.id] # Nobody /\ m.notes = LastEdit(m.id)'
    BY <2>3, <2>4
  <2>8. \A c \in Threads : ~Serving(c)'
    BY <2>1, <2>6
  <2>9. ASSUME NEW r \in reportRows' \cap reportFiles', editor'[r] # Nobody
        PROVE  Pending(r)' \/ disk'[r] = LastEdit(r)'
    <3>1. CASE r = open[d]
      BY <2>3, <3>1
    <3>2. CASE r # open[d]
      <4>1. editor[r] \in Devices /\ editor'[r] = editor[r] /\ r \in ReportIds
        BY <2>4, <2>6, <2>9, <3>2
      <4>2. disk[r] = LastEdit(r)
        BY <2>1, <2>5, <2>6, <4>1
      <4> QED
        BY <2>4, <2>6, <3>2, <4>1, <4>2
    <3> QED
      BY <3>1, <3>2
  <2> HIDE DEF Pending, LastEdit, Serving
  <2> QED
    BY <2>7, <2>8, <2>9
<1>17. ASSUME NEW m \in flight, Lose(m)
      PROVE  NotesOnTheirWay'
  BY <1>17 DEF Lose
<1>20. ASSUME NEW c \in Threads, RaiseInRequest(c)
      PROVE  NotesOnTheirWay'
  BY <1>20 DEF RaiseInRequest
<1>18. CASE ReportsCrash
  BY <1>18 DEF ReportsCrash
<1>19. CASE UNCHANGED reportsVars
  BY <1>19 DEF reportsVars
<1> HIDE DEF ReportsInv, ReportsTypeOK, NotesOnTheirWay, BeginOn, Find
<1> QED
  BY EditCases, <1>0, <1>1, <1>2, <1>3, <1>4, <1>5, <1>6, <1>7,
     <1>8, <1>9, <1>10, <1>11, <1>12, <1>13,
     <1>14, <1>15, <1>16, <1>17, <1>18, <1>19, <1>20
  DEF ReportsNext, Start, Proceed, BeginRename, BeginReportDelete

-----------------------------------------------------------------------------
(* The invariant. *)

LEMMA ReportsStep ==
    ASSUME ReportsInv, [ReportsNext]_reportsVars
    PROVE  ReportsInv'
<1>1. ReportsTypeOK'
  BY ReportsTypeStep
<1>2. SavesAreNew' /\ RequestsNameReports' /\ ListedIsLoadable'
  BY ListingStep
<1>3. NotesOnTheirWay'
  BY <1>1, NotesStep
<1>4. NotesPersist'
  <2>1. ASSUME (serial /\ lossless /\ Settled)',
               NEW r \in (reportRows \cap reportFiles)', editor'[r] # Nobody
        PROVE  disk'[r] = kept'[editor'[r]][r]
    BY <1>3, <2>1 DEF NotesOnTheirWay, LastEdit, Pending, Settled, Serving
  <2> QED
    BY <2>1, OwnCopyStep DEF NotesPersist
<1> QED
  BY <1>1, <1>2, <1>3, <1>4 DEF ReportsInv

LEMMA ReportsInitially == ReportsInit => ReportsInv
<1> SUFFICES ASSUME ReportsInit PROVE ReportsInv
  OBVIOUS
<1>1. ReportsTypeOK
  <2>1. [r \in ReportIds |-> {}] \in [ReportIds -> SUBSET Notes]
    OBVIOUS
  <2>2. kept \in [Devices -> [ReportIds -> SUBSET Notes]]
    BY <2>1 DEF ReportsInit
  <2>3. /\ sent \in 0..MaxSends /\ flight \in SUBSET Request
        /\ open \in [Devices -> saved \cup {NoReport}]
        /\ shown \in [Devices -> SUBSET Notes]
    BY MaxSendsAssumption DEF ReportsInit
  <2> QED
    BY <2>2, <2>3 DEF ReportsInit, ReportsTypeOK, ReportSteps
<1> QED
  BY <1>1
  DEF ReportsInit, ReportsInv, ListedIsLoadable, NotesPersist, SavesAreNew,
      RequestsNameReports, NotesOnTheirWay, Serving

(* Rows, files, threads and browsers keep their types, and what is under   *)
(* way concerns reports that exist or existed.                             *)
THEOREM ReportsInvariant == ReportsSpec => []ReportsInv
<1> QED
  BY ReportsInitially, ReportsStep, PTL DEF ReportsSpec

(* Saves, notes and deletions of report_store.py hold no common lock, and  *)
(* yet a listed report has its file (until a crash or an error parts the   *)
(* two steps of a deletion), and a deleted report is never listed again.   *)
THEOREM ListedReportsLoad == ReportsSpec => []ListedIsLoadable
<1>1. ReportsInv => ListedIsLoadable
  BY DEF ReportsInv
<1> QED
  BY <1>1, ReportsInvariant, PTL

(* Notes requests that App.tsx sends and does not wait for leave the file  *)
(* with the last edit, if they were served one at a time; and a browser    *)
(* shows all of its own notes in any case.                                 *)
THEOREM NotesAreKept == ReportsSpec => []NotesPersist
<1>1. ReportsInv => NotesPersist
  BY DEF ReportsInv
<1> QED
  BY <1>1, ReportsInvariant, PTL
=============================================================================
