---------------------------- MODULE AnalysesLibrary ----------------------------
(***************************************************************************)
(* The Analyses view of App.tsx: the lists of saved reports and retained   *)
(* captures in the browser, their requests (reportService.ts,              *)
(* captureService.ts) and the grouping of reports under captures. A        *)
(* request is answered from what the server held when it served it; the    *)
(* browser applies answers in the order they arrive. The comparison of two *)
(* reports is in ReportComparison. Left out: search and sorting of the     *)
(* tree, the field for a new title. All captures have one file name, the   *)
(* case in which the grouping has to tell them apart.                      *)
(***************************************************************************)
EXTENDS Integers, Sequences, FiniteSets, SequencesExt

CONSTANTS ReportIds, CaptureIds,
          NoId,       \* no identifier; a report without a capture
          SourceOf,   \* the capture each report was made from
          MaxCalls,   \* bound of the model: requests at a time
          MaxTitle    \* bound of the model: renames of a report

ASSUME NoIdAssumption == NoId \notin ReportIds \cup CaptureIds
ASSUME SourceAssumption == SourceOf \in [ReportIds -> CaptureIds \cup {NoId}]
ASSUME CallsAssumption == MaxCalls \in Nat /\ MaxTitle \in Nat

VARIABLES
    srvReports,  \* the server's rows of this account
    srvCaptures,
    here,        \* authState.user.authenticated
    list,        \* savedReports
    caps,        \* retainedCaptures
    loading,     \* savedReportsLoading, capturesLoading
    asking,      \* deleteConfirmReportId, deleteConfirmCaptureId
    calls,       \* requests under way
    raced        \* history: answers the browser cannot order

server == <<srvReports, srvCaptures>>
lists == <<list, caps>>
libVars == <<server, here, lists, loading, asking, calls, raced>>

ReportRow == [id : ReportIds, title : 0..MaxTitle, capture : CaptureIds \cup {NoId}]

Call == [op : {"list", "caps", "delete", "deletecap", "rename"},
         on : ReportIds \cup CaptureIds \cup {NoId}, served : BOOLEAN,
         rows : SUBSET ReportRow, found : SUBSET CaptureIds]

NewCall(op, on) ==
    [op |-> op, on |-> on, served |-> FALSE, rows |-> {}, found |-> {}]

(* The lists, requests and confirmations of the view are well formed. *)
LibTypeOK ==
    /\ srvReports \subseteq ReportRow /\ srvCaptures \subseteq CaptureIds
    /\ list \subseteq ReportRow /\ caps \subseteq CaptureIds
    /\ here \in BOOLEAN /\ loading \in [list : BOOLEAN, caps : BOOLEAN]
    /\ asking \subseteq ReportIds \cup CaptureIds
    /\ calls \subseteq Call
    /\ raced \subseteq {"list", "caps"}

LibInit ==
    /\ srvCaptures = CaptureIds
    /\ srvReports = {[id |-> r, title |-> 0, capture |-> SourceOf[r]] : r \in ReportIds}
    /\ here = FALSE
    /\ list = {} /\ caps = {}
    /\ loading = [list |-> FALSE, caps |-> FALSE]
    /\ asking = {}
    /\ calls = {} /\ raced = {}

-----------------------------------------------------------------------------
Room(n) == Cardinality(calls) + n <= MaxCalls

Pending(ops) == \E c \in calls : c.op \in ops

(* The tree is on screen when nothing loads. *)
TreeShown == here /\ ~loading.list /\ ~loading.caps

(* What two requests may do to a list in either order: two listings, a     *)
(* listing and a rename, two renames.                                      *)
RacesOn(ops) ==
    (IF "list" \in ops /\ Pending({"list", "rename"}) THEN {"list"} ELSE {})
    \cup (IF "caps" \in ops /\ Pending({"caps"}) THEN {"caps"} ELSE {})

(* refreshSavedReports and refreshRetainedCaptures. *)
Refresh ==
    /\ Room(2)
    /\ calls' = calls \cup {NewCall("list", NoId), NewCall("caps", NoId)}
    /\ loading' = [list |-> TRUE, caps |-> TRUE]
    /\ raced' = IF calls = {} THEN {} ELSE raced \cup RacesOn({"list", "caps"})

(* The Refresh button, and the return from a report to the library. *)
RefreshClicked ==
    /\ here /\ Refresh
    /\ UNCHANGED <<server, here, lists, asking>>

(* The effect of App on the authentication state, ... *)
ArriveHere ==
    /\ ~here /\ here' = TRUE
    /\ Refresh
    /\ UNCHANGED <<server, lists, asking>>

(* ... which clears the lists, and only them, at the end of a session. *)
LeaveHere ==
    /\ here /\ here' = FALSE
    /\ list' = {} /\ caps' = {}
    /\ raced' = IF calls = {} THEN raced ELSE {"list", "caps"}
    /\ UNCHANGED <<server, loading, asking, calls>>

(* A report and a capture may be asked about at a time.                    *)
SameKind(id) == IF id \in ReportIds THEN ReportIds ELSE CaptureIds

(* removeSavedReport, removeRetainedCapture: the first click asks, the     *)
(* second sends.                                                           *)
Confirmed(op, id) ==
    /\ TreeShown /\ Room(1)
    /\ IF id \notin asking
       THEN asking' = (asking \ SameKind(id)) \cup {id} /\ UNCHANGED calls
       ELSE calls' = calls \cup {NewCall(op, id)} /\ UNCHANGED asking
    /\ UNCHANGED <<server, here, lists, loading, raced>>

DeleteReport(id) == (\E row \in list : row.id = id) /\ Confirmed("delete", id)

DeleteCapture(id) == id \in caps /\ Confirmed("deletecap", id)

(* The Cancel button, and the field for a new title, take it back. *)
CancelDelete(id) ==
    /\ TreeShown /\ id \in asking
    /\ asking' = asking \ {id}
    /\ UNCHANGED <<server, here, lists, loading, calls, raced>>

(* saveReportRename *)
RenameReport(id) ==
    /\ TreeShown /\ Room(1)
    /\ \E row \in list : row.id = id
    /\ calls' = calls \cup {NewCall("rename", id)}
    /\ raced' = raced \cup (IF Pending({"list", "rename"}) THEN {"list"} ELSE {})
    /\ UNCHANGED <<server, here, lists, loading, asking>>

-----------------------------------------------------------------------------
(* The server serves a request; it refuses one about a row that is gone.   *)
Serve(c) ==
    /\ ~c.served
    /\ c.op \in {"delete", "rename"} => \E row \in srvReports : row.id = c.on
    /\ c.op = "deletecap" => c.on \in srvCaptures
    /\ srvReports' = CASE c.op = "delete" -> {row \in srvReports : row.id # c.on}
                       [] c.op = "rename" -> {IF row.id = c.on /\ row.title < MaxTitle
                                              THEN [row EXCEPT !.title = @ + 1] ELSE row :
                                              row \in srvReports}
                       [] OTHER -> srvReports
    /\ srvCaptures' = IF c.op = "deletecap" THEN srvCaptures \ {c.on} ELSE srvCaptures
    /\ calls' = (calls \ {c}) \cup {[c EXCEPT !.served = TRUE,
         !.rows = IF c.op \in {"list", "rename"} THEN srvReports' ELSE {},
         !.found = IF c.op = "caps" THEN srvCaptures' ELSE {}]}
    /\ UNCHANGED <<here, lists, loading, asking, raced>>

(* The answers. A listing replaces the list; ... *)
Listed(c) ==
    /\ c.op \in {"list", "caps"} /\ c.served
    /\ calls' = calls \ {c}
    /\ loading' = [loading EXCEPT ![c.op] = FALSE]
    /\ IF c.op = "list" THEN list' = c.rows /\ UNCHANGED caps
                        ELSE caps' = c.found /\ UNCHANGED list
    /\ UNCHANGED <<server, here, asking, raced>>

(* A fault: the list is not asked for again. *)
DeletedFault(c) ==
    /\ c.op \in {"delete", "deletecap"} /\ c.served
    /\ asking' = asking \ SameKind(c.on)
    /\ calls' = calls \ {c}
    /\ UNCHANGED <<server, here, lists, loading, raced>>

(* ... a deletion is followed by a listing, in another session as well; ...*)
Deleted(c) ==
    LET op == IF c.op = "delete" THEN "list" ELSE "caps" IN
    /\ c.op \in {"delete", "deletecap"} /\ c.served
    /\ asking' = asking \ SameKind(c.on)
    /\ calls' = (calls \ {c}) \cup {NewCall(op, NoId)}
    /\ loading' = [loading EXCEPT ![op] = TRUE]
    /\ raced' = raced \cup RacesOn({op}) \cup (IF here THEN {} ELSE {op})
    /\ UNCHANGED <<server, here, lists>>

(* ... a rename replaces its row. *)
RenamedRows(c) ==
    {IF row.id = c.on THEN CHOOSE new \in c.rows : new.id = c.on ELSE row :
     row \in list}

Renamed(c) ==
    /\ c.op = "rename" /\ c.served
    /\ calls' = calls \ {c} /\ list' = RenamedRows(c)
    /\ UNCHANGED <<server, here, caps, loading, asking, raced>>

(* A request fails, served or not: the browser shows a message and keeps   *)
(* what it has.                                                            *)
CallFails(c) ==
    /\ calls' = calls \ {c}
    /\ loading' = [list |-> loading.list /\ c.op # "list",
                   caps |-> loading.caps /\ c.op # "caps"]
    /\ raced' = raced \cup (IF c.op \in {"caps", "deletecap"} THEN {"caps"} ELSE {"list"})
    /\ UNCHANGED <<server, here, lists, asking>>

LibNext ==
    \/ RefreshClicked \/ ArriveHere \/ LeaveHere
    \/ \E id \in ReportIds : DeleteReport(id) \/ RenameReport(id)
    \/ \E id \in CaptureIds : DeleteCapture(id)
    \/ \E id \in ReportIds \cup CaptureIds : CancelDelete(id)
    \/ \E c \in calls : Serve(c) \/ Listed(c) \/ Deleted(c) \/ Renamed(c) \/ CallFails(c)

LibSpec == LibInit /\ [][LibNext]_libVars

-----------------------------------------------------------------------------
(* analysisCaptureGroups: the capture a report is shown under, or NoId for *)
(* a group of its file's name: no capture of this name is retained.        *)
GroupOf(row) ==
    IF row.capture \in caps THEN row.capture
    ELSE IF caps # {} THEN CHOOSE k \in caps : TRUE
    ELSE NoId

(* When no request is under way, the lists are those of the server, unless *)
(* a request failed or answers came that the browser cannot order          *)
(* (refreshSavedReports, refreshRetainedCaptures, saveReportRename and the *)
(* deletions replace the lists in the order of their answers).             *)
QuietListIsExact ==
    here /\ calls = {} => /\ "list" \in raced \/ list = srvReports
                          /\ "caps" \in raced \/ caps = srvCaptures

(* After a sign-out nothing of the account stays in the lists, unless an   *)
(* answer was under way.                                                   *)
NothingLeftBehind == ~here => raced # {} \/ (list = {} /\ caps = {})

(* A report whose capture is retained is shown under it, not under another *)
(* capture of the same file name.                                          *)
OwnCaptureFirst ==
    \A row \in list : row.capture \in caps => GroupOf(row) = row.capture

(* The parts of the inductive invariant that are not properties of their   *)
(* own. An identifier is that of one row, and a rename that was served     *)
(* brings its row.                                                         *)
RowsAreNamed ==
    /\ \A x, y \in srvReports : x.id = y.id => x = y
    /\ \A c \in calls : c.op = "rename" /\ c.served =>
          \E row \in c.rows : row.id = c.on

(* Unless answers raced, one request at a time brings a list, and what it  *)
(* brings is what the server holds, unless a deletion is still to be       *)
(* followed by a listing; ...                                              *)
ListFollows ==
    "list" \notin raced =>
        /\ \A c, d \in calls : {c.op, d.op} \subseteq {"list", "rename"} => c = d
        /\ here /\ (\A c \in calls : c.op = "delete" => ~c.served) =>
              /\ \A c \in calls : c.op = "list" /\ c.served => c.rows = srvReports
              /\ \A c \in calls : c.op = "rename" /\ c.served =>
                    RenamedRows(c) = srvReports
              /\ (\A c \in calls : c.op # "list" /\ (c.op = "rename" => ~c.served))
                    => list = srvReports

CapsFollow ==
    "caps" \notin raced =>
        /\ \A c, d \in calls : c.op = "caps" /\ d.op = "caps" => c = d
        /\ here /\ (\A c \in calls : c.op = "deletecap" => ~c.served) =>
              /\ \A c \in calls : c.op = "caps" /\ c.served => c.found = srvCaptures
              /\ (\A c \in calls : c.op # "caps") => caps = srvCaptures

(* ... nothing is under way nor left when no answer outlived a session.    *)
AwayIsQuiet ==
    ~here => raced = {"list", "caps"} \/ (calls = {} /\ list = {} /\ caps = {})

(* What the lists of the library promise, in whatever order requests are   *)
(* sent, served and answered (App.tsx).                                    *)
LibraryInv ==
    /\ LibTypeOK
    /\ QuietListIsExact
    /\ NothingLeftBehind
    /\ OwnCaptureFirst
    /\ RowsAreNamed
    /\ ListFollows
    /\ CapsFollow
    /\ AwayIsQuiet
=============================================================================
