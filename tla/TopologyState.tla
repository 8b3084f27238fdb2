----------------------------- MODULE TopologyState -----------------------------
(***************************************************************************)
(* The view of the topology - preset, grouping, positions, zoom - as it is *)
(* kept per report in localStorage and handed to App for exports           *)
(* (NetworkTopology.tsx). A change is written 180 ms after the last one,   *)
(* or when the panel goes away. A view is a number, with the report it was *)
(* chosen for; 0 is the default.                                           *)
(***************************************************************************)
EXTENDS Integers

CONSTANTS KeyedReports, \* reports
          NoReport,
          MaxView  \* bound of the model: different views

ASSUME ViewsAssumption == NoReport \notin KeyedReports /\ MaxView \in Nat

VARIABLES
    kept,      \* localStorage
    shown,     \* the report of the panel, NoReport when it is not mounted
    view,      \* the state of the panel
    writing,   \* persistenceTimerRef: a write is due
    handed,    \* graphViewState of App
    chosenView, \* history: the last view of each report
    hurried    \* history: reports left for another with a write due

stateVars == <<kept, shown, view, writing, handed, chosenView, hurried>>

Views == [value : 0..MaxView, of : KeyedReports]
Nothing == [value |-> 0, of |-> NoReport]
DefaultView(r) == [value |-> 0, of |-> r]

TopologyStateInit ==
    /\ kept = [r \in KeyedReports |-> Nothing]
    /\ shown = NoReport /\ view = Nothing /\ handed = Nothing
    /\ writing = FALSE
    /\ chosenView = kept /\ hurried = {}

(* The effect on the key: the kept view, or the default of every part. *)
Hydrated(r) == IF kept[r] = Nothing THEN DefaultView(r) ELSE kept[r]

(* The panel is mounted for r, or r replaces the report of a mounted one.  *)
(* The first run of the effect that writes is skipped, but hands what was  *)
(* on screen to App; the render with the kept view starts a timer. A write *)
(* that was due for the report before is dropped. *)
ShowView(r) ==
    /\ r # shown
    /\ shown' = r
    /\ view' = Hydrated(r)
    /\ handed' = IF shown = NoReport THEN DefaultView(r) ELSE view
    /\ writing' = TRUE
    /\ chosenView' = [chosenView EXCEPT ![r] = Hydrated(r)]
    /\ hurried' = (hurried \ {r}) \cup (IF writing THEN {shown} ELSE {})
    /\ UNCHANGED kept

(* Any control of the panel. *)
ChangeView(v) ==
    /\ shown # NoReport /\ v # view.value
    /\ view' = [value |-> v, of |-> shown]
    /\ chosenView' = [chosenView EXCEPT ![shown] = view']
    /\ writing' = TRUE
    /\ UNCHANGED <<kept, shown, handed, hurried>>

(* The timer writes the view and hands it to App. *)
WriteView ==
    /\ writing /\ writing' = FALSE
    /\ kept' = [kept EXCEPT ![shown] = view]
    /\ handed' = view
    /\ UNCHANGED <<shown, view, chosenView, hurried>>

(* The panel goes away: collapsed, excluded from the report, or with it.   *)
Hide ==
    /\ shown # NoReport /\ shown' = NoReport
    /\ kept' = [kept EXCEPT ![shown] = view]
    /\ view' = Nothing /\ writing' = FALSE
    /\ UNCHANGED <<handed, chosenView, hurried>>

(* handleReportLoaded drops the view App holds, before the panel shows the *)
(* report. *)
LoadOther ==
    /\ shown = NoReport /\ handed # Nothing
    /\ handed' = Nothing
    /\ UNCHANGED <<kept, shown, view, writing, chosenView, hurried>>

TopologyStateNext ==
    \/ WriteView \/ Hide \/ LoadOther
    \/ \E r \in KeyedReports : ShowView(r)
    \/ \E v \in 0..MaxView : ChangeView(v)

TopologyStateSpec == TopologyStateInit /\ [][TopologyStateNext]_stateVars

-----------------------------------------------------------------------------
(* What is kept for a report was chosen for it, and it is the last view it *)
(* had once the report is left. The exception is what the code does: when  *)
(* another report takes its place within the delay, the write that was due *)
(* is dropped (the effect that writes, the clean-up on unmounting).        *)
KeptViewIsItsLast ==
    \A r \in KeyedReports :
        /\ kept[r] # Nothing => kept[r].of = r
        /\ r # shown => kept[r] = chosenView[r] \/ r \in hurried

(* The view exported with a report is that report's, except for the delay  *)
(* after it took the place of another. *)
HandedViewIsOwn ==
    shown # NoReport /\ ~writing => handed = view /\ handed.of = shown

(* The parts of the inductive invariant that are not properties of their   *)
(* own. Views and reports are what they are; nothing is written unless the *)
(* panel is there; ...                                                     *)
ViewsTypeOK ==
    /\ kept \in [KeyedReports -> Views \cup {Nothing}]
    /\ chosenView \in [KeyedReports -> Views \cup {Nothing}]
    /\ shown \in KeyedReports \cup {NoReport}
    /\ view \in Views \cup {Nothing} /\ handed \in Views \cup {Nothing}
    /\ writing \in BOOLEAN /\ hurried \subseteq KeyedReports
    /\ writing => shown # NoReport

(* ... the panel has the view chosen last for its report, which is kept    *)
(* once no write is due. *)
ShownIsChosen ==
    shown # NoReport => /\ view = chosenView[shown] /\ view.of = shown
                        /\ writing \/ kept[shown] = view

(* What the stored views of the map promise (NetworkTopology.tsx).         *)
ViewsInv ==
    /\ ViewsTypeOK
    /\ KeptViewIsItsLast
    /\ HandedViewIsOwn
    /\ ShownIsChosen
=============================================================================
