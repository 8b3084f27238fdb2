------------------------------ MODULE Drilldown ------------------------------
(***************************************************************************)
(* The dialogs behind a row of a report: what is asked for, and what the   *)
(* dialog shows of the answers. useDrilldown opens one for a key,          *)
(* usePivotDrilldown for filters, here a single one: the list of services  *)
(* opens with one, and nothing fetches pivot or replace. An answer is told   *)
(* by the key it was asked for.                                            *)
(***************************************************************************)
EXTENDS Integers

CONSTANTS DrillKeys, \* states, subnet pairs, risk categories
          NoDrill,   \* no dialog is open, no rows are held
          MaxOpens   \* bound of the model: dialogs opened

ASSUME NoDrillAssumption == NoDrill \notin DrillKeys /\ MaxOpens \in Nat

VARIABLES
    filtered,  \* the hook is usePivotDrilldown
    wanted,    \* selectedKey or selectedFilters
    data,
    isLoading,
    failed,    \* error
    fetches,     \* fetches under way, numbered
    opens,     \* dialogs opened so far
    overlapped \* history: the last was opened while a fetch was under way

drillState == <<wanted, data, isLoading, failed>>
drillVars == <<filtered, drillState, fetches, opens, overlapped>>

DrillTypeOK ==
    /\ {filtered, isLoading, failed, overlapped} \subseteq BOOLEAN
    /\ {wanted, data} \subseteq DrillKeys \cup {NoDrill}
    /\ opens \in 0..MaxOpens
    /\ fetches \subseteq [number : 1..MaxOpens, for : DrillKeys]

DrillInit ==
    /\ filtered \in BOOLEAN
    /\ wanted = NoDrill /\ data = NoDrill /\ isLoading = FALSE /\ failed = FALSE
    /\ fetches = {} /\ opens = 0 /\ overlapped = FALSE

(* The dialog covers the page, and hides its rows while it waits: another  *)
(* is opened after it closed, or from a row of the filtered list. *)
RowsInReach == wanted = NoDrill \/ (filtered /\ ~isLoading /\ ~failed)

Asked(key) ==
    /\ RowsInReach
    /\ opens < MaxOpens /\ opens' = opens + 1
    /\ wanted' = key /\ failed' = FALSE /\ isLoading' = TRUE
    /\ fetches' = fetches \cup {[number |-> opens', for |-> key]}
    /\ overlapped' = (fetches # {})
    /\ UNCHANGED filtered

(* open of useDrilldown *)
OpenKey(key) == ~filtered /\ Asked(key) /\ data' = NoDrill

(* open and run of usePivotDrilldown: the rows of before stay. *)
OpenFilters(key) == filtered /\ Asked(key) /\ UNCHANGED data

(* A fetch ends, whatever the dialog waits for by now. *)
FetchEnded(fetch) ==
    /\ fetches' = fetches \ {fetch}
    /\ isLoading' = FALSE
    /\ UNCHANGED <<filtered, wanted, opens, overlapped>>

(* Not reached, refused, or no JSON: only the filtered list is emptied.    *)
Fails(fetch) ==
    /\ FetchEnded(fetch) /\ failed' = TRUE
    /\ data' = IF filtered THEN NoDrill ELSE data

(* The body of a response that is ok. *)
Answered(fetch) == FetchEnded(fetch) /\ data' = fetch.for /\ UNCHANGED failed

(* clear, and close of useDrilldown; no fetch is aborted. *)
Cleared ==
    /\ wanted # NoDrill
    /\ wanted' = NoDrill /\ data' = NoDrill /\ failed' = FALSE /\ isLoading' = FALSE
    /\ UNCHANGED <<filtered, fetches, opens, overlapped>>

(* removeFilter of the only filter, from the bar above the rows. *)
RemoveFilter == filtered /\ ~isLoading /\ ~failed /\ Cleared

DrillNext ==
    \/ \E k \in DrillKeys : OpenKey(k) \/ OpenFilters(k)
    \/ \E c \in fetches : Answered(c) \/ Fails(c)
    \/ Cleared
    \/ RemoveFilter

DrillSpec == DrillInit /\ [][DrillNext]_drillVars

-----------------------------------------------------------------------------
(* The rows the dialog shows under its title, NoDrill for none. *)
RowsShown == IF wanted = NoDrill \/ isLoading \/ failed THEN NoDrill ELSE data

(* A dialog whose fetches have ended does not wait. One that was opened    *)
(* with no fetch under way waits for its own, and then shows the rows it   *)
(* is titled after. Opened over a fetch, it may show the other's rows, and *)
(* stops waiting early: the hooks tell no answer from another.             *)
DialogShowsItsRows ==
    /\ fetches = {} => ~isLoading
    /\ ~overlapped => /\ RowsShown \in {wanted, NoDrill}
                      /\ wanted # NoDrill => (isLoading <=> fetches # {})

(* The part of the inductive invariant that is no property of its own:     *)
(* unless dialogs overlapped, one fetch at a time is under way, for the    *)
(* dialog that is open. *)
FetchIsOwn ==
    ~overlapped => \A f, g \in fetches :
        f = g /\ (wanted # NoDrill => f.for = wanted)

(* What the dialogs behind the rows of a report promise (useDrilldown.ts). *)
DrillInv ==
    /\ DrillTypeOK
    /\ DialogShowsItsRows
    /\ FetchIsOwn
=============================================================================
