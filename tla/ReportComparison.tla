--------------------------- MODULE ReportComparison ---------------------------
(***************************************************************************)
(* Two saved analyses compared: their selection and the loading of both in *)
(* App.tsx, and what reportComparison.ts finds to be different. A finding  *)
(* has a name (finding_id, findingId, id, the module it comes from, or its *)
(* title with the uid of its evidence) or none, and the rest of its        *)
(* fields, its title if it has no name. The comparison of Analysis         *)
(* Contexts by paths and the layout are left out.                          *)
(***************************************************************************)
EXTENDS Integers, Sequences, FiniteSets, SequencesExt

CONSTANTS SavedReports, \* ids of saved reports
          FindingIds,  \* names of findings
          NoKey,       \* no name
          MaxFindings  \* bound of the model: findings of a report

ASSUME KeysAssumption == NoKey \notin FindingIds

VARIABLES
    picked,     \* compareReportIds
    comparing,  \* the two reports being loaded, or <<>>
    compared,   \* the two reports of the comparison on screen, or <<>>
    contents,   \* what they contained
    comparisonRaced \* history: the selection changed while reports were loaded

compVars == <<picked, comparing, compared, contents, comparisonRaced>>

Finding == [id : FindingIds \cup {NoKey}, body : 0..1]
ReportFindings == BoundedSeq(Finding, MaxFindings)

(* What is selected, loaded and shown are lists of at most two reports,    *)
(* and no report is selected twice.                                        *)
ComparisonTypeOK ==
    /\ picked \in BoundedSeq(SavedReports, 2)
    /\ \A i, j \in DOMAIN picked : picked[i] = picked[j] => i = j
    /\ {comparing, compared} \subseteq {<<>>} \cup [1..2 -> SavedReports]
    /\ comparisonRaced \in BOOLEAN
    /\ IF compared = <<>> THEN contents = <<>> ELSE contents \in [1..2 -> ReportFindings]

ComparisonInit ==
    /\ picked = <<>> /\ comparing = <<>> /\ compared = <<>> /\ contents = <<>>
    /\ comparisonRaced = FALSE

-----------------------------------------------------------------------------
(* findingKey: a finding without a name is known by its title and place. *)
FindingKey(f, i) == IF f.id # NoKey THEN f.id ELSE <<f.body, i>>

KeyAt(list, i) == FindingKey(list[i], i)

(* The Map of a list of findings: the last one with a key. *)
KeyedFindings(list) ==
    [k \in {KeyAt(list, i) : i \in DOMAIN list} |->
       LET of == {i \in DOMAIN list : KeyAt(list, i) = k}
       IN list[CHOOSE i \in of : \A j \in of : j <= i]]

Changed(before, after) == {k \in DOMAIN before \cap DOMAIN after : before[k] # after[k]}

(* findingDeltas *)
FindingDeltas(a, b) ==
    LET before == KeyedFindings(a)
        after == KeyedFindings(b)
    IN {[change |-> "new", key |-> k] : k \in DOMAIN after \ DOMAIN before}
       \cup {[change |-> "resolved", key |-> k] : k \in DOMAIN before \ DOMAIN after}
       \cup {[change |-> "changed", key |-> k] : k \in Changed(before, after)}

-----------------------------------------------------------------------------
(* The selection after a click on a report: one that was selected leaves   *)
(* it, of three the last two stay.                                         *)
Toggled(r) ==
    IF r \in Range(picked)
      THEN IF picked[1] = r THEN Tail(picked) ELSE <<picked[1]>>
      ELSE IF Len(picked) < 2 THEN Append(picked, r) ELSE <<picked[2], r>>

(* A faulty toggleCompareReport: the comparison stays on screen. *)
ToggleReportFault(r) ==
    /\ picked' = Toggled(r)
    /\ UNCHANGED <<comparing, compared, contents, comparisonRaced>>

(* toggleCompareReport *)
ToggleReport(r) ==
    /\ picked' = Toggled(r)
    /\ compared' = <<>> /\ contents' = <<>>
    /\ comparisonRaced' = (comparisonRaced \/ comparing # <<>>)
    /\ UNCHANGED comparing

(* compareSelectedReports; its button is disabled while it loads. *)
CompareSelected ==
    /\ Len(picked) = 2 /\ comparing = <<>> /\ compared = <<>>
    /\ comparing' = picked /\ comparisonRaced' = FALSE
    /\ UNCHANGED <<picked, compared, contents>>

ShowComparison(a, b) ==
    /\ comparing # <<>>
    /\ compared' = comparing /\ contents' = <<a, b>> /\ comparing' = <<>>
    /\ UNCHANGED <<picked, comparisonRaced>>

ComparisonFails ==
    /\ comparing # <<>> /\ comparing' = <<>>
    /\ UNCHANGED <<picked, compared, contents, comparisonRaced>>

(* The button of the comparison. *)
CloseComparison ==
    /\ compared # <<>> /\ compared' = <<>> /\ contents' = <<>>
    /\ UNCHANGED <<picked, comparing, comparisonRaced>>

ComparisonNext ==
    \/ \E r \in SavedReports : ToggleReport(r)
    \/ \E a, b \in ReportFindings : ShowComparison(a, b)
    \/ CompareSelected \/ ComparisonFails \/ CloseComparison

ComparisonSpec == ComparisonInit /\ [][ComparisonNext]_compVars

-----------------------------------------------------------------------------
(* The comparison on screen is the one of the selected reports, unless the *)
(* selection changed while they were loaded (the answer of                 *)
(* compareSelectedReports is not tied to the selection).                   *)
ComparedIsPicked == compared # <<>> => compared = picked \/ comparisonRaced

(* ... It rests on what is being loaded: what was selected then.           *)
LoadingIsPicked == comparing # <<>> => comparing = picked \/ comparisonRaced

Shown == FindingDeltas(contents[1], contents[2])

(* A comparison the other way round says the opposite: what is new in the  *)
(* one is resolved in the other, and a report differs in nothing from      *)
(* itself.                                                                 *)
MirrorsAgree ==
    compared # <<>> =>
        /\ FindingDeltas(contents[2], contents[1]) =
             {[d EXCEPT !.change = IF @ = "new" THEN "resolved"
                                   ELSE IF @ = "resolved" THEN "new" ELSE @] : d \in Shown}
        /\ contents[1] = contents[2] => Shown = {}

(* A finding that is new in the second report, or not what it was, is      *)
(* shown when no two findings of a report share a key.                     *)
OwnKeys(list) == \A i, j \in DOMAIN list : KeyAt(list, i) = KeyAt(list, j) => i = j

DistinctFindingsShown ==
    compared # <<>> /\ OwnKeys(contents[1]) /\ OwnKeys(contents[2]) =>
        \A i \in DOMAIN contents[2] : contents[2][i] \notin Range(contents[1]) =>
           \E d \in Shown : d.key = KeyAt(contents[2], i)

(* What a comparison on screen promises (App.tsx, reportComparison.ts).    *)
ComparisonInv ==
    /\ ComparisonTypeOK
    /\ ComparedIsPicked
    /\ LoadingIsPicked
    /\ MirrorsAgree
    /\ DistinctFindingsShown
=============================================================================
