----------------------------- MODULE ContextEditor -----------------------------
(***************************************************************************)
(* The editor of an Analysis Context profile (DetectionConfiguration.tsx). *)
(* A behaviour follows one section of the profile, the tables being        *)
(* independent: its rows in the editor, the content taken as clean, the    *)
(* one in localStorage and what the editor waits for. A row is its key and *)
(* the rest of its columns. The account shows here as the copy an opening  *)
(* may bring; how copies get there is in ContextSync, the origin of rows   *)
(* in ContextScan.                                                         *)
(***************************************************************************)
EXTENDS Integers, Sequences, FiniteSets, FiniteSetsExt, SequencesExt

CONSTANTS Keys,     \* filled-in keys of rows
          Blank,    \* a key that is not filled in
          NoRows,   \* no table
          MaxRows,  \* bound of the model: rows of a table
          Sections, \* the sections behaviours follow
          AccountTables \* tables the account may have

ASSUME BlankAssumption == Blank \notin Keys
ASSUME RowsAssumption == MaxRows \in Nat \ {0}

Row == [key : Keys \cup {Blank}, rest : 0..1]

(* The sections: the columns the user edits, and those two rows must not   *)
(* share. A CSV file adds rows to a list and replaces what is not one.     *)
CaptureScopeTab ==
    [columns |-> {"internalIcsOnlyExpected", "dedicatedOtSensor", "ipv4OnlyExpected"},
     key |-> {}, list |-> FALSE]
SegmentsTab ==
    [columns |-> {"name", "cidr", "role", "purdueLevel", "vlanId", "addressing",
                  "dhcpAllowed", "ipv6Allowed"},
     key |-> {"cidr"}, list |-> TRUE]
AssetsTab ==
    [columns |-> {"ip", "hostname", "macAddresses", "assetType", "role"},
     key |-> {"ip"}, list |-> TRUE]
InfrastructureTab ==
    [columns |-> {"kind", "value", "label"},
     key |-> {"kind", "value"}, list |-> TRUE]
CommunicationsTab ==
    [columns |-> {"sourceIp", "destinationIp", "protocol", "destinationPort", "service"},
     key |-> {"sourceIp", "destinationIp", "protocol", "destinationPort", "service"},
     list |-> TRUE]
SegmentPairsTab ==
    [columns |-> {"sourceSegment", "destinationSegment", "description"},
     key |-> {"sourceSegment", "destinationSegment"}, list |-> TRUE]
ControlActionsTab ==
    [columns |-> {"protocol", "source", "destination", "allowedOperations",
                  "allowedFunctionCodes", "description"},
     key |-> {"protocol", "source", "destination", "allowedOperations",
              "allowedFunctionCodes"}, list |-> TRUE]
IgnoredHostsTab ==
    [columns |-> {"host"}, key |-> {"host"}, list |-> TRUE]
ExternalDestinationsTab ==
    [columns |-> {"destination"}, key |-> {"destination"}, list |-> TRUE]
(* The overrides of one module: its fields. *)
AdvancedTab ==
    [columns |-> {"value"}, key |-> {}, list |-> FALSE]

Tabs == [captureScope |-> CaptureScopeTab, segments |-> SegmentsTab,
         assets |-> AssetsTab, infrastructure |-> InfrastructureTab,
         communications |-> CommunicationsTab, segmentPairs |-> SegmentPairsTab,
         controlActions |-> ControlActionsTab, ignoredHosts |-> IgnoredHostsTab,
         externalDestinations |-> ExternalDestinationsTab, advanced |-> AdvancedTab]

(* Columns of the key beyond those Row.key stands for: a service, or       *)
(* operations and function codes.                                          *)
InRest == {"service", "allowedOperations", "allowedFunctionCodes"}

VARIABLES
    tab,      \* the section followed
    rows,     \* its rows in the editor
    clean,    \* the rows taken as saved, or NoRows after an import
    store,    \* the rows in localStorage
    open,
    editorChanged, \* savedDuringSession
    modal,
    reading,  \* the rows when a CSV file was chosen, or NoRows
    saving,   \* the rows of a save under way, or NoRows
    saveChanges, \* its changedFromClean
    syncing,  \* the opening waits for the account's copy
    synced,   \* history: the copy of the account this opening showed, until a save
              \* takes its place, or NoRows
    touched   \* history: localStorage changed since the editor was opened, other
              \* than by saving that copy as it was shown

tableVars == <<rows, clean>>
saveVars == <<saving, saveChanges>>
told == <<touched, editorChanged>>
copyVars == <<syncing, synced>>
editVars == <<tab, tableVars, store, open, told, modal, reading, saveVars, copyVars>>

Tab == Tabs[tab]
Tables == BoundedSeq(Row, MaxRows)

ASSUME NoRowsAssumption == NoRows \notin Tables
ASSUME AccountAssumption == AccountTables \subseteq Tables

(* The key validateProfile compares. *)
RowKey(row) == IF Tab.key \cap InRest # {} THEN <<row.key, row.rest>> ELSE <<row.key>>

(* A faulty Valid: blank keys are only noted. *)
ValidFault(t) == Tab.list => \A i, j \in DOMAIN t : RowKey(t[i]) = RowKey(t[j]) => i = j

(* validateProfile: no key twice, none blank. *)
Valid(t) ==
    Tab.list => /\ \A i \in DOMAIN t : t[i].key # Blank
                /\ \A i, j \in DOMAIN t : RowKey(t[i]) = RowKey(t[j]) => i = j

(* The state of the editor is well formed; its question over unsaved       *)
(* changes goes with it.                                                   *)
EditorTypeOK ==
    /\ tab \in Sections
    /\ rows \in Tables /\ store \in Tables
    /\ clean \in Tables \cup {NoRows} /\ reading \in Tables \cup {NoRows}
    /\ saving \in Tables \cup {NoRows} /\ synced \in Tables \cup {NoRows}
    /\ {open, touched, editorChanged, saveChanges, syncing} \subseteq BOOLEAN
    /\ modal \in {"none", "close", "issues", "complete"}
    /\ modal = "close" => open

EditorInit ==
    /\ tab \in Sections
    /\ store = <<>> /\ rows = <<>> /\ clean = <<>>
    /\ open = FALSE /\ touched = FALSE /\ editorChanged = FALSE /\ modal = "none"
    /\ reading = NoRows /\ saving = NoRows /\ saveChanges = FALSE
    /\ syncing = FALSE /\ synced = NoRows

-----------------------------------------------------------------------------
Dirty == clean # rows

(* Bound of the model: one save or CSV file under way at a time. *)
Quiet == saving = NoRows /\ reading = NoRows

Editing == open /\ modal \in {"none", "complete"}

(* patch *)
Patch(t) ==
    /\ t \in Tables /\ rows' = t
    /\ UNCHANGED <<tab, clean, store, open, told, modal, copyVars>>

(* The effect on open: the active profile, and a question to the account.  *)
OpenContext ==
    /\ ~open /\ Quiet /\ open' = TRUE
    /\ rows' = store /\ clean' = store /\ touched' = FALSE
    /\ editorChanged' = FALSE /\ modal' = "none"
    /\ syncing' = TRUE /\ synced' = NoRows
    /\ UNCHANGED <<tab, store, reading, saveVars>>

(* Its answer takes the place of what is shown, edited or not; localStorage*)
(* keeps what it has. Closing the editor cancels it.                       *)
CopyShown(copy) ==
    /\ open /\ syncing /\ syncing' = FALSE
    /\ Valid(copy)
    /\ rows' = copy /\ clean' = copy /\ synced' = copy
    /\ UNCHANGED <<tab, store, open, told, modal, reading, saveVars>>

(* The button that adds a row. *)
AddRow ==
    /\ Editing /\ Tab.list
    /\ Patch(Append(rows, [key |-> Blank, rest |-> 0]))
    /\ UNCHANGED <<reading, saveVars>>

(* A row after the edit of one of its columns. *)
Edited(row) ==
    {r \in Row : \E column \in Tab.columns :
       IF column \in Tab.key \ InRest THEN r.rest = row.rest ELSE r.key = row.key}

(* updateSegment and its like. *)
EditRow(i) ==
    /\ Editing
    /\ \E row \in Edited(rows[i]) : Patch([rows EXCEPT ![i] = row])
    /\ UNCHANGED <<reading, saveVars>>

RemoveRow(i) ==
    /\ Editing /\ Tab.list
    /\ Patch(RemoveAt(rows, i))
    /\ UNCHANGED <<reading, saveVars>>

(* setAdvancedField *)
SetField(key) ==
    /\ Editing /\ tab = "advanced"
    /\ LET others == SelectSeq(rows, LAMBDA row : row.key # key) IN
       \/ Patch(others)
       \/ \E value \in 0..1 :
            Patch(Append(others, [key |-> key, rest |-> value]))
    /\ UNCHANGED <<reading, saveVars>>

(* applyNetworkSuggestions: unclassified segments with evidence of OT. *)
ApplySuggestions ==
    /\ Editing /\ modal = "complete" /\ tab = "segments"
    /\ \E likely \in SUBSET {i \in DOMAIN rows : rows[i].rest = 0} :
         Patch([i \in DOMAIN rows |->
                  IF i \in likely THEN [rows[i] EXCEPT !.rest = 1]
                  ELSE rows[i]])
    /\ UNCHANGED <<reading, saveVars>>

(* addControlCandidate: a rule without operations. *)
AddCandidate(key) ==
    /\ Editing /\ modal = "complete" /\ tab = "controlActions"
    /\ \A i \in DOMAIN rows : rows[i].key # key
    /\ Patch(Append(rows, [key |-> key, rest |-> 0]))
    /\ UNCHANGED <<reading, saveVars>>

(* copyFromProfile: by a key that leaves out the service, the last of the  *)
(* rows with a key in the place of the first one.                          *)
CopyKey(row) == IF tab = "communications" THEN <<row.key>> ELSE RowKey(row)

CopyFrom(other) ==
    LET all == rows \o other
        first == SelectSeq([i \in DOMAIN all |-> i],
                   LAMBDA i : \A j \in 1..(i - 1) : CopyKey(all[j]) # CopyKey(all[i]))
        last(i) == CHOOSE j \in DOMAIN all : /\ CopyKey(all[j]) = CopyKey(all[i])
                                             /\ \A k \in DOMAIN all :
                                                  CopyKey(all[k]) = CopyKey(all[i]) => k <= j
    IN
    /\ Editing /\ modal = "complete" /\ tab # "advanced" /\ Valid(other)
    /\ IF Tab.list THEN Patch([n \in DOMAIN first |-> all[last(first[n])]]) ELSE Patch(other)
    /\ UNCHANGED <<reading, saveVars>>

-----------------------------------------------------------------------------
(* handleCsv keeps the rows of the moment a file was chosen, ... *)
ChooseCsv ==
    /\ open /\ modal = "none" /\ Quiet /\ reading' = rows
    /\ UNCHANGED <<tab, tableVars, store, open, told, modal, saveVars, copyVars>>

(* ... and adds to them the rows with a new key. *)
ReadCsv(file) ==
    /\ reading # NoRows
    /\ Patch(IF Tab.list
             THEN reading \o SelectSeq(file, LAMBDA row : row.key # Blank
                    /\ \A i \in DOMAIN reading : RowKey(reading[i]) # RowKey(row))
             ELSE file)
    /\ reading' = NoRows
    /\ UNCHANGED saveVars

CsvFails ==
    /\ reading # NoRows /\ reading' = NoRows
    /\ modal' = "issues"
    /\ UNCHANGED <<tab, tableVars, store, open, told, saveVars, copyVars>>

(* handleJson: a valid file takes the place of the profile, unsaved. *)
LoadJson(file) ==
    /\ open /\ modal = "none"
    /\ IF Valid(file)
       THEN rows' = file /\ clean' = NoRows /\ UNCHANGED modal
       ELSE modal' = "issues" /\ UNCHANGED tableVars
    /\ UNCHANGED <<tab, store, open, told, reading, saveVars, copyVars>>

(* handleSave: whether the profile changed is settled before the account   *)
(* is asked.                                                               *)
HandleSave ==
    /\ open /\ modal = "none" /\ Quiet
    /\ IF Valid(rows)
       THEN /\ store' = rows /\ saving' = rows /\ saveChanges' = Dirty
            /\ touched' = (touched \/ (rows # store /\ (Dirty \/ rows # synced)))
            /\ UNCHANGED modal
       ELSE modal' = "issues" /\ UNCHANGED <<store, saveVars, touched>>
    /\ UNCHANGED <<tab, tableVars, open, editorChanged, reading, copyVars>>

(* A faulty Saved: the answer compares with what is clean by then.         *)
SavedFault ==
    /\ saving # NoRows /\ saving' = NoRows /\ saveChanges' = FALSE
    /\ rows' = saving /\ clean' = saving /\ synced' = NoRows
    /\ editorChanged' = (editorChanged \/ saving # clean)
    /\ UNCHANGED <<tab, store, open, touched, modal, reading, syncing>>

(* The answer of the account, or the lack of one. *)
Saved ==
    /\ saving # NoRows /\ saving' = NoRows /\ saveChanges' = FALSE
    /\ rows' = saving /\ clean' = saving /\ synced' = NoRows
    /\ editorChanged' = (editorChanged \/ saveChanges)
    /\ UNCHANGED <<tab, store, open, touched, modal, reading, syncing>>

(* What a closed editor holds is read again when it opens. *)
EditorClosed ==
    /\ open' = FALSE /\ rows' = <<>> /\ clean' = <<>>
    /\ syncing' = FALSE /\ synced' = NoRows

(* requestClose and the dialog over unsaved changes. *)
RequestClose ==
    /\ open /\ modal = "none"
    /\ IF Dirty THEN modal' = "close" /\ UNCHANGED <<open, rows, clean, syncing, synced>>
                ELSE EditorClosed /\ UNCHANGED modal
    /\ UNCHANGED <<tab, store, told, reading, saveVars>>

DiscardAndClose ==
    /\ modal = "close" /\ modal' = "none" /\ EditorClosed
    /\ UNCHANGED <<tab, store, told, reading, saveVars>>

CloseModal ==
    /\ modal # "none" /\ modal' = "none"
    /\ UNCHANGED <<tab, tableVars, store, open, told, reading, saveVars, copyVars>>

CompleteContext ==
    /\ open /\ modal = "none" /\ modal' = "complete"
    /\ UNCHANGED <<tab, tableVars, store, open, told, reading, saveVars, copyVars>>

EditorNext ==
    \/ OpenContext \/ AddRow \/ ApplySuggestions
    \/ \E i \in DOMAIN rows : RemoveRow(i) \/ EditRow(i)
    \/ \E key \in Keys : SetField(key) \/ AddCandidate(key)
    \/ \E file \in BoundedSeq(Row, 1) : ReadCsv(file) \/ LoadJson(file) \/ CopyFrom(file)
    \/ \E copy \in AccountTables : CopyShown(copy)
    \/ ChooseCsv \/ CsvFails \/ HandleSave \/ Saved \/ RequestClose \/ DiscardAndClose
    \/ CloseModal \/ CompleteContext

EditorSpec == EditorInit /\ [][EditorNext]_editVars

-----------------------------------------------------------------------------
(* What is saved can be saved: whatever edits, imports and copies came     *)
(* before, no table in localStorage has a key twice or a blank one         *)
(* (validateProfile in handleSave).                                        *)
SavedIsUnique ==
    Tab.list => \A i \in DOMAIN store : store[i].key # Blank /\ \A j \in 1..(i - 1) :
                  RowKey(store[i]) # RowKey(store[j])

(* Without the dialog over unsaved changes, the editor closes only on what *)
(* localStorage has or on the account's copy as this opening showed it     *)
(* (dirty, signature and the mark of an import), unless a save is still    *)
(* under way: an edit taken back meanwhile counts as clean. That copy is   *)
(* not in localStorage yet: the profile in use may be another one.         *)
CloseLosesNothing ==
    [][open /\ ~open' /\ modal = "none"
         => rows \in {store, synced} \/ saving # NoRows]_editVars

(* When the editor closes after a save changed localStorage, App is told   *)
(* that the configuration changed, whatever the account answered between   *)
(* the save and its end, unless that save is still under way               *)
(* (changedFromClean, savedDuringSession). The exception is a save of the  *)
(* account's copy as it was shown: it changes localStorage, and App is not *)
(* told.                                                                   *)
SaveIsTold == [][open /\ ~open' /\ touched => editorChanged \/ saving # NoRows]_editVars

(* What the two answers above rest on: a save under way is of what         *)
(* localStorage has by then, ...                                           *)
SavingIsStored == saving # NoRows => saving = store

(* ... an editor without a save under way takes nothing else for clean but *)
(* the account's copy, ...                                                 *)
CleanIsStored == open /\ saving = NoRows => clean \in {store, NoRows, synced}

(* ... and a change of localStorage was told to App, or will be by the     *)
(* answer of the save under way.                                           *)
ChangeIsTold ==
    open /\ touched => editorChanged \/ (saving # NoRows /\ saveChanges)

(* What the editor of a profile promises (DetectionConfiguration.tsx,      *)
(* validation.ts).                                                         *)
EditorInv ==
    /\ EditorTypeOK
    /\ SavedIsUnique
    /\ SavingIsStored
    /\ CleanIsStored
    /\ ChangeIsTold
=============================================================================
