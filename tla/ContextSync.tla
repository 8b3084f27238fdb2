------------------------------ MODULE ContextSync ------------------------------
(***************************************************************************)
(* One Analysis Context profile of an account, edited in several browsers: *)
(* the copy of the account (context_profile_store.py behind                *)
(* contextProfileService.ts), the copy in each browser's localStorage      *)
(* (profile.ts) and the one in each open editor                            *)
(* (DetectionConfiguration.tsx). Content is the number of the edit that    *)
(* made it. The clocks of the browsers and of the server agree, and a      *)
(* browser has one synchronisation and one save under way at a time. The   *)
(* copy in localStorage is the one that analyses use.                      *)
(***************************************************************************)
EXTENDS Integers, FiniteSets

CONSTANTS Browsers,
          MaxEdits,  \* bound of the model: edits
          MaxWrites  \* bound of the model: values of the clock

ASSUME WritesAssumption == MaxEdits \in Nat /\ MaxWrites \in Nat
ASSUME BrowsersAssumption == Browsers # {}

VARIABLES
    edits,    \* edits made so far
    clock,    \* time of the last write of a profile
    account,  \* the account's copy and its updatedAt
    local,    \* each browser's copy and its updatedAt
    syncEditor, \* open, the content shown, the content taken as clean, close asked
    sync,     \* where the synchronisation of the last opening is, and its copy
    save,     \* the content a save has under way, or NoEdit
    storedProfile, \* history: contents the account has had
    latest,   \* history: the browser and the content of the last save
    behind,   \* history: browsers whose saves did not reach the account
    syncRaced \* history: two writes were under way, or an old copy was stamped anew

syncVars == <<edits, clock, account, local, syncEditor, sync, save, storedProfile, latest,
              behind, syncRaced>>

NoEdit == -1
Copy == [edit : 0..MaxEdits, at : 0..MaxWrites]
Closed == [open |-> FALSE, shown |-> 0, clean |-> 0, asked |-> FALSE]
NoSync == [stage |-> "none", copy |-> [edit |-> 0, at |-> 0]]

(* Copies, editors and requests are well formed, and no copy is younger    *)
(* than the clock.                                                         *)
SyncTypeOK ==
    /\ edits \in 0..MaxEdits /\ clock \in 0..MaxWrites
    /\ account \in Copy /\ account.at <= clock
    /\ local \in [Browsers -> Copy] /\ \A b \in Browsers : local[b].at <= clock
    /\ syncEditor \in [Browsers -> [open : BOOLEAN, shown : 0..MaxEdits,
                                clean : 0..MaxEdits, asked : BOOLEAN]]
    /\ sync \in [Browsers -> [stage : {"none", "list", "push", "relist"}, copy : Copy]]
    /\ save \in [Browsers -> NoEdit..MaxEdits]
    /\ storedProfile \subseteq 0..MaxEdits
    /\ latest \in [by : Browsers, edit : 0..MaxEdits]
    /\ behind \subseteq Browsers /\ syncRaced \in BOOLEAN

SyncInit ==
    /\ edits = 0 /\ clock = 0
    /\ account = [edit |-> 0, at |-> 0]
    /\ local = [b \in Browsers |-> [edit |-> 0, at |-> 0]]
    /\ syncEditor = [b \in Browsers |-> Closed]
    /\ sync = [b \in Browsers |-> NoSync]
    /\ save = [b \in Browsers |-> NoEdit]
    /\ storedProfile = {0} /\ latest = [by |-> CHOOSE b \in Browsers : TRUE, edit |-> 0]
    /\ behind = {} /\ syncRaced = FALSE

-----------------------------------------------------------------------------
Unsaved(b) == syncEditor[b].shown # syncEditor[b].clean

ShowProfile(b, edit) == syncEditor' = [syncEditor EXCEPT ![b].shown = edit, ![b].clean = edit]

Tick == clock < MaxWrites /\ clock' = clock + 1

(* A browser is writing to the account, or has decided to. *)
Writing(b) == save[b] # NoEdit \/ sync[b].stage = "push"

(* The effect on the opening of the editor. *)
OpenEditor(b) ==
    /\ ~syncEditor[b].open /\ sync[b].stage = "none" /\ save[b] = NoEdit
    /\ syncEditor' = [syncEditor EXCEPT ![b] = [open |-> TRUE, shown |-> local[b].edit,
                                        clean |-> local[b].edit, asked |-> FALSE]]
    /\ sync' = [sync EXCEPT ![b] = [stage |-> "list", copy |-> local[b]]]
    /\ UNCHANGED <<edits, clock, account, local, save, storedProfile, latest, behind, syncRaced>>

(* A faulty SyncListed: any copy that differs is sent. *)
SyncListedFault(b) ==
    /\ sync[b].stage = "list"
    /\ sync' = [sync EXCEPT ![b].stage =
                  IF sync[b].copy.edit # account.edit THEN "push" ELSE "relist"]
    /\ syncRaced' = (syncRaced \/ \E c \in Browsers \ {b} : Writing(c))
    /\ UNCHANGED <<edits, clock, account, local, syncEditor, save, storedProfile, latest, behind>>

(* The listing of the account's copies decides whether the browser's one   *)
(* is sent.                                                                *)
SyncListed(b) ==
    /\ sync[b].stage = "list"
    /\ sync' = [sync EXCEPT ![b].stage =
                  IF sync[b].copy.at > account.at THEN "push" ELSE "relist"]
    /\ syncRaced' = (syncRaced \/ \E c \in Browsers \ {b} : Writing(c))
    /\ UNCHANGED <<edits, clock, account, local, syncEditor, save, storedProfile, latest, behind>>

(* saveRemoteContextProfile: the server stamps what it gets with its time. *)
Store(edit) ==
    /\ Tick
    /\ account' = [edit |-> edit, at |-> clock + 1]
    /\ storedProfile' = storedProfile \cup {edit}

SyncPushed(b) ==
    /\ sync[b].stage = "push" /\ Store(sync[b].copy.edit)
    /\ sync' = [sync EXCEPT ![b].stage = "relist"]
    /\ syncRaced' = (syncRaced \/ \E c \in Browsers : \/ save[c] # NoEdit
                                             \/ /\ c \in behind \cup {b}
                                                /\ local[c].at > sync[b].copy.at)
    /\ UNCHANGED <<edits, local, syncEditor, save, latest, behind>>

(* The second listing replaces what the editor shows, unless it was closed *)
(* meanwhile.                                                              *)
SyncShown(b) ==
    /\ sync[b].stage = "relist"
    /\ sync' = [sync EXCEPT ![b] = NoSync]
    /\ IF syncEditor[b].open THEN ShowProfile(b, account.edit) ELSE UNCHANGED syncEditor
    /\ behind' = IF sync[b].copy = local[b] THEN behind \ {b} ELSE behind
    /\ UNCHANGED <<edits, clock, account, local, save, storedProfile, latest, syncRaced>>

SyncFails(b) ==
    /\ sync[b].stage # "none"
    /\ sync' = [sync EXCEPT ![b] = NoSync]
    /\ UNCHANGED <<edits, clock, account, local, syncEditor, save, storedProfile, latest, behind,
                   syncRaced>>

(* Any control of the editor that changes the profile. *)
EditProfile(b) ==
    /\ syncEditor[b].open /\ ~syncEditor[b].asked
    /\ edits < MaxEdits /\ edits' = edits + 1
    /\ syncEditor' = [syncEditor EXCEPT ![b].shown = edits + 1]
    /\ UNCHANGED <<clock, account, local, sync, save, storedProfile, latest, behind, syncRaced>>

(* handleSave writes localStorage, then asks the server; *)
SaveInEditor(b) ==
    /\ syncEditor[b].open /\ ~syncEditor[b].asked /\ save[b] = NoEdit
    /\ Tick
    /\ local' = [local EXCEPT ![b] = [edit |-> syncEditor[b].shown, at |-> clock + 1]]
    /\ save' = [save EXCEPT ![b] = syncEditor[b].shown]
    /\ latest' = [by |-> b, edit |-> syncEditor[b].shown]
    /\ syncRaced' = (syncRaced \/ \E c \in Browsers \ {b} : Writing(c))
    /\ UNCHANGED <<edits, account, syncEditor, sync, storedProfile, behind>>

(* its answer, or the lack of one, shows what was saved. *)
SaveStored(b) ==
    /\ save[b] # NoEdit /\ Store(save[b])
    /\ save' = [save EXCEPT ![b] = NoEdit]
    /\ ShowProfile(b, save[b])
    /\ behind' = behind \ {b}
    /\ syncRaced' = (syncRaced \/ sync[b].stage = "push")
    /\ UNCHANGED <<edits, local, sync, latest>>

SaveUnsynced(b) ==
    /\ save[b] # NoEdit
    /\ save' = [save EXCEPT ![b] = NoEdit]
    /\ ShowProfile(b, save[b])
    /\ behind' = behind \cup {b}
    /\ UNCHANGED <<edits, clock, account, local, sync, storedProfile, latest, syncRaced>>

(* requestClose, and the dialog it opens over unsaved changes. *)
RequestCloseEditor(b) ==
    /\ syncEditor[b].open /\ ~syncEditor[b].asked
    /\ syncEditor' = IF Unsaved(b) THEN [syncEditor EXCEPT ![b].asked = TRUE]
                 ELSE [syncEditor EXCEPT ![b].open = FALSE]
    /\ UNCHANGED <<edits, clock, account, local, sync, save, storedProfile, latest, behind,
                   syncRaced>>

AnswerClose(b) ==
    /\ syncEditor[b].open /\ syncEditor[b].asked
    /\ \/ syncEditor' = [syncEditor EXCEPT ![b].asked = FALSE]
       \/ syncEditor' = [syncEditor EXCEPT ![b].asked = FALSE, ![b].open = FALSE]
    /\ UNCHANGED <<edits, clock, account, local, sync, save, storedProfile, latest, behind,
                   syncRaced>>

SyncNext == \E b \in Browsers :
    \/ OpenEditor(b) \/ SyncListed(b) \/ SyncPushed(b) \/ SyncShown(b) \/ SyncFails(b)
    \/ EditProfile(b) \/ SaveInEditor(b) \/ SaveStored(b) \/ SaveUnsynced(b)
    \/ RequestCloseEditor(b) \/ AnswerClose(b)

SyncSpec == SyncInit /\ [][SyncNext]_syncVars

-----------------------------------------------------------------------------
(* An editor that reports no unsaved changes shows a content that          *)
(* localStorage has or the account has had: the answers of a save and of a *)
(* synchronisation mark as clean what was stored, not what was typed       *)
(* meanwhile (handleSave, the effect on the opening of the editor).        *)
CleanMeansStored ==
    \A b \in Browsers : syncEditor[b].open /\ ~Unsaved(b) =>
        syncEditor[b].shown \in storedProfile \cup {local[b].edit}

(* The account ends with the profile saved last, by whichever browser,     *)
(* once that browser's save or a later synchronisation went through, unless*)
(* two browsers wrote at the same time or an old copy was stamped anew.    *)
AccountIsNewest ==
    (\A b \in Browsers : ~Writing(b)) /\ ~syncRaced /\ latest.by \notin behind =>
        account.edit = latest.edit

(* The parts of the inductive invariant that are not properties of their   *)
(* own. Copies are of edits that were made; a save is of what localStorage *)
(* has by then.                                                            *)
EditsAreMade ==
    /\ account.edit \in storedProfile /\ account.edit <= edits
    /\ \A b \in Browsers :
          /\ local[b].edit <= edits /\ sync[b].copy.edit <= edits
          /\ syncEditor[b].shown <= edits /\ syncEditor[b].clean <= edits
          /\ save[b] # NoEdit => save[b] = local[b].edit

(* The copy saved last is the youngest of the browsers' copies, the one    *)
(* under synchronisation is not younger than that of its browser, and what *)
(* the account has by the second listing is not older.                     *)
CopiesAreOrdered ==
    /\ latest.edit = local[latest.by].edit
    /\ \A b \in Browsers : local[b].at <= local[latest.by].at
    /\ \A b, c \in Browsers : b # c /\ local[b].at = local[c].at => local[b].at = 0
    /\ \A b \in Browsers : sync[b].stage # "none" =>
          sync[b].copy = local[b] \/ sync[b].copy.at < local[b].at
    /\ \A b \in Browsers : sync[b].stage = "relist" => sync[b].copy.at <= account.at

(* Unless writes raced, one browser writes at a time, its copy is younger  *)
(* than the account's, ...                                                 *)
OneWrites ==
    ~syncRaced =>
        /\ \A b, c \in Browsers : Writing(b) /\ Writing(c) => b = c
        /\ \A b \in Browsers : save[b] # NoEdit =>
              b = latest.by /\ account.at < local[b].at
        /\ \A b \in Browsers : sync[b].stage = "push" =>
              sync[b].copy.at > account.at

(* ... and the account's copy is the one saved last once it is as young.   *)
AccountFollows ==
    ~syncRaced =>
        /\ latest.by \notin behind /\ save[latest.by] = NoEdit =>
              account.at >= local[latest.by].at
        /\ account.at >= local[latest.by].at => account.edit = latest.edit

(* What the synchronisation of a profile promises                          *)
(* (DetectionConfiguration.tsx, contextProfileService.ts).                 *)
SyncInv ==
    /\ SyncTypeOK
    /\ CleanMeansStored
    /\ AccountIsNewest
    /\ EditsAreMade
    /\ CopiesAreOrdered
    /\ OneWrites
    /\ AccountFollows
=============================================================================
