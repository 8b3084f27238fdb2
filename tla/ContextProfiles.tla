---------------------------- MODULE ContextProfiles ----------------------------
(***************************************************************************)
(* The Analysis Context profiles of a browser: the list and the active one *)
(* in localStorage with what older versions left there (profile.ts), and   *)
(* the three places that work on copies of them: the dialog that starts an *)
(* analysis (UploadForm.tsx), the selector of detection modules            *)
(* (DetectionModuleSelector.tsx) and the editor (DetectionConfiguration),  *)
(* which may show the copy of the account instead. Of a profile the model  *)
(* keeps its id, its name, the role of one segment, which of two           *)
(* selections of modules it has and, in localStorage, updatedAt: a copy    *)
(* has 0 there, for a save sets it anew. New ids are random in the code    *)
(* and come from a small set here.                                         *)
(***************************************************************************)
EXTENDS Integers, Sequences, FiniteSets, SequencesExt

CONSTANTS Ids,      \* ids of profiles
          NoProfile,
          Leftovers, \* profiles older versions may have left, both their keys joined
          Brought,  \* what the account or a file may bring
          MaxSaves  \* bound of the model: the time of the last save

ASSUME SavesAssumption == MaxSaves \in Nat \ {0}

Profile == [id : Ids, name : {"default", "own"}, role : {"unknown", "ot"},
            modules : 0..1, at : 0..MaxSaves]

ASSUME NoProfileAssumption == NoProfile \notin Ids \cup Profile
ASSUME LeftoversAssumption == \A list \in Leftovers : list \in Seq(Profile)
ASSUME BroughtAssumption == Brought \subseteq {p \in Profile : p.at = 0}

VARIABLES
    stored,   \* the profiles of STORAGE_KEY
    legacy,   \* those of LEGACY_STORAGE_KEYS, which nothing removes
    activeId, \* ACTIVE_KEY
    legacyActive, \* the first of LEGACY_ACTIVE_KEYS
    saves,    \* the clock of updatedAt
    removed,  \* history: ids of removed profiles
    dialog,   \* contextDialogOpen
    memo,     \* the profiles of the dialog
    chosen,   \* selectedProfileId
    outdated, \* history: localStorage changed and the dialog was not told
    astray,   \* history: the active id comes from such a dialog
    selector, \* the profile of the module selector and its selection, or NoProfile
    editor,   \* the clean profile of the editor, or NoProfile
    accountIds, \* ids of the profile the account's answer may show
    pendingSave, \* the profile handleSave waits with, or NoProfile
    pendingChanged, \* its changedFromClean
    selectionChanged \* savedDuringSession

keyVars == <<legacy, legacyActive>>
dialogVars == <<dialog, memo, chosen, outdated>>
editorVars == <<editor, accountIds, pendingSave, pendingChanged, selectionChanged>>
profVars == <<stored, activeId, saves, removed, astray, selector, keyVars, dialogVars, editorVars>>

IdsOf(list) == {list[i].id : i \in DOMAIN list}
Earliest(positions) == CHOOSE i \in positions : \A j \in positions : i <= j
(* The elements of a list that are in a set. *)
Filtered(list, wanted) ==
    LET front[n \in 0..Len(list)] ==
          IF n = 0 THEN <<>>
          ELSE IF list[n] \in wanted THEN Append(front[n - 1], list[n]) ELSE front[n - 1]
    IN front[Len(list)]
(* The first with an id. *)
WithId(list, id) == list[Earliest({i \in DOMAIN list : list[i].id = id})]
Copied(p) == [p EXCEPT !.at = 0]

(* Profiles and dialogs are well formed; the selector and the editor are   *)
(* never open together.                                                    *)
ProfilesTypeOK ==
    /\ stored \in Seq(Profile) /\ legacy \in Seq(Profile) /\ memo \in Seq(Profile)
    /\ {activeId, legacyActive, chosen} \subseteq Ids \cup {NoProfile}
    /\ saves \in 1..MaxSaves
    /\ dialog \in BOOLEAN /\ outdated \in BOOLEAN /\ astray \in BOOLEAN
    /\ selectionChanged \in BOOLEAN /\ pendingChanged \in BOOLEAN
    /\ selector = NoProfile \/ selector \in [base : Profile, modules : 0..1]
    /\ {editor, pendingSave} \subseteq Profile \cup {NoProfile}
    /\ accountIds \subseteq Ids
    /\ selector = NoProfile \/ editor = NoProfile

-----------------------------------------------------------------------------
(* recoverSegmentContext: what the older profile with its id, or the only  *)
(* one with its name, says of a segment it leaves unknown.                 *)
Recover(p) ==
    LET same == {i \in DOMAIN legacy : legacy[i].id = p.id}
        named == {i \in DOMAIN legacy : legacy[i].name = p.name}
        old == IF same # {} THEN same ELSE IF Cardinality(named) = 1 THEN named ELSE {}
    IN IF old # {} /\ p.role = "unknown" THEN [p EXCEPT !.role = legacy[Earliest(old)].role] ELSE p

(* migrateLegacyStorage *)
Migrate(list) == IF list = <<>> THEN legacy ELSE [i \in DOMAIN list |-> Recover(list[i])]

MigrateActive(list, current) ==
    IF list = <<>> /\ legacy # <<>> /\ legacyActive # NoProfile THEN legacyActive ELSE current

(* Of those with one id the newest stays, in the place of the first. *)
Newest(list, positions) ==
    list[Earliest({i \in positions : \A j \in positions : list[j].at <= list[i].at})]
Unique(list) ==
    LET firsts == Filtered([i \in DOMAIN list |-> i],
                           {i \in DOMAIN list : \A j \in 1..(i - 1) : list[j].id # list[i].id})
    IN [n \in DOMAIN firsts |->
          Newest(list, {i \in DOMAIN list : list[i].id = list[firsts[n]].id})]

(* dedupeStoredProfiles: of the profiles with the default name the active  *)
(* one stays, or the newest.                                               *)
Dedupe(list, current) ==
    LET unique == Unique(list)
        defaults == {i \in DOMAIN unique : unique[i].name = "default"}
        ofActive == {i \in defaults : unique[i].id = current}
        keep == IF ofActive # {} THEN unique[Earliest(ofActive)] ELSE Newest(unique, defaults)
    IN IF Cardinality(defaults) <= 1 THEN unique
       ELSE Filtered(unique, {p \in Profile : p.name # "default" \/ p.id = keep.id})

(* listProfiles *)
List(list, current) == Dedupe(Migrate(list), MigrateActive(list, current))

ListedProfiles == List(stored, activeId)
ListedActive == MigrateActive(stored, activeId)

(* loadActiveProfile of a list just read, a new profile when it is empty.  *)
ActiveProfile(list, current, p) ==
    LET id == IF current # NoProfile THEN current ELSE legacyActive IN
    IF id \in IdsOf(list) THEN p = Copied(WithId(list, id))
    ELSE IF list # <<>> THEN p = Copied(list[1])
    ELSE /\ p.id \in Ids \ removed
         /\ p = [id |-> p.id, name |-> "default", role |-> "unknown", modules |-> 0, at |-> 0]

(* saveProfile *)
After(p) ==
    LET list == Migrate(stored)
        next == [p EXCEPT !.at = saves + 1]
    IN IF p.id \in IdsOf(list)
       THEN [i \in DOMAIN list |-> IF list[i].id = p.id THEN next ELSE list[i]]
       ELSE Append(list, next)

Stamp(p) ==
    /\ saves < MaxSaves /\ saves' = saves + 1
    /\ activeId' = p.id /\ astray' = FALSE
    /\ UNCHANGED keyVars

(* A save and the reading of the list that follows it. *)
SaveProfile(p) == Stamp(p) /\ stored' = List(After(p), p.id) /\ UNCHANGED removed

(* A reading of the list leaves it migrated and without duplicates. *)
Read ==
    /\ stored' = ListedProfiles /\ activeId' = ListedActive
    /\ UNCHANGED <<saves, removed, astray, keyVars>>

(* The dialog reads the list again. *)
RefreshMemo == memo' = stored' /\ outdated' = FALSE

(* The start of the app reads the list several times. *)
ProfilesInit ==
    /\ legacy \in Leftovers /\ legacyActive \in Ids \cup {NoProfile}
    /\ activeId = MigrateActive(<<>>, NoProfile)
    /\ stored = List(List(<<>>, NoProfile), activeId)
    /\ saves = 1 /\ removed = {} /\ astray = FALSE
    /\ dialog = FALSE /\ memo = stored /\ chosen = NoProfile /\ outdated = FALSE
    /\ selector = NoProfile /\ editor = NoProfile /\ accountIds = {}
    /\ pendingSave = NoProfile /\ pendingChanged = FALSE /\ selectionChanged = FALSE

-----------------------------------------------------------------------------
(* The dialog of UploadForm. *)
OnTop == dialog /\ selector = NoProfile /\ editor = NoProfile

(* The end of processFile, over whatever is open: the active profile is    *)
(* chosen.                                                                 *)
EvidenceArrives ==
    /\ ~dialog
    /\ Read
    /\ \E p \in Profile : /\ ActiveProfile(stored', activeId', p)
                          /\ chosen' = IF p.id \in IdsOf(stored') THEN p.id ELSE NoProfile
    /\ UNCHANGED <<dialog, memo, outdated, selector, editorVars>>

(* The button of its notice. *)
OpenDialog ==
    /\ ~dialog /\ selector = NoProfile /\ editor = NoProfile
    /\ dialog' = TRUE /\ Read /\ RefreshMemo
    /\ UNCHANGED <<chosen, selector, editorVars>>

CloseContextDialog ==
    /\ OnTop /\ dialog' = FALSE /\ Read /\ RefreshMemo
    /\ UNCHANGED <<chosen, selector, editorVars>>

SelectProfile(id) ==
    /\ OnTop /\ id \in IdsOf(memo)
    /\ chosen' = id /\ activeId' = id /\ astray' = (id \notin IdsOf(stored))
    /\ UNCHANGED <<stored, saves, removed, keyVars, dialog, memo, outdated, selector, editorVars>>

SelectedProfile ==
    IF chosen \in IdsOf(memo) THEN WithId(memo, chosen) ELSE memo[1]

(* materializeSelectedProfile: the dialog's copy is saved. *)
Materialize ==
    /\ OnTop /\ memo # <<>>
    /\ SaveProfile(SelectedProfile) /\ RefreshMemo
    /\ UNCHANGED <<chosen, selector>>

StartAnalysisWith == Materialize /\ dialog' = FALSE /\ UNCHANGED editorVars

(* The effect of the editor's opening: it shows the active profile, and    *)
(* asks the account for its copy, which has a profile of the list if there *)
(* is one.                                                                 *)
EditorOpens ==
    /\ \E p \in Profile : ActiveProfile(stored', activeId', p) /\ editor' = p
    /\ accountIds' = IF stored' # <<>> THEN {editor'.id} ELSE Ids
    /\ selectionChanged' = FALSE
    /\ UNCHANGED <<pendingSave, pendingChanged>>

EditSelected == Materialize /\ EditorOpens /\ UNCHANGED dialog

(* createNewDetectionContext *)
CreateContext(id) ==
    LET p == [id |-> id, name |-> "own", role |-> "unknown", modules |-> 0, at |-> 0] IN
    /\ OnTop /\ id \notin IdsOf(stored) \cup IdsOf(legacy) \cup removed
    /\ SaveProfile(p) /\ RefreshMemo
    /\ chosen' = id
    /\ EditorOpens
    /\ UNCHANGED <<dialog, selector>>

(* A faulty DeleteSelected: the shorter list is shown and not written. *)
DeleteSelectedFault ==
    LET id == SelectedProfile.id IN
    /\ OnTop /\ memo # <<>>
    /\ removed' = removed \cup {id}
    /\ memo' = Filtered(ListedProfiles, {p \in Profile : p.id # id})
    /\ chosen' = IF memo' # <<>> THEN memo'[1].id ELSE NoProfile
    /\ activeId' = chosen' /\ astray' = FALSE /\ outdated' = FALSE
    /\ UNCHANGED <<stored, saves, keyVars, dialog, selector, editorVars>>

(* removeProfile, the next profile in its place, and a reading. *)
DeleteSelected ==
    LET id == SelectedProfile.id
        remaining == Filtered(ListedProfiles, {p \in Profile : p.id # id})
        next == IF remaining # <<>> THEN remaining[1].id
                ELSE IF ListedActive = id THEN NoProfile ELSE ListedActive
    IN
    /\ OnTop /\ memo # <<>>
    /\ removed' = removed \cup {id}
    /\ chosen' = IF remaining # <<>> THEN remaining[1].id ELSE NoProfile
    /\ stored' = List(remaining, next) /\ activeId' = MigrateActive(remaining, next)
    /\ astray' = (astray /\ activeId' = activeId)
    /\ RefreshMemo
    /\ UNCHANGED <<saves, keyVars, dialog, selector, editorVars>>

-----------------------------------------------------------------------------
(* The module selector. *)
OpenSelector ==
    /\ selector = NoProfile /\ editor = NoProfile
    /\ Read
    /\ \E p \in Profile : ActiveProfile(stored', activeId', p)
                          /\ selector' = [base |-> p, modules |-> p.modules]
    /\ UNCHANGED <<dialogVars, editorVars>>

ToggleModules ==
    /\ selector # NoProfile
    /\ selector' = [selector EXCEPT !.modules = 1 - @]
    /\ UNCHANGED <<stored, activeId, saves, removed, astray, keyVars, dialogVars, editorVars>>

SelectionChanged == selector.modules # selector.base.modules
SelectorProfile == [selector.base EXCEPT !.modules = selector.modules]

(* save: App is told of a change, and the dialog reads the list again. *)
SaveSelection ==
    /\ selector # NoProfile /\ selector' = NoProfile
    /\ IF SelectionChanged
       THEN SaveProfile(SelectorProfile) /\ RefreshMemo
       ELSE UNCHANGED <<stored, activeId, saves, removed, astray, keyVars, memo, outdated>>
    /\ UNCHANGED <<dialog, chosen, editorVars>>

CloseSelector ==
    /\ selector # NoProfile /\ selector' = NoProfile
    /\ UNCHANGED <<stored, activeId, saves, removed, astray, keyVars, dialogVars, editorVars>>

(* openDetectionContext: the selection is saved, App only opens the editor. *)
LeaveForContext ==
    /\ selector # NoProfile /\ selector' = NoProfile
    /\ IF SelectionChanged
       THEN SaveProfile(SelectorProfile) /\ outdated' = TRUE
       ELSE Read /\ UNCHANGED outdated
    /\ EditorOpens
    /\ UNCHANGED <<dialog, memo, chosen>>

-----------------------------------------------------------------------------
(* The editor, opened on the active profile. *)
OpenProfileEditor ==
    /\ selector = NoProfile /\ editor = NoProfile
    /\ Read /\ EditorOpens
    /\ UNCHANGED <<dialogVars, selector>>

(* The account answers: its copy is shown as clean, and not stored. *)
ShowAccountCopy(p) ==
    /\ editor # NoProfile /\ p.id \in accountIds
    /\ editor' = p /\ accountIds' = {}
    /\ UNCHANGED <<stored, activeId, saves, removed, astray, keyVars, dialogVars, selector,
                   pendingSave, pendingChanged, selectionChanged>>

(* handleSave up to the account: the profile as it was, edited, or read    *)
(* from a file under a new id. What is not new to the editor but is to     *)
(* localStorage will not be told.                                          *)
SaveEdited(p) ==
    /\ editor # NoProfile /\ pendingSave = NoProfile
    /\ p.at = 0
    /\ IF p.id = editor.id THEN p.modules = editor.modules
       ELSE p \in Brought /\ p.id \notin IdsOf(stored) \cup IdsOf(legacy) \cup removed
    /\ Stamp(p) /\ stored' = After(p) /\ removed' = removed \ {p.id}
    /\ pendingSave' = p /\ pendingChanged' = (p # editor)
    /\ outdated' = \/ outdated
                   \/ p = editor /\ \A i \in DOMAIN stored : Copied(stored[i]) # p
    /\ UNCHANGED <<dialog, memo, chosen, selector, editor, accountIds, selectionChanged>>

(* The account has answered, whether the editor is still open or not. *)
SaveEdits ==
    /\ pendingSave # NoProfile /\ pendingSave' = NoProfile /\ pendingChanged' = FALSE
    /\ selectionChanged' = (selectionChanged \/ pendingChanged)
    /\ editor' = IF editor = NoProfile THEN NoProfile ELSE pendingSave
    /\ Read
    /\ UNCHANGED <<dialogVars, selector, accountIds>>

(* requestClose: App is told if a changed profile was saved. *)
CloseEditor ==
    /\ editor # NoProfile /\ editor' = NoProfile /\ accountIds' = {}
    /\ IF selectionChanged
       THEN Read /\ RefreshMemo
       ELSE /\ outdated' = (outdated \/ pendingChanged)
            /\ UNCHANGED <<stored, activeId, saves, removed, astray, keyVars, memo>>
    /\ UNCHANGED <<dialog, chosen, selector, pendingSave, pendingChanged, selectionChanged>>

ProfilesNext ==
    \/ EvidenceArrives \/ OpenDialog \/ CloseContextDialog \/ StartAnalysisWith \/ EditSelected
    \/ DeleteSelected \/ OpenSelector \/ ToggleModules \/ SaveSelection \/ CloseSelector
    \/ LeaveForContext \/ OpenProfileEditor \/ SaveEdits \/ CloseEditor
    \/ \E id \in Ids : SelectProfile(id) \/ CreateContext(id)
    \/ \E p \in Brought : ShowAccountCopy(p)
    \/ \E p \in Profile : SaveEdited(p)

ProfilesSpec == ProfilesInit /\ [][ProfilesNext]_profVars

-----------------------------------------------------------------------------
(* What a list says, but for updatedAt and for what the next reading fills *)
(* in from older versions.                                                 *)
ContentOf(list) == [i \in DOMAIN list |-> Copied(Recover(list[i]))]

(* The active profile is one of the list, whatever is removed, migrated or *)
(* dropped as a duplicate, unless an older version's key names none or the *)
(* user chose it in a dialog that was not told of its end.                 *)
ActiveIsListed ==
    \/ activeId \in IdsOf(stored) \cup {NoProfile}
    \/ activeId = legacyActive /\ legacyActive \notin IdsOf(legacy)
    \/ astray

(* The dialog analyzes with, and saves, the profiles of localStorage and   *)
(* not older copies, unless App was not told of a save: of a selection of  *)
(* modules on the way from the selector to the editor, of a new profile or *)
(* the account's copy saved as the editor showed it, or of a save during   *)
(* which the editor was closed.                                            *)
DialogIsCurrent == OnTop => ContentOf(memo) = ContentOf(stored) \/ outdated

(* A removed profile comes back only if the user saves the account's copy  *)
(* of it or an older version left it behind: no copy of the dialog or the  *)
(* selector brings it back.                                                *)
RemovedStaysRemoved == removed \cap IdsOf(stored) \subseteq IdsOf(legacy)

(* Only the user removes a profile, but for one of two with the default    *)
(* name, of which the other stays or is the one removed.                   *)
NothingVanishes ==
    [][\A i \in DOMAIN stored :
          \/ stored[i].id \in IdsOf(stored') \cup removed'
          \/ /\ stored[i].name = "default"
             /\ \/ \E j \in DOMAIN stored' : stored'[j].name = "default"
                \/ \E j \in DOMAIN stored \ {i} :
                     stored[j].name = "default" /\ stored[j].id \in removed']_profVars

(* What the profiles of a browser promise (profile.ts, UploadForm.tsx,     *)
(* DetectionModuleSelector.tsx).                                           *)
ProfilesInv ==
    /\ ProfilesTypeOK
    /\ ActiveIsListed
    /\ DialogIsCurrent
    /\ RemovedStaysRemoved
=============================================================================
