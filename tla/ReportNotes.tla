------------------------------ MODULE ReportNotes ------------------------------
(***************************************************************************)
(* What an analyst writes about a report: notes for a section, and for an  *)
(* entity a note and reviewed values that override those shown (App.tsx    *)
(* and EntityDrawer.tsx). The texts live in App's state, in localStorage   *)
(* and, by a PATCH nobody waits for, in the report's file at the server.   *)
(* One browser, one report. A text is a number, NoText for none.           *)
(***************************************************************************)
EXTENDS Integers, FiniteSets

CONSTANTS NoteSections, \* sections of the report that carry notes
          Entities,  \* devices, services, connections, findings
          NoEntity,  \* no drawer is open
          MaxNoteText, \* bound of the model: different texts
          MaxNoteSaves \* bound of the model: saves and deletions

ASSUME NoEntityAssumption == NoEntity \notin Entities
ASSUME NoteSavesAssumption == MaxNoteSaves \in Nat /\ MaxNoteText \in Nat \ {0}

NoText == 0
Texts == NoText..MaxNoteText

(* The keys of sectionNotes, entityNotes and entityOverrides. *)
NoteKeys == {<<"section", s>> : s \in NoteSections}
            \cup {<<kind, e>> : kind \in {"note", "review"}, e \in Entities}

VARIABLES
    notes,     \* sectionNotes, entityNotes and entityOverrides of App
    keptNotes, \* localStorage
    fileNotes, \* the report's file at the server
    patches,   \* updateSavedReportNotes under way, numbered
    noteSaves, \* saves so far
    loaded,    \* a report is on screen
    section,   \* activeSection
    noteDialog, \* the dialog for the notes of a section
    drawer,    \* the entity drawer
    disordered \* history: the server missed a PATCH, took two in another order,
               \* or had yet to take one when the report was loaded again

noteStore == <<notes, keptNotes, fileNotes, patches, noteSaves, disordered>>
notesVars == <<noteStore, loaded, section, noteDialog, drawer>>

ClosedDialog == [open |-> FALSE, draft |-> NoText, for |-> CHOOSE s \in NoteSections : TRUE,
                 moved |-> FALSE]

(* An editor of the drawer: open, its draft, and the entity it was opened  *)
(* for. *)
NoDraft(text) == [open |-> FALSE, draft |-> text, for |-> NoEntity]

ClosedDrawer == [entity |-> NoEntity, note |-> NoDraft(NoText), review |-> NoDraft(NoText)]

DrawerEditor == [open : BOOLEAN, draft : Texts, for : Entities \cup {NoEntity}]

NoteRecord == [NoteKeys -> Texts]
EmptyRecord == [k \in NoteKeys |-> NoText]

(* Notes, drafts and requests are well formed, and nothing of a report     *)
(* stays open or in memory once the report was left. *)
NotesTypeOK ==
    /\ {notes, keptNotes, fileNotes} \subseteq NoteRecord
    /\ \A p \in patches : p.saved \in NoteRecord /\ p.number \in 1..noteSaves
    /\ noteSaves \in 0..MaxNoteSaves
    /\ {loaded, disordered} \subseteq BOOLEAN
    /\ section \in NoteSections
    /\ noteDialog \in [open : BOOLEAN, draft : Texts, for : NoteSections, moved : BOOLEAN]
    /\ drawer \in [entity : Entities \cup {NoEntity}, note : DrawerEditor,
                   review : DrawerEditor]
    /\ ~loaded => notes = EmptyRecord /\ ~noteDialog.open
    /\ ~loaded \/ drawer.entity = NoEntity => drawer = ClosedDrawer

NotesInit ==
    /\ notes = EmptyRecord /\ keptNotes = EmptyRecord /\ fileNotes = EmptyRecord
    /\ patches = {} /\ noteSaves = 0 /\ disordered = FALSE
    /\ loaded = FALSE
    /\ section \in NoteSections
    /\ noteDialog = ClosedDialog /\ drawer = ClosedDrawer

-----------------------------------------------------------------------------
(* The effects of App on the report: the notes of the file, overridden by  *)
(* those this browser keeps. A text deleted here is a missing key.         *)
LoadNotes ==
    /\ ~loaded /\ loaded' = TRUE
    /\ notes' = [k \in NoteKeys |-> IF keptNotes[k] # NoText THEN keptNotes[k]
                                                             ELSE fileNotes[k]]
    /\ disordered' = (disordered \/ patches # {})
    /\ UNCHANGED <<keptNotes, fileNotes, patches, noteSaves, section, noteDialog, drawer>>

(* Without a report everything is dropped and closed. *)
LeaveReport ==
    /\ loaded /\ loaded' = FALSE
    /\ notes' = EmptyRecord /\ noteDialog' = ClosedDialog /\ drawer' = ClosedDrawer
    /\ UNCHANGED <<keptNotes, fileNotes, patches, noteSaves, disordered, section>>

(* The observer of App names the section in view; the page scrolls under   *)
(* the dialog as well. *)
ScrollTo(s) ==
    /\ loaded /\ s # section
    /\ section' = s
    /\ noteDialog' = [noteDialog EXCEPT !.moved = noteDialog.open]
    /\ UNCHANGED <<noteStore, loaded, drawer>>

-----------------------------------------------------------------------------
(* A fault: localStorage gets the notes from before the save. *)
KeepFault(key, text) ==
    /\ noteSaves < MaxNoteSaves /\ noteSaves' = noteSaves + 1
    /\ notes' = [notes EXCEPT ![key] = text]
    /\ keptNotes' = [k \in NoteKeys |-> IF k[1] = key[1] THEN notes[k] ELSE keptNotes[k]]
    /\ patches' = patches \cup {[number |-> noteSaves', saved |-> notes']}
    /\ UNCHANGED <<fileNotes, disordered>>

(* A save writes all three records to localStorage and sends them. *)
Keep(key, text) ==
    /\ noteSaves < MaxNoteSaves /\ noteSaves' = noteSaves + 1
    /\ notes' = [notes EXCEPT ![key] = text]
    /\ keptNotes' = [k \in NoteKeys |-> IF k[1] = key[1] THEN notes'[k] ELSE keptNotes[k]]
    /\ patches' = patches \cup {[number |-> noteSaves', saved |-> notes']}
    /\ UNCHANGED <<fileNotes, disordered>>

(* openSectionNotes *)
OpenSectionNotes ==
    /\ loaded /\ ~noteDialog.open /\ drawer.entity = NoEntity
    /\ noteDialog' = [open |-> TRUE, draft |-> notes[<<"section", section>>],
                  for |-> section, moved |-> FALSE]
    /\ UNCHANGED <<noteStore, loaded, section, drawer>>

TypeSectionNote(text) ==
    /\ noteDialog.open /\ text # noteDialog.draft
    /\ noteDialog' = [noteDialog EXCEPT !.draft = text]
    /\ UNCHANGED <<noteStore, loaded, section, drawer>>

(* saveSectionNotes, for the section in view. *)
SaveSectionNotes ==
    /\ noteDialog.open
    /\ Keep(<<"section", section>>, noteDialog.draft)
    /\ noteDialog' = [noteDialog EXCEPT !.open = FALSE]
    /\ UNCHANGED <<loaded, section, drawer>>

(* deleteSectionNotes *)
DeleteSectionNotes ==
    /\ noteDialog.open /\ notes[<<"section", section>>] # NoText
    /\ Keep(<<"section", section>>, NoText)
    /\ noteDialog' = [noteDialog EXCEPT !.open = FALSE, !.draft = NoText]
    /\ UNCHANGED <<loaded, section, drawer>>

(* Cancel, Escape or a click beside the dialog. *)
CloseSectionNotes ==
    /\ noteDialog.open /\ noteDialog' = [noteDialog EXCEPT !.open = FALSE]
    /\ UNCHANGED <<noteStore, loaded, section, drawer>>

-----------------------------------------------------------------------------
(* The drawer's effects: another entity, or other saved texts, end both    *)
(* editors. The record of an entity without reviewed values is a new       *)
(* object whenever App is rendered, which counts as another one.           *)
NoteOf(e, kind) == IF e = NoEntity THEN NoText ELSE notes[<<kind, e>>]
NoteOfNext(e, kind) == IF e = NoEntity THEN NoText ELSE notes'[<<kind, e>>]

(* The drawer after a render of App that shows e. *)
Rendered(e) ==
    LET same == e = drawer.entity IN
    drawer' = [entity |-> e,
         note |-> IF same /\ NoteOfNext(e, "note") = NoteOf(e, "note")
                  THEN drawer.note ELSE NoDraft(NoteOfNext(e, "note")),
         review |-> IF same /\ NoteOfNext(e, "review") # NoText
                            /\ NoteOfNext(e, "review") = NoteOf(e, "review")
                    THEN drawer.review ELSE NoDraft(NoteOfNext(e, "review"))]

(* onSelect: a row, a node of the topology, an entity of another panel. *)
SelectEntity(e) ==
    /\ loaded /\ ~noteDialog.open /\ e # drawer.entity
    /\ UNCHANGED notes /\ Rendered(e)
    /\ UNCHANGED <<keptNotes, fileNotes, patches, noteSaves, disordered, loaded, section,
                   noteDialog>>

(* Anything else renders App: the answer of the poll for jobs, every five  *)
(* seconds, a filter set from the drawer, a change of the section in view. *)
RenderApp ==
    /\ drawer.entity # NoEntity
    /\ UNCHANGED notes /\ Rendered(drawer.entity)
    /\ UNCHANGED <<keptNotes, fileNotes, patches, noteSaves, disordered, loaded, section,
                   noteDialog>>

(* The buttons that open and cancel an editor. *)
OpenDrawerEditor(kind) ==
    /\ drawer.entity # NoEntity /\ ~drawer[kind].open
    /\ drawer' = [drawer EXCEPT ![kind] =
         [open |-> TRUE, draft |-> NoteOf(drawer.entity, kind), for |-> drawer.entity]]
    /\ UNCHANGED <<noteStore, loaded, section, noteDialog>>

CancelDrawerEditor(kind) ==
    /\ drawer[kind].open
    /\ drawer' = [drawer EXCEPT ![kind] = NoDraft(NoteOf(drawer.entity, kind))]
    /\ UNCHANGED <<noteStore, loaded, section, noteDialog>>

TypeInDrawer(kind, text) ==
    /\ drawer[kind].open /\ text # drawer[kind].draft
    /\ drawer' = [drawer EXCEPT ![kind].draft = text]
    /\ UNCHANGED <<noteStore, loaded, section, noteDialog>>

(* saveEntityNote, saveEntityOverrides: App renders, the editor closes. *)
SaveFromDrawer(kind) ==
    /\ drawer[kind].open
    /\ Keep(<<kind, drawer.entity>>, drawer[kind].draft)
    /\ LET other == IF kind = "note" THEN "review" ELSE "note"
           untouched == kind = "review" \/ NoteOf(drawer.entity, "review") # NoText
       IN drawer' = [drawer EXCEPT
             ![kind] = NoDraft(NoteOfNext(drawer.entity, kind)),
             ![other] = IF untouched THEN @ ELSE NoDraft(NoText)]
    /\ UNCHANGED <<loaded, section, noteDialog>>

(* deleteEntityNote, resetEntityOverrides *)
DeleteFromDrawer(kind) ==
    /\ drawer.entity # NoEntity /\ NoteOf(drawer.entity, kind) # NoText
    /\ drawer[kind].open = (kind = "review")
    /\ Keep(<<kind, drawer.entity>>, NoText)
    /\ Rendered(drawer.entity)
    /\ UNCHANGED <<loaded, section, noteDialog>>

CloseDrawer ==
    /\ drawer.entity # NoEntity
    /\ drawer' = ClosedDrawer
    /\ UNCHANGED <<noteStore, loaded, section, noteDialog>>

-----------------------------------------------------------------------------
(* The server replaces the notes of the file; ... *)
PatchArrives(p) ==
    /\ patches' = patches \ {p}
    /\ fileNotes' = p.saved
    /\ disordered' = (disordered \/ \E q \in patches : q.number < p.number)
    /\ UNCHANGED <<notes, keptNotes, noteSaves, loaded, section, noteDialog, drawer>>

(* ... or the request fails, and nobody is told. *)
PatchFails(p) ==
    /\ patches' = patches \ {p}
    /\ disordered' = TRUE
    /\ UNCHANGED <<notes, keptNotes, fileNotes, noteSaves, loaded, section, noteDialog, drawer>>

NotesNext ==
    \/ LoadNotes \/ LeaveReport \/ RenderApp \/ CloseDrawer
    \/ OpenSectionNotes \/ SaveSectionNotes \/ DeleteSectionNotes \/ CloseSectionNotes
    \/ \E s \in NoteSections : ScrollTo(s)
    \/ \E e \in Entities : SelectEntity(e)
    \/ \E text \in Texts : TypeSectionNote(text)
    \/ \E kind \in {"note", "review"} :
          \/ OpenDrawerEditor(kind) \/ CancelDrawerEditor(kind)
          \/ SaveFromDrawer(kind) \/ DeleteFromDrawer(kind)
          \/ \E text \in Texts : TypeInDrawer(kind, text)
    \/ \E p \in patches : PatchArrives(p) \/ PatchFails(p)

NotesSpec == NotesInit /\ [][NotesNext]_notesVars

-----------------------------------------------------------------------------
(* What is on screen for a report is what a reload of the page would show: *)
(* a text saved here is never lost, and one deleted here returns only when *)
(* the server missed the deletion or has yet to take it (saveSectionNotes, *)
(* saveEntityNote and their counterparts, the effects on the report).      *)
ScreenSurvivesReload ==
    loaded => \A k \in NoteKeys :
        \/ keptNotes[k] = notes[k]
        \/ keptNotes[k] = NoText /\ (fileNotes[k] = notes[k] \/ disordered \/ patches # {})

(* When every PATCH arrived in order, the server's file is what the        *)
(* analyst sees: the three records travel together, so that a save of one  *)
(* never takes back another. *)
QuietFileIsExact == loaded /\ patches = {} => disordered \/ fileNotes = notes

(* A draft is saved for the section or entity its editor was opened for,   *)
(* whatever is selected meanwhile. The exception is what the code does: a  *)
(* page that scrolls under the dialog turns it to another section.         *)
DraftStaysWithItsOwner ==
    /\ noteDialog.open => noteDialog.for = section \/ noteDialog.moved
    /\ \A kind \in {"note", "review"} :
         drawer[kind].open => drawer[kind].for = drawer.entity

(* The server's file, once it took the PATCH sent last or, while that one  *)
(* is under way, the PATCH itself, has every text kept here, and what is   *)
(* on screen: the parts of the invariant that make a reload show the same. *)
FileHasKept ==
    patches = {} /\ ~disordered =>
        \A k \in NoteKeys : keptNotes[k] \in {NoText, fileNotes[k]}

LastPatchHasAll ==
    \A p \in patches : (\A q \in patches : q.number <= p.number) /\ ~disordered =>
        /\ loaded => p.saved = notes
        /\ \A k \in NoteKeys : keptNotes[k] \in {NoText, p.saved[k]}

(* What the editors of notes promise (App.tsx, EntityDrawer.tsx).          *)
NotesInv ==
    /\ NotesTypeOK
    /\ ScreenSurvivesReload
    /\ QuietFileIsExact
    /\ DraftStaysWithItsOwner
    /\ FileHasKept
    /\ LastPatchHasAll
=============================================================================
