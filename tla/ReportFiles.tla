------------------------------ MODULE ReportFiles ------------------------------
(***************************************************************************)
(* A report as a JSON file: what App writes when one is exported, in full  *)
(* or without the sections hidden from view (App.tsx), and what it makes   *)
(* of a file that is opened (reportCompatibility.ts).                      *)
(*                                                                         *)
(* A named of a file has a name of now and one of older reports, snake and *)
(* camel here; its value is a word for what can be told apart of it. All   *)
(* that a section shows is one value; notes and reviewed values are on or  *)
(* off, and a record of them is there or not: <<notes>> or <<>>.         *)
(***************************************************************************)
EXTENDS Integers

CONSTANTS FileSections, \* the keys of modules, and the sections that show them
          SourceFiles,  \* reports written by the server, now or long ago, or by hand
          FileIds,      \* ids a file may have
          TemporaryId(_), \* legacy-<Date.now()>
          MaxFileOpens, MaxFileNotes \* bounds of the model

ASSUME FilesAssumption == {MaxFileOpens, MaxFileNotes} \subseteq Nat /\ FileSections # {}

FileNoteKeys == {"section", "entity"} \X FileSections
NoFileNotes == [k \in FileNoteKeys |-> FALSE]

FileReportIds == FileIds \cup {TemporaryId(n) : n \in 1..MaxFileOpens}

(* The values that a file may lack, and the words for the others.          *)
Lacking == {"absent", "null", "junk", "blank"}
Contents == {"empty", "full"}
Versions == {"1", "2", "3"}

FileNotes == [FileNoteKeys -> BOOLEAN]
BothNames(values) == [snake : values, camel : values]

FileForms ==
    [version : BothNames(Lacking \cup Versions), id : BothNames(Lacking \cup FileReportIds),
     hasModules : BOOLEAN, modules : [FileSections -> BothNames(Lacking \cup Contents)],
     notes : BothNames({<<>>} \cup {<<notes>> : notes \in FileNotes}),
     warnings : [missing : SUBSET FileSections, id : BOOLEAN], migrated : BOOLEAN]

ASSUME SourcesAssumption == SourceFiles \subseteq FileForms
ASSUME FileIdsAssumption == FileReportIds \cap Lacking = {}

VARIABLES
    openReport,  \* report of App, <<>> or one
    screenNotes, \* sectionNotes, entityNotes and entityOverrides
    storedNotes, \* localStorage: the notes of each report, by its id
    inView,      \* visibleReportSections
    exports,     \* history: the files written, with what was on screen
    fileOpens, fileSaves

fileVars == <<openReport, screenNotes, storedNotes, inView, exports, fileOpens, fileSaves>>

(* What normalizeElevadrReport returns.                                    *)
IsNormal(r) ==
    /\ r \in FileForms /\ r.hasModules
    /\ r.id.snake \in FileReportIds /\ r.version.snake = "2"
    /\ \A s \in FileSections :
         r.modules[s].snake \in Contents /\ r.modules[s].camel = "absent"

FilesTypeOK ==
    /\ openReport # <<>> => openReport = <<openReport[1]>> /\ IsNormal(openReport[1])
    /\ screenNotes \in FileNotes
    /\ storedNotes \in [FileReportIds -> FileNotes]
    /\ inView \in (SUBSET FileSections) \ {{}}
    /\ fileOpens \in 0..MaxFileOpens /\ fileSaves \in 0..MaxFileNotes

FilesInit ==
    /\ openReport = <<>> /\ screenNotes = NoFileNotes
    /\ storedNotes = [i \in FileReportIds |-> NoFileNotes]
    /\ inView = FileSections /\ exports = {} /\ fileOpens = 0 /\ fileSaves = 0

-----------------------------------------------------------------------------
(* first: the value under the first name that has one.                     *)
First(named) ==
    IF named.snake \notin {"absent", "null"} THEN named.snake
    ELSE IF named.camel \notin {"absent", "null"} THEN named.camel ELSE "absent"

(* record, array, stringValue and numberValue: what is of another type, or *)
(* blank, is replaced. *)
ReadAs(value, fallback) ==
    IF value \in {"absent", "junk", "blank"} THEN fallback ELSE value

(* sourceVersion of a report without one is legacy-unversioned, of v1.     *)
Major(file) == ReadAs(First(file.version), "1")

FileRefused(file) == Major(file) \notin {"1", "2"} \/ ~file.hasModules

(* defaultModules *)
EmptySection == "empty"

NormalModules(modules) ==
    [s \in FileSections |-> [snake |-> ReadAs(First(modules[s]), EmptySection),
                             camel |-> "absent"]]

(* What normalizeModules says it filled in: a null is not missing.         *)
Missing(modules) ==
    {s \in FileSections : modules[s] = [snake |-> "absent", camel |-> "absent"]}

(* normalizeElevadrReport of a file that is not refused. *)
Normal(file, temporary) ==
    [file EXCEPT
       !.version.snake = "2",
       !.id.snake = ReadAs(First(file.id), temporary),
       !.modules = NormalModules(file.modules),
       !.warnings = [missing |-> Missing(file.modules), id |-> First(file.id) = "absent"],
       !.migrated = Major(file) # "2" \/ file.version.snake = "absent"]

(* The notes of a report: a record of now hides one of older reports, also *)
(* an empty one. *)
Seeded(file) ==
    LET held == IF file.notes.snake # <<>> THEN file.notes.snake ELSE file.notes.camel
    IN  IF held = <<>> THEN NoFileNotes ELSE held[1]

-----------------------------------------------------------------------------
(* loadJsonReport and handleReportLoaded, then the effects that load the   *)
(* notes: those this browser keeps for the id come before those of the     *)
(* file. The address keeps the sections in view. A file that is refused    *)
(* changes nothing. *)
OpenFile(file) ==
    /\ fileOpens < MaxFileOpens /\ fileOpens' = fileOpens + 1
    /\ UNCHANGED <<storedNotes, inView, exports, fileSaves>>
    /\ IF FileRefused(file)
         THEN UNCHANGED <<openReport, screenNotes>>
         ELSE LET report == Normal(file, TemporaryId(fileOpens'))
              IN  /\ openReport' = <<report>>
                  /\ screenNotes' = [k \in FileNoteKeys |-> Seeded(report)[k]
                                                         \/ storedNotes[report.id.snake][k]]

(* The record of a note is stored whole; deleting takes the key out.      *)
WriteNote(key, on) ==
    /\ openReport # <<>> /\ screenNotes[key] # on
    /\ fileSaves < MaxFileNotes /\ fileSaves' = fileSaves + 1
    /\ screenNotes' = [screenNotes EXCEPT ![key] = on]
    /\ storedNotes' = [storedNotes EXCEPT ![openReport[1].id.snake] =
                  [k \in FileNoteKeys |-> IF k[1] = key[1] THEN screenNotes'[k] ELSE @[k]]]
    /\ UNCHANGED <<openReport, inView, exports, fileOpens>>

ChooseSections(sections) ==
    /\ openReport # <<>> /\ inView' = sections
    /\ UNCHANGED <<openReport, screenNotes, storedNotes, exports, fileOpens, fileSaves>>

(* handleDownloadFullJson: the report as it is held, with the notes on     *)
(* screen under the names of now. *)
FullFile == [openReport[1] EXCEPT !.notes.snake = <<screenNotes>>]

(* buildFilteredReport: the visible sections under names of their own, no  *)
(* modules, and the notes of what is visible. *)
FilteredFile ==
    [openReport[1] EXCEPT
       !.hasModules = FALSE,
       !.modules = [s \in FileSections |->
                      IF s \in inView THEN @[s] ELSE [snake |-> "absent", camel |-> "absent"]],
       !.notes = [snake |-> <<[k \in FileNoteKeys |-> screenNotes[k] /\ k[2] \in inView]>>,
                  camel |-> <<>>]]

Download(file) ==
    /\ exports' = {[file |-> file, of |-> openReport[1], notes |-> screenNotes]}
    /\ UNCHANGED <<openReport, screenNotes, storedNotes, inView, fileOpens, fileSaves>>

FilesNext ==
    \/ \E f \in SourceFiles \cup {e.file : e \in exports} : OpenFile(f)
    \/ \E k \in FileNoteKeys, on \in BOOLEAN : WriteNote(k, on)
    \/ \E sections \in (SUBSET FileSections) \ {{}} : ChooseSections(sections)
    \/ openReport # <<>> /\ exports = {} /\ (Download(FullFile) \/ Download(FilteredFile))

FilesSpec == FilesInit /\ [][FilesNext]_fileVars

-----------------------------------------------------------------------------
(* The part of the inductive invariant that is no property of its own: a   *)
(* file with modules is the report that it was made from, with the notes.  *)
ExportsAreOwn ==
    \A e \in exports :
       /\ IsNormal(e.of) /\ e.notes \in FileNotes /\ e.file \in FileForms
       /\ e.file.hasModules => e.file = [e.of EXCEPT !.notes.snake = <<e.notes>>]

(* A report exported in full opens again, here or in another browser, with *)
(* the id, sections and notes it had on screen, also what was deleted from *)
(* a file of older reports staying deleted, and without a warning. What    *)
(* was exported in part is no report: it is refused, so it can never take  *)
(* the place of the report it was made from. *)
FilesInv ==
    /\ FilesTypeOK
    /\ ExportsAreOwn
    /\ \A e \in exports :
         IF ~e.file.hasModules THEN FileRefused(e.file)
         ELSE /\ ~FileRefused(e.file)
              /\ LET again == Normal(e.file, TemporaryId(1))
                 IN  /\ again.id.snake = e.of.id.snake /\ again.modules = e.of.modules
                     /\ Seeded(again) = e.notes
                     /\ ~again.migrated /\ again.warnings = [missing |-> {}, id |-> FALSE]
=============================================================================
