# eleVADR verification

TLA+ models of the eleVADR reference server, its stores and the browser's
pages, the TLC instances that check them, and TLAPS proofs about the core. Every
definition is translated from the code; PROJECT.json maps each to the lines it
stands for.

## The system

eleVADR turns a packet capture into a report. A React client uploads a capture
to the reference server (`backend/integration/http_reference_server.py`, a
`ThreadingHTTPServer`: one thread per request). A *discovery* job runs Zeek once
and registers the resulting log directory as retained *evidence*; the client
gets a token, merges what was discovered into an *Analysis Context* profile, and
starts an *analysis* job that leases the evidence, runs the detectors and saves
a report. The report is then read in the browser: tables and a map of the
network with filters, searches and saved views, notes, comparison with another
report, export. Reports, captures, users, profiles and audit entries live in
MongoDB and in a storage directory; much of what the browser shows is kept
in localStorage and in the address of the page as well.

### Inventory: the server

| Component | State | Operations | What is hard | What makes it correct |
|---|---|---|---|---|
| Retained evidence cache (`http_reference_server.py` 145-333) | `_EVIDENCE_CACHE`, directories under the cache root | register, snapshot, acquire, release, expiry sweep, exit sweep, restart cleanup | records are popped under the lock and directories deleted after it; expiry against leases; exit hooks beside daemon threads; crash | leased evidence stays; leases are counted exactly; no directory is lost; expired evidence goes |
| Processing jobs (336-574, 853-900, 1058-1084, 1255-1386) | `_DISCOVERY_JOBS`, `_ANALYSIS_JOBS`, worker threads, temporary files | post, poll (which prunes), cancel, worker steps | cancel flag checked and status updated in separate critical sections; saves that fail late; handler errors after the job is entered | finished is final; a cancellation in time wins; workers end clean; started jobs finish |
| Capture store (`auth/capture_store.py`) | `captures` collection, files under `users/*/pcaps` | save, list, path, delete, expire, orphan removal | no lock and no transaction: file and row change in separate steps; quota measured, then written; stale lists of rows | a listed capture has its file; the quota is exceeded by a bounded number of captures |
| Report store (`auth/report_store.py`) with the notes in browsers (`App.tsx` 1595-1812) | `reports` collection, JSON files, React state, localStorage | save, load, notes, rename, delete | notes rewrite the file while it is deleted; requests of one browser overtake each other; two browsers | a listed report loads; a deleted report stays deleted; notes persist |
| Sessions (`auth/service.py`, `security.py`, `database.py`) | users, `session_version`, issued tokens | login, renew, logout, password change, disable, enable | read-modify-write of the version; renewals beside revocations | a revoked session stays revoked; a login ends |
| Backup and restore (`auth/backup_restore.py`) | archive, staging directory, copies for the rollback | dump, copy, publish, validate, restore, roll back | dump and file copy are not atomic and run beside the server; a restore fails between steps | archives are loadable; a restore succeeds or rolls back |
| Login throttle, Zeek runtime, detectors and report building, adapters and contract, topology comparisons and audit, configuration and account tools | failures per address; a subprocess; none; none; one collection each; files written once | - | - | not modelled, see below |

### Inventory: the browser

| Component | State | What is hard | What makes it correct |
|---|---|---|---|
| Captures (`UploadForm.tsx`, parts of `App.tsx`) | pending capture, evidence, dialogs, asynchronous flows, list of the server's jobs, report, prompt to regenerate | a flow outlives its form; recovery after a reload, cancellation and sign-out while flows are under way | an analysis uses the evidence of its capture; busy states and dialogs end |
| Session (`authService.ts`) | token, shared renewal, waiting requests | late 401s, renewals that fail, logout without network | who is shown as signed in holds a token; waiters are served |
| Library and comparison (`App.tsx`, `reportComparison.ts`) | lists, refreshes, selection of two reports | answers out of order; deletions and sign-out while listings are under way; findings without ids | quiet lists are the server's; the comparison is the one of the selection |
| Page, pivots, drill-downs, files (`App.tsx`, `ReportCustomization.tsx`, the panels, `useDrilldown.ts`, `reportCompatibility.ts`) | section in view, timers, address, filters, dialogs, exported files | timers that scroll later; tables that read one filter each in their own way; answers of closed dialogs; files of older versions | the last click wins; a row keeps its own filters; a report exported in full comes back |
| Notes and reviewed values (`App.tsx`, `EntityDrawer.tsx`) | three records of texts, drafts, localStorage, PATCH requests | drafts while the page moves; requests nobody waits for | a reload shows what was on screen; a draft stays with its owner |
| Map of the network (`NetworkTopology.tsx`) | searches and their pages, saved searches, devices drawn and placed, clusters, stored views | the drawn devices are a part of the report's; effects that place and focus; delayed writes | answers are the walks they claim; what is drawn is placed and in focus; a view stays with its report |
| Analysis Context (`DetectionConfiguration.tsx`, `profile.ts`, `zeekScanner.ts`, `csv.ts`, `validation.ts`, `DetectionModuleSelector.tsx`, `analysisContextAdapter.ts`) | profiles in the account, in localStorage, in editors and dialogs; rows with their origin; CSV files | three copies and several browsers; scans merged over edits; migration of older keys; two lists of requirements | saved is stored and unique; user rows survive scans; removed profiles stay removed; files read back |

### How the parts interact

* A discovery worker creates an evidence directory, runs Zeek, **registers** the
  directory in the cache, **saves** the capture in the capture store, and
  publishes the evidence token in its job.
* An analysis request **leases** the evidence once in the handler to validate it
  and again in the worker; the worker **saves** the report in the report store.
* Every evidence operation but a release starts with an expiry sweep; there is
  no background sweeper. Captures expire at listings, saves and start-up.
* Polls of the job list prune finished jobs; cancellation only sets a flag that
  workers look at between their steps.
* Every request checks its token against the account's row; logout, password
  change and disabling raise the row's session version.
* The backup tool is another process over the same database and storage
  directory; it shares no lock with the server.
* The upload form follows jobs by polling; App recovers the jobs it finds on the
  server after a reload. Every call goes through `authenticatedFetch`, which
  renews the token once for all requests that find it expired.
* The profile in localStorage is the one analyses use; the editor synchronises
  it with the account when it opens and when it saves. Discoveries are merged
  into it, and the merged profile is compiled to the policy the server gets.
* The report on screen is one value of App. The pages below it keep state of
  their own, in the address (section, sections in view, pivots) and in
  localStorage by the id of the report (notes, views of the map).

## Modules

| Module | Models | Uses |
|---|---|---|
| `EvidenceLease` | what the evidence cache promises its readers: nothing that is read is removed | - |
| `EvidenceCache` | the evidence cache, one action per critical section or file effect | instantiates `EvidenceLease` with a refinement mapping |
| `EvidenceCacheProofs` | theorems about `EvidenceCache` | extends it |
| `ProcessingJobs` | job tables, handlers and workers | extends `EvidenceCache`: every evidence step of a job is an action of the cache |
| `ProcessingJobsProofs` | theorems about `ProcessingJobs` | extends it and `EvidenceCacheProofs` |
| `CaptureStore` | the capture store, one action per database command or file effect | - |
| `CaptureStoreProofs` | theorems about `CaptureStore` | extends it |
| `Reports` | the report store and the notes in browsers | - |
| `Sessions` | tokens of one account and their revocation | - |
| `BackupRestore` | the tool, beside a server reduced to the order of its file and row writes | - |
| `ReportsProofs` | theorems about `Reports` | extends it |
| `ServerProofs` | theorems about `BackupRestore`, `Sessions`, and about them and the reports side by side | extends `MCServer` and `ReportsProofs` |
| `PcapClient` | captures in the browser, beside a server reduced to its jobs | - |
| `PcapClientProofs` | theorems about `PcapClient` | extends it |
| `ClientSession` | the token of a tab and the requests that share a renewal | - |
| `AnalysesLibrary`, `ReportComparison` | the lists of reports and captures; two reports compared | - |
| `ReportView`, `Pivots`, `Drilldown`, `ReportFiles` | the page of a report: sections and panels, filters, dialogs behind rows, files | - |
| `ReportNotes` | notes and reviewed values, drafts and what is kept of them | - |
| `TopologyQuery`, `SavedSearches`, `TopologyLayout`, `TopologyClusters`, `TopologyState` | the map: searches, saved searches, devices, clusters, stored views | - |
| `ContextSync`, `ContextEditor`, `ContextProfiles` | a profile in the account and several browsers; its editor; the profiles of one browser | - |
| `ContextScan` | scans merged into a profile and the policy compiled from it | - |
| `ContextReadiness`, `CsvCodec` | the two lists of requirements; CSV files | - |
| `CsvProofs` | theorems about `CsvCodec`, and the lemmas on numbers that replace an induction | extends it |
| `BrowserProofs` | theorems about the other modules of the browser, a section for each, and about parts of the pages side by side | extends `MCWorkbench` and `CsvProofs` |
| `MC...` | constants, symmetry sets and constraints for TLC; `MCServer` and `MCWorkbench` put parts that share no state beside each other | extend the above |

Definitions named after a fault ("A fault: ..." in their comment) are variants of
the definition that follows them, with a plausible bug; no specification uses
them. They exist to show that each property can fail.

### State and actions: the server

`EvidenceCache`. A token and the directory it names are one identity `k`;
`issued` makes it as unique as `uuid4` does. `cache[k]` is the record,
`dirs` the disk, `madeWith[k]` the runtime and policy signature Zeek ran under.
`phase[t]` says where thread `t` is inside an operation: `Sweep` (the critical
section of `_cleanup_expired_evidence`) moves it to "clearing" with the popped
records in `doomed[t]`, `RemoveSwept` is the `rmtree` outside the lock, and only
a "cleared" thread may `Register`, `LookUp` or `Acquire`. `Release` and
`RemoveReleased` are the two halves of `_release_evidence`. `Exit` and
`RemoveAtExit` are the atexit hook, which runs while daemon threads still do;
`Stop` is the end of the process, by exit or crash; `Restart` is
`_cleanup_restart_orphans`. Every removal is `rmtree` with its errors ignored:
`Stuck` are the directories it fails to remove, whenever it is tried. File names, hashes and paths are one `pcap` value;
`ChangeRuntime` is an operator replacing the policy file or runtime.

`ProcessingJobs`. A job is a thread of the cache, from the request handler that
creates it to the end of its worker; `pc` is its control point. `PostDiscovery`,
`PostReuse`, `PostUpload` and `PostRetained` are the four ways into the server,
with the errors each can answer with before and after the job is entered.
`CheckProgress` and `UpdateProgress` are the two critical sections of
`progress()`; `working` is Zeek, parsing and the detectors, which call it any
number of times. `SaveReport` may raise before or after the report is visible,
as the store writes and then reloads. `CleanUp` and `Unlink` are the finally
branch; the removal of an upload in `StuckUploads` raises, and the worker goes on. The capture store and the report store appear as the sets of what they
hold. Owner checks, messages and progress values are left out.

`CaptureStore`. One owner, captures of equal size, quota and retention enabled.
`save_bytes` is `ScanExpired`, `UnlinkExpired`/`DeleteExpired` per row,
`FindExisting`, then `Touch` and `Reload`, or `Measure`, `WriteFile` and
`InsertRow`, where the unique index may refuse the row. Any command of a request
may raise (`Raise`) and end it where it is, after its file was removed as well. `usedAt` and
`disturbed` are history variables.

`Reports`. Threads run `save`, `update_notes`, `rename`, `delete` and `load` as
their database commands and file effects (`BeginRequest`, `ContinueRequest`). A
browser holds what it shows and a copy in localStorage, merges both when a
report is opened, and sends the whole set of notes with every edit; requests in
`flight` are taken up in any order, or lost. A request may fail at any of its commands
(`RaiseInRequest`), and so end a deletion half-way. Section notes, entity notes and
overrides are treated alike and are one set.

`Sessions`. `ReadLogin` or `ReadRenewal` reads the row or checks the token,
`Issue` signs one for what was read. `Logout` and `ChangePassword` increment the
version in one command; `ReadVersion` and `Disable` are the read and the write of
`update_user`. `epoch` counts revocations; `lost` records that a disabling wrote
over one.

`BackupRestore`. `DumpRow`, `ListFiles`, `CopyFile` and `StatFile` run while the
server writes; `Keep`, `SetAside`, `Wipe`, `Place`, `Drop` and `Insert` are the
restore with the server stopped, and again the rollback. Any call of a restore
may raise (`FailRestore`, `FailOutside`), and the tool may be killed. The tool and
the server have one storage directory, as they do unless `ELEVADR_STORAGE_ROOT`
is set for the server, which the tool does not read (`backup_restore.py:19`).

### State and actions: the browser

JavaScript runs one callback at a time, so that an action is what runs between
two awaits, in an event handler, an effect or a timer. Requests are records in a
set; an answer, a failure or its late arrival is an action that takes one. What
the server does with a request is a step of its own where the order matters.

`PcapClient`. `flows` are the asynchronous functions under way (discovery,
analysis, recovery, re-analysis), each at one of its awaits; `live` tells those
of the mounted form from those of an earlier one, which reach App's state but
not the new form's. `jobs` is the server's table.

`ClientSession`. `JoinRenewal` is the shared promise of the renewal. A request
that is refused compares the token it was sent with to the one held now.
`fetchAuthState` is two steps wherever it is called: a sign-in or a reload asks
(`SignedIn`, `ReloadTab`) and is answered (`StateFetched`); the context editor asks
(`AskState`) and is answered (`StateTold`), where a 401 drops the token and App is
not told. `mistyped` are the requests that give a wrong current password, which
the server answers with 401 as well. A logout ends the sessions of the account
only if the server still accepts its token.

`AnalysesLibrary`, `ReportComparison`. Answers replace the lists whole, in the
order they arrive. Findings are compared by a key made of what identifies them;
`MirrorsAgree` and `OwnKeys` are about that key. A finding without an id is known
by its title with a uid or, without one, with its place in the list (`KeyAt`).

`ReportView`. A click sets a lock and three later corrections of the scroll
position; the observer of the page marks the section in view when it is not
locked. `address` is the query string, written by an effect after every change.

`Pivots`. `FlowTable`, `DeviceTable`, `FindingTable`, `Inventory` and the links
of the graph are the code's five ways to apply the filters, which are taken from
rows by clicks (`FlowPivots`, `AssetPivots`, `FindingPivots`).

`Drilldown`. `Asked` is the part of `open` before its await. `Answered` and
`Fails` take any fetch under way, whatever the dialog is for by then.

`ReportFiles`. A file has for each field the name of now and that of older
versions; `Normal` is `normalizeElevadrReport`, `FullFile` and `FilteredFile`
are the two exports.

`ReportNotes`. `Keep` writes localStorage and sends all three records; patches
arrive in any order or not at all. `RenderApp` is a re-render of App, after which
the drawer starts over with the values of the report.

`TopologyQuery`. `Levels` is the search as the code runs it, level by level over
a frontier. The reference it is checked against, `Linked`, defines walks without
a frontier. `SavedSearches` has the form's two buttons and the list.
`TopologyLayout` computes the set drawn from controls and filters; the effects
that place devices, restrict the focus and reset are actions. `TopologyClusters`
has sums per pair of clusters, the prefix of links by binary search and the
frame-by-frame display. `TopologyState` has the delayed write of a view.

`ContextSync`. Content is the number of the edit that made it. The account, each
localStorage and each editor hold one; answers of listings and saves are
actions. `ContextEditor` follows the rows of one table through edits, copies,
CSV and JSON files, validation, save and close. The account is there as the copy
that an opening editor shows as clean (`CopyShown`, any of `AccountTables`), while
localStorage keeps its own; `saveChanges` is `changedFromClean`, settled before
the account is asked. `ContextProfiles` has the keys of older versions, with
lists of several profiles, ids and default names among them twice, and an active
key of their own (`legacyActive`); duplicates give way to the newest by
`updatedAt`. Its three dialogs work on copies: that of an analysis keeps one
(`memo`) until App, told of a change, has it read again (`RefreshMemo`); the
editor may show the account's copy (`ShowAccountCopy`), save it, or save a profile
of a file, and `outdated` records a change of which App was not told. `ContextScan` merges
rows by path and priority of origin (`SamePath`, `Priority`) and compiles the
trusted servers. `CsvCodec` writes a row as `toCsv` does and reads it back one
character at a time, as `parseCsv` does.

## What the runs check

| Run | Instance | What it shows |
|---|---|---|
| `evidence` | 2 threads, 2 directories, one of which `rmtree` cannot remove, 2 signatures, TTL 0, clock to 2 | leased evidence keeps its record and directory while the server serves (`LeasedEvidenceStays`); the counter is the number of holders (`LeaseCountExact`); no directory that can be removed is forgotten (`NoLostDirectory`); the cache implements `EvidenceLease` (`LeaseProtocol`); the proofs' invariant holds (`EvidenceInv`); expired evidence leaves the table and, if it can be removed, the disk (`ExpiredIsRemoved`) |
| `jobs` | 1 discovery, whose upload cannot be removed, 2 analyses, 2 captures, 2 signatures, 1 directory | ended workers, but for an upload that cannot be removed, and rejected requests hold nothing (`JobsInv`), "completed" means saved, an analysis has its evidence on disk from lease to end (`AnalysisHasEvidence`), finished jobs never change and polls prune only those (`JobsKeepTheirEnd`), every step of a job is a step of the cache (`EvidenceSpec`) |
| `jobs_liveness` | 1 discovery, 1 analysis, with fairness | started jobs finish and an acknowledged cancellation ends (`JobsEnd`); a cancellation before the last check keeps the report from being saved |
| `captures` | 2 threads, 3 contents, 3 ids, quota 1, retention 1, clock to 2 | a row without its file is about to be deleted, until an error or a crash parts the two steps (`MissingFileIsTransient`); the quota is exceeded by at most one capture per further thread (`QuotaOvershoot`); the proofs' invariant holds (`CaptureInv`) |
| `server` | reports: 3 threads, 1 report, 2 browsers, 2 edits; sessions: 2 requests, 3 tokens, life and window 3, clock to 6; backup: 2 items, 2 versions of a file, 2 failing calls | a listed report loads unless it is being deleted, or its deletion failed half-way, and a deleted one is never listed again; notes served one at a time are in the file, and a browser never shows less than its own copy (`NotesPersist`); no token of a login older than the last revocation is accepted, unless a disabling overwrote another revocation; renewals end; archives list only what they contain, but for items deleted meanwhile; a quiet backup is exact; a restore succeeds or rolls back; the proofs' invariants of the three hold (`ServerInv`) |
| `client` | 2 captures, 2 jobs, 2 flows at a time | the page is busy while a flow processes a capture, the dialog for the context has its capture, the modal dialog of a regeneration ends, a cancellation reaches the server, and what makes this inductive (`PcapInv`); an analysis reuses the evidence of its own capture (`PairedEvidence`) |
| `workbench` | 19 parts of the browser, one per behaviour | one invariant per component, and in `StepsKeepWork` what no step may undo; see the next table |

The properties of `workbench`, and what they consist of:

| Property | Says |
|---|---|
| `SessionInv` | a signed-in user holds a token, but after one of the three losses App is not told of; who waits for a renewal is released by it |
| `LibraryInv` | with no request under way the lists are the server's; nothing is left after a sign-out; a report is shown under its own capture |
| `ComparisonInv` | the comparison is of the selected reports; mirrored comparisons are opposite; every difference of findings with keys of their own is shown |
| `ReportInv` | sections in view outlive a report; the last click decides where the page goes; "Collapse all" is offered when all is expanded; dialogs show the rows they are titled after and stop waiting; a report exported in full comes back as it was |
| `NotesInv` | what is on screen is what a reload shows; the quiet file is the screen; drafts are saved for their owner |
| `PivotsInv` | pivots taken on one row leave it in every table, and in the graph and the inventory |
| `TopologyInv` | answers are exactly the bounded walks, labelled with the shortest, on a page that exists; saves replace their own search; what is drawn has a place, focus is drawn; sums lose no communication; a stored view is its report's last |
| `SyncInv` | an editor without unsaved changes shows stored content; the account ends with the profile saved last |
| `EditorInv` | what is saved has unique keys; clean is what localStorage has or the account's copy as shown; App is or will be told of every other change of localStorage |
| `ScanKeepsRows` | explicit protocols survive scans, and so does each filled-in row of the user, unless another row of the user is about the same path; the same scan again changes nothing |
| `ProfilesInv` | the active profile is listed; the dialog of an analysis works on what localStorage has, unless App was not told; removed profiles stay removed, but for what an older version left and what the account gives back |
| `ReadinessAgrees` | the two lists of requirements agree where they are about the same |
| `CsvInv` | an import reads what the export wrote |
| `StepsKeepWork` | a close loses no edit and tells App of a save, but for the account's copy saved as it was shown; the user's role for a segment outlasts scans; only the user removes profiles; moved devices stay; a reload keeps the pivots and cleared filters show everything; only the refusal of the held token, or of a mistyped password, ends a session |

`SessionInv`, `LibraryInv`, `ComparisonInv`, `NotesInv`, `PivotsInv`, `SyncInv`,
`EditorInv`, the parts of `ReportInv` and those of `TopologyInv` about saved
searches, devices and stored views also contain what makes them inductive; each
part has a name and a comment in its module.

Many of these hold with exceptions, and each exception names what the code does
in the comment above the property; they are listed under "Observations".

Five runs end with a violation, each a place where the code does not do what the
repository says (below).

### Why the bounds are enough

* Every hazard of the cache is between two threads over one directory; the
  second directory lets one thread sweep, release or extract while another
  record is leased, and a sweep take two. TTL 0 expires a record at the first
  tick, so the clock passes before, during and after a lease. `Signatures` has
  two values: in force, and not.
* A directory is removable or not from the start (`Stuck`): one of each shows that a
  removal that fails has no effect on the other. In `jobs` it is the upload of the
  discovery that stays; the other runs of the two modules have no failing removal.
* In `jobs` the directory is one, since only a discovery makes one; the cache
  with several is checked by `evidence`. Two captures tell matching from
  mismatched requests apart. The constraint `AloneOrReusing` admits two analyses
  at once only while both reuse evidence made under the runtime in force, before
  the server stops: that is where they share a lease count. Alone, an analysis
  runs in every way there is.
* Quota 1 with two threads reaches the overshoot; three contents and ids let a
  capture be deleted and saved again beside a third. With retention 1 and
  a clock to 2, rows expire, or are refreshed at time 1 and do not.
* Three threads serve a report at once: a notes request, a deletion and a save or
  load; two edits are two requests that overtake each other. The constraint
  `OneLoads` admits one thread at a time to the loading of a report, which only
  reads, but for the title it takes over.
* Three tokens are a login, its renewal and one more of either; `Life` and
  `Window` of 3 with a clock to 6 let a renewal happen at the last tick of the
  window and expire. A tick of `Sessions` does not pass inside a request, which
  takes milliseconds against tokens that live for minutes.
* Two items make a backup visit one before and one after a change; two failing
  calls are one in the restore and one in its rollback. What the server does after
  a restore is what it does from any other storage, so that `RestoredOnce` ends
  there.
* In the browser two of a kind interleave: two captures and flows, two requests
  (one with a mistyped password) and two tokens of a session, two calls of the
  library, two browsers of a profile, two notes requests. Three reports can be
  selected, so that a selection of two changes.
* The searches run on a ring of three devices with and without a link back, with
  up to three hops and pages of one: walks that return, shortest ways that
  differ from found ones, pages past the end. The map has four devices with
  limits of two and three, clusters of two devices with a batch of one.
* The editor's table is a section without rows of its own, a list, or the overrides
  of a module: what differs among the other lists is the key of a row (`RowKey`),
  and only the proofs cover the keys with a part outside the key column. The
  account has a table of one row, which localStorage may have too or not.
* Of profiles there are two ids; older versions left none, one, or two with one id
  or both with the default name; the account or a file brings a default profile
  under one of them. One save waits for the account at a time, and localStorage is
  saved to twice after the start.
* A table has up to two rows, a scan one pair of hosts with up to two services
  among five shapes of a row; a CSV cell has up to two characters among those
  with a meaning, in every pair of neighbouring columns of the eight files.
* `ReportFiles` opens two files, each different from a whole report in one
  respect: version, id, one module, notes, or no modules at all.
* `WorkBounded` bounds what happens at once: of a login, a logout, a renewal and a
  question to `/auth/me` two are under way beside the two requests; up to four pivots are on; a CSV file is not read while the
  account's copy is shown; the drawer is used over one section; one device is moved by
  hand. What `BrowserProofs` proves of these parts has no such bound.

Bounds in guards are named constants (`Max...`, and `IdLeft` in `CaptureStore`).
Symmetry is used only for sets whose members are compared for equality alone,
and in no run with a liveness property.

Deadlock is checked in the evidence, jobs and capture runs. In the others
nothing is left to do once the bounds are used up and the part is idle, so it is
not checked there.

The parts of `MCServer` and `MCWorkbench` share no variable, so that a behaviour
of one tells nothing about another: each behaviour runs one part and leaves the
rest in an initial state.

### Fairness

`FairEvidenceSpec`: a thread inside an operation goes on (weak fairness on the
second halves); a thread with a lease ends its analysis and releases it in the
finally branch (strong fairness, since it may sweep in between); time passes.
Strong fairness on `Sweep` says that requests keep arriving: the code has no
sweeper of its own, so without requests expired evidence does stay.

`FairSpec` of `ProcessingJobs`: threads are scheduled by the operating system
(weak fairness per job) and Zeek, parsing and the detectors terminate (strong
fairness on `EndWork`, as the worker leaves and re-enters `working` with every
progress report). Nothing is assumed of clients: requests, cancellations and
polls may never come.

The browser's modules state no fairness: a request may never be answered. That a
wait or a dialog ends is stated as an invariant instead, that what will end it
is still under way.

## What is proved

The theorems hold for all values of the constants allowed by the named ASSUMEs:
finite sets of threads and items, "none" values outside the sets they stand
beside, natural numbers for bounds, lifetimes and counters. The assumptions
that say more: jobs are discoveries or analyses, not both
(`JobsAssumption`); a token lives at least one tick (`LifeAssumption`); there is
a browser (`BrowsersAssumption`); a table may have a row (`RowsAssumption`);
where a report comes from is fixed (`SourceAssumption`); a device is in a list of
devices (`AssetsAssumption`); the communications of a map are between its devices
(`GraphsAssumption`), and those that are summed have counts and are finitely many
(`RelationsAssumption`), as are the devices, each in some cluster
(`ClustersAssumption`); a report has sections (`FilesAssumption`), its files
have the fields of one, whatever is in them (`SourcesAssumption`), and no id is
one of the words for a missing value (`FileIdsAssumption`). TLC evaluates each in
a run. An invariant a theorem rests on is checked by a run first, then proved with
one step or lemma per action.

`EvidenceCacheProofs`:

* `TypeCorrect`, `LeaseSafety`, `LeaseCounting`, `NoDirectoryLeak`: the type
  invariant and the three safety invariants.
* `EvidenceInvariant`: the inductive invariant they follow from. None of them is
  inductive alone. That leased evidence stays needs the count to be exact, for a
  sweep looks at the counter and not at the holders. The count needs finite sets
  of holders that change by one. That a directory stays needs every doomed
  directory to be out of everyone's reach (`DoomedUnreachable`): it was taken out
  of the table in the critical section that doomed it, and nothing puts a token
  back, because a new token is unissued (`UnissuedUnknown`) and a directory that
  is being filled belongs to one worker (`ExtractionPrivate`). There is one lemma
  per action, with one step per conjunct.
* `Refinement`: the cache implements `EvidenceLease`. An acquire is `BeginRead`,
  a release `EndRead`, each deletion a `Discard` of directories nobody reads, the
  beginning of the exit `ReadersGone`; the other steps stutter. After the exit
  began nothing is promised, as the mapping shows no readers then.

`CaptureStoreProofs`:

* `CaptureTypes`, `CaptureInvariant`, `MissingFiles`, `QuotaBound`. The quota
  bound counts a thread past the measurement like a row (`QuotaInv`): the
  measurement admits a thread only when there is room, and at most all the other
  threads are admitted on the same count. A missing file is transient because the
  id of a save occurs nowhere else until its row is in (`FreshIds`): no other
  thread can remove the file in between. After a crash or an orphan removal
  (`disturbed`) that no longer holds.

`ProcessingJobsProofs`:

* `JobsImplementCache`: every step of the server is a step of the evidence cache
  or leaves it alone. So `EvidenceInv`, with all that follows from it, is an
  invariant beside the jobs without being proved again.
* `JobsInvariant` (`JobsInv`), inductive together with `EvidenceInv`. Its parts
  tie the point a worker has reached to what it holds: which steps a job of a
  kind takes (`Route`), what its request names by then (`RequestKnown`), that a
  directory is filled and a lease held only between two points
  (`ExtractionInHand`, `LeaseInHand`), that a job is in its table and finished
  exactly at some points (`StatusFollows`), when its report exists
  (`ReportFollows`). That ended workers hold nothing needs all of them, since the
  same `finally` branch ends a discovery, an analysis, an error and a cancellation.
* `EvidenceWhileAnalyzing` (`AnalysisHasEvidence`), from `LeaseInHand` and the
  cache's invariant; `CompletedMeansSaved` (`CompletedIsSaved`); `FinishedIsFinal`
  (`JobsKeepTheirEnd`) and `CancellationWins` (`CancelInTimeWins`), for which it
  matters that the worker's last check and the update that follows it are the
  only way to the report store.

`ReportsProofs`:

* `ListedReportsLoad` (`ListedIsLoadable`). A report's row is written after its
  file by the only thread that saves it (`SavesAreNew`), and everything else under
  way names reports that were listed (`RequestsNameReports`), so that no request
  brings a deleted row back.
* `NotesAreKept` (`NotesPersist`): as long as notes are served one at a time and
  none is lost, what is under way, or else the file, is the last editor's notes
  (`NotesOnTheirWay`).

`ServerProofs`:

* `BackupsAreLoadable` (`ArchiveIsLoadable`): a dumped row has its file on disk,
  on the list to copy or in the stage, or was being deleted (`RowsHaveFiles`).
* `QuietBackups` (`QuietBackupIsExact`): an item goes through its life in one
  direction (`Age`), so one that is now what it was has never changed, and what
  was read of it is what it is (`ReadsAreCurrent`).
* `RestoreOrRollback` (`RestoredOrRolledBack`): what a loop has done is as in the
  archive, or as in the copies aside (`LoopsFollow`). A rollback that starts
  without a complete copy of the storage is excepted by the property itself; it is
  the finding `backup_rollback`.
* `RevocationSafety` (`RevocationIsFinal`): unless a disabling wrote over another
  revocation, no token has a version still to come and those of the current
  version belong to the current epoch (`NothingAhead`); so does what a login or
  renewal has read and not signed yet.
* `LoginsEnd` (`LoginEnds`): a renewal is signed within the window of its login,
  as no time passes between its check and its signature (`InWindow`).
* `ServerInvariant` (`ServerInv`): reports, sessions and the tool share no state, so
  that each keeps its invariant in the steps of the others.

`PcapClientProofs`:

* `PcapInvariant` (`PcapInv`) and `EvidenceIsPaired` (`PairedEvidence`). The page's
  promises are about a form that is replaced while its flows go on. What carries
  them is that overlapping flows are known (`OverlapIsKnown`), a discovery of the
  mounted form is about the capture in hand (`DiscoveryInHand`), what the page
  offers to analyze has its own evidence (`EvidenceInHand`), and a cancellation
  sent by an earlier form is never about a job of the present one
  (`CancelsKeepToMount`).

`CsvProofs`:

* `CsvInvariant` (`CsvInv`), for cells and lists of any length: where each symbol of
  a cell is in the file (`DoubledIs`, `FileIs`), how far the parser is in it
  (`InCell`), one symbol at a time (`CellStep`, `CellEnd`), and that what was
  written of a list is cut into the same items (`ListIs`).

`BrowserProofs`:

* `SessionInvariantOfTab` (`SessionInv`): a tab that shows a user has a token,
  unless it is `stranded`: by a 401 to the context editor's question, by a logout
  that failed in the network, or by a sign-in answered after either. A stranded
  tab gets no token until it has shown the login, which is why the two are
  equivalent in the invariant. `ExpiryIsTrue`: only the user, a reload or the
  refusal of the token held, or of a mistyped password, ends a session. It rests on
  `RefusedForGood`: a token once refused is not accepted again.
* `LibraryInvariant` (`LibraryInv`): unless answers raced, one request at a time
  replaces a list and what it brings is the server's (`ListFollows`,
  `CapsFollow`), unless a deletion is still to be followed by a listing.
* `ComparisonInvariant` (`ComparisonInv`): that mirrored comparisons are opposite
  and miss no finding with a key of its own is proved of the operators, for any
  two lists of findings (`MapOfFindings`, `DeltasMirror`, `DeltasShow`).
* `NotesInvariant` (`NotesInv`): the file, or the request sent last, holds every
  text kept here and what is on screen (`FileHasKept`, `LastPatchHasAll`).
* `SyncInvariant` (`SyncInv`), for any number of browsers: copies are ordered by
  their stamps (`CopiesAreOrdered`); unless writes raced, one browser writes
  (`OneWrites`) and the account's copy is the one saved last as soon as it is as
  young (`AccountFollows`).
* `EditorInvariant` (`EditorInv`), and `ClosingIsSafe` (`CloseLosesNothing`,
  `SaveIsTold`): a save under way is of what localStorage has (`SavingIsStored`),
  an editor that saves nothing takes only that or the account's copy as it was
  shown for clean (`CleanIsStored`), and a change was told to App or will be
  (`ChangeIsTold`), unless it is a save of that copy unchanged.

* `PivotsInvariant` (`PivotsInv`) and `PivotsAreShared` (`ReloadKeepsPivots`,
  `ClearedIsComplete`): while all pivots come from one row (`origin`), each is one
  that this row offers (`TakenOnOrigin`), and each table lets a row with its own
  pivots through (`FlowStays`, `DeviceStays`, `FindingStays`). That the inventory
  agrees with the tables is proved for any pivots (`InventoryIsTables`).
* `ReportInvariant` (`ReportInv`), side by side with all other parts of the pages:
  the corrections of a click are due only while the observer is locked
  (`CorrectionsAreLocked`); unless dialogs overlapped, the one fetch under way is
  for the dialog that is open (`FetchIsOwn`). For a file, `NormalIsNormal` says
  what `normalizeElevadrReport` returns of any file it does not refuse, and
  `FullFileOpens` that it changes nothing of an export made from such a report
  (also alone, `FilesInvariant`).
* `ViewsInvariant`, `LayoutInvariant` and `SearchesInvariant`, the parts of
  `TopologyInv` about stored views, devices and saved searches, and
  `MovedDevicesStay` (`MovedStays`). For the searches: between a change of the
  store and the listing after it nothing is promised, otherwise the newest
  listing, once answered, is the store as it is (`NewestListingIsExact`). That
  there is a newest (`MaxIsGreatest`) follows from the well-foundedness of strict
  inclusion among finite sets, without an induction over operators.
* `ProfilesInvariant` (`ProfilesInv`) and `ProfilesStay` (`NothingVanishes`): the
  stored ids are distinct, and the list is empty only if older versions left none
  (`StoreFits`); unless App was not told of something, the
  dialog's copies are what is stored, and at most one has the default name
  (`DialogFits`); the selector and the editor hold nothing that was removed but by
  way of the account or an older version (`ToolsFit`). They rest on what a filtered
  list has (`FilteredIs`) and on what one reading of the list does: it brings no
  new id, and what it drops are duplicates (`ReadKeeps`).
* `QueryInvariant` (`QueryInv`): the loops of the search and of the distances are
  followed hop by hop against the walks of the reference (`HopHoldsWalks`): after
  n hops the frontier is what a walk of n steps reaches and no shorter one does.
  Beyond the types of the form no invariant over steps is needed: this is a fact
  about the functions, for any graphs and questions.
* `ClustersInvariant` (`ClustersInv`): sorting is a bijection that follows the order
  (`SortedIs`), so the links drawn are a prefix in the order of reveal, which the
  bisection finds (`BisectionFinds`), and the sums of the links and of what is
  inside a cluster split those of all communications (`NothingIsLost`). The page
  behind a link exists until a filter shortens the list (`shrunk`).
* `TopologyInvariant` (`TopologyInv`) puts the five parts of the map side by side.
* `ScanInvariant` (`ScanInv`) and `ScansKeepRows` (`ScanKeepsRows`): a merge is a fold
  over the rows of the profile and of the scan, and each promise is an invariant
  of that fold. That a second merge changes nothing needs more: without ICMP the
  rows of a merged table are about paths of their own (`Apart`) and what was
  merged into it finds its row again (`FindsRow`), so that the rows come back one
  by one (`Regains`).
* `UserSaysRole` (`UserRoleStays`), and `ReadinessInvariant` (`ReadinessAgrees`) for
  every set of rows: the run sees three kinds at a time.
* `WorkInvariant` and `WorkIsKept` (`StepsKeepWork`): the parts of the pages share no
  variable and `WorkNext` leaves all others alone (`PartsOfWork`), so that each
  keeps its invariant and its action properties beside the others.

Where a function of data is a recursion (the merge of rows, the hops of a search,
the symbols of a cell), its values are followed by an induction over the numbers
of its steps (`Upward`), which needs no operator as a parameter. Library operators
that the provers cannot look into (`SelectSeq`, `SortSeq`, `FoldLeft`) are written
as functions of the models where a proof is about them: `Filtered`, `Sorted`,
`MergePairs`, `ListValue`.

Only model-checked:

* Liveness (`ExpiredIsRemoved`, `JobsEnd`), which the proof system's backends do
  not reach.
* The five properties that fail, which are the findings.

## Findings

1. **`evidence_signature`**: a lease can be granted on evidence extracted under
   another runtime or policy than the current one; the signature is read when
   the evidence is registered (`http_reference_server.py:263`), not when Zeek
   runs. `one_pass_zeek_evidence.md:33` says otherwise.
2. **`jobs_unpublished`**: a job that ends "failed" or "canceled" can leave its
   report in the library: the store raises after its writes, or the cancellation
   arrives while it saves (462-463). `regression/README.md:69` claims absence of
   publication on failure and cancel.
3. **`captures_reanalyzed`**: analyzing a retained capture again does not refresh
   `last_used_at` (1255-1275), as `storage_retention.md:11` says it does.
4. **`backup_rollback`**: the copy of the storage directory that a rollback
   relies on is made inside the block whose failure starts the rollback
   (`backup_restore.py:248`); when that copy fails, the rollback deletes the
   intact storage and puts the incomplete copy in its place, although a complete
   one was made at line 241.
5. **`context_trust`**: servers a scan observed are merged into the profile as
   rows of their own, and the policy compiled from it (`analysisContextAdapter.ts`
   205 on) trusts them as resolvers, time servers or DHCP servers although nobody
   reviewed them. Lines 117-119 say that observations are never promoted to
   allowlists merely because they were observed.

## Observations

What the models reach and no document excludes. The properties are stated around
these, or name them as their exceptions.

* Captures: when a recovery is abandoned because another capture was chosen, or
  by a sign-out, the clean-up of its effect leaves `isAnalyzing` set and the page
  busy; the first of two overlapping flows to end clears it for both. A recovery
  that fails leaves `cancelRequestedRef` set, so that the job recovered next, when
  flows overlap, is shown as being canceled though no request was sent.
* Sessions: when the network fails during a logout the token is dropped and App
  still shows a signed-in user (`authService.ts:157`). So does a 401 to the context
  editor's question who is signed in, when it opens or saves (`authService.ts:82`,
  `DetectionConfiguration.tsx:424, 823`). A mistyped current password is answered
  with 401 (`http_reference_server.py:1215`): the token is renewed, the request sent
  again, and its second 401 ends the session of the tab.
* Notes: what is being typed in the drawer of an entity is discarded by any
  re-render of App, such as the poll every 5 seconds (`EntityDrawer.tsx:71-74`);
  a page that scrolls under the dialog of a section's notes saves the draft for
  another section; a deleted note returns from the file when the server missed
  the request; "Backend note storage is not connected yet." (`App.tsx:4335`) is
  out of date, notes are sent with a PATCH.
* Library, saved searches: two listings answered in the other order leave the
  older list on screen. A comparison that was loading is shown after the
  selection changed.
* Drill-downs: a dialog opened before the answer of the one closed before it
  shows that answer under its own title, and stops waiting.
* Files: a filtered export has no `modules` and is refused when it is opened
  again. A module that is `null`, or an id that is blank or no string, is
  replaced without a warning. Notes on a file without an id are kept under an id
  made at each opening, and are not found again. The second opening of an old
  report overwrites what was said of its migration; the exported `graph_view` is
  not read back.
* Map: "Reset" of a view that has its defaults clears the places of the devices,
  which are drawn on top of each other until a control changes; a filter that
  shortens the list behind a link leaves its page past the end; a change within
  the 180 ms before another report takes the place of this one is not kept; a
  change of the search leaves its page number, so that "Previous" may need
  several clicks.
* Pivots: a flow without a service is "Port n" for one table and "port:n" for
  another, so that this pivot empties the flow table; so does every pivot on a
  subnet, as the rows of that table carry none.
* Profiles: an edit that is undone while a save is under way counts as clean; a
  profile deleted here returns if a key of an older version still holds it, or if
  the account's copy of it is saved. The editor shows the account's copy as clean
  although localStorage has another (`DetectionConfiguration.tsx:436-439`): it closes
  without a question, and saving the copy as shown changes localStorage and the
  active profile without App being told (819, 833). Nor is App told of a new
  profile saved as it was offered, of a save during which the editor was closed,
  or of modules saved on the way from the selector to the editor; the dialog of an
  analysis then goes on with its older copies. An older version's active key may
  name a profile that is not there. An import drops a carriage return at the end of a line and splits an item of a
  list at a semicolon.
* Server: a 404 after the job is entered, or a failing `mkdtemp`, leaves a queued
  job without a worker (`abandoned` and `stillborn`, excepted by `JobsEnd`);
  temporary files survive a crash and a removal that fails, evidence whose removal
  fails stays on disk until a restart; a command that fails between the removal of
  a file and of its row leaves the row, as a crash does; a capture refreshed while
  its expiry is under way is removed all the same; a capture saved while orphans are collected
  loses its file; notes saved during a deletion recreate the file of a report
  that is no longer listed; of two overlapping notes requests the older may win.

Code without a caller, not modelled: the confirmation that clears scanner data
in the editor, `scanZeekFiles` and its parsers (`zeekScanner.ts`), the deletion
of a profile in the account, `pivot` and `replace` of `usePivotDrilldown` with
the dialog of connections, `analysisClient.ts`.

## Not modelled

* The login throttle: planned.
* The Zeek runtime: resolution, image pull, extraction and container stop are
  calls of outside processes; the server's models have its run as one step that
  reports progress, may fail and ends.
* Detectors, report building, calibration, provenance, context adapter and API
  contract: functions of their inputs without state.
* Topology comparisons and audit history: one command on one document each.
* Configuration and account tools, which run once; vendored detection modules.
* In the browser: administration, storage and audit views, the catalogue of
  modules (texts), sorting, filtering and paging of tables, the search box, help,
  tour and the panels that only draw. The components marked "partly" leave out
  the search and sorting of the library, zoom and panning of the map, and the
  merge of assets and counts.

The server is modelled with authentication enabled, as one process: two
processes on one cache root are not covered. A backup is of a server without
`ELEVADR_STORAGE_ROOT`: with it, the stores use one directory and the tool another. Hazards without a property, and
why, are in `PROJECT.json`.

## Plan

Done, in order of importance: `EvidenceCache` with `EvidenceLease`,
`ProcessingJobs` composed with it, `CaptureStore`, `Reports`, `Sessions`,
`BackupRestore`, each with its proofs, then the browser: `PcapClient` and
`ClientSession`, the modules of the Analysis Context, those of the report and of
the map, the library and the files.

Left:

1. The login throttle, composed with the login of `Sessions`.
2. `PcapClient` against the responses of `ProcessingJobs`, in place of its own
   table of jobs.
