------------------------------ MODULE MCWorkbench ------------------------------
(* Instances for TLC of the parts of the browser's pages that share no     *)
(* state. A behaviour is one of the part `part` names; the others rest in  *)
(* an initial state.                                                       *)
EXTENDS ClientSession, AnalysesLibrary, ReportComparison, ReportView, ReportNotes,
        Pivots, Drilldown, ReportFiles, TopologyQuery, SavedSearches, TopologyLayout, TopologyClusters,
        TopologyState, ContextSync, ContextEditor, ContextScan, ContextProfiles,
        ContextReadiness, CsvCodec, TLC

VARIABLE part

CONSTANTS a1, c1, c2, k1, OT, FieldDevice, p1, p2

(* AnalysesLibrary *)
MCSourceOf == [r \in ReportIds |-> c2]

(* Pivots: a flow with a service and one with a port only, a device of one *)
(* list and one of two, and a finding.                                     *)
F(source, target, from, to, name, protocol, connection) ==
    [src |-> source, dst |-> target, srcPort |-> from, port |-> to, name |-> name,
     protocol |-> protocol, state |-> connection]
MCFlows == {F("a", "b", "50", "502", "modbus", "tcp", "SF"),
            F("b", "a", "99", "50", "", "", "SF")}
A(ips, device, subnets, services, maker) ==
    [ips |-> ips, lists |-> device, subnets |-> subnets, services |-> services,
     manufacturer |-> maker]
MCAssets == {A({"a"}, {"OT", "Network"}, <<"n1", "n2">>, {"modbus"}, "X"),
             A({"b"}, {"Network"}, <<>>, {}, "X")}
MCFindings == {[ip |-> "a", destination |-> "", service |-> "modbus",
                severity |-> "high", category |-> "detector"]}

(* ReportFiles: a whole report, and those that differ from it in one thing *)
(* a file of older reports, or of another hand, may lack.                  *)
Field(snake, camel) == [snake |-> snake, camel |-> camel]
Whole == [version |-> Field("2", "absent"), id |-> Field("r", "absent"),
          hasModules |-> TRUE, modules |-> [s \in FileSections |-> Field("full", "absent")],
          notes |-> Field(<<>>, <<>>),
          warnings |-> [missing |-> {}, id |-> FALSE], migrated |-> FALSE]
SomeNotes == {<<>>, <<NoFileNotes>>, <<[NoFileNotes EXCEPT ![<<"entity", "services">>] = TRUE]>>}
MCSourceFiles ==
    {[Whole EXCEPT !.hasModules = FALSE]}
    \cup {[Whole EXCEPT !.version = Field(v, w)] :
            v \in {"absent", "null", "junk", "blank", "1", "2", "3"}, w \in {"absent", "1"}}
    \cup {[Whole EXCEPT !.id = Field(v, w)] :
            v \in {"absent", "null", "junk", "blank", "r"}, w \in {"absent", "q"}}
    \cup {[Whole EXCEPT !.modules["services"] = Field(v, w)] :
            v \in {"absent", "null", "junk", "full"}, w \in {"absent", "full"}}
    \cup {[Whole EXCEPT !.notes = Field(v, w)] : v \in SomeNotes, w \in SomeNotes}
MCTemporaryId(n) == <<"t1", "t2">>[n]

(* TopologyQuery: a ring, with and without a link back. *)
L(source, target, suspicious, finding) ==
    [source |-> source, target |-> target, suspicious |-> suspicious, finding |-> finding]
Ring == {L(1, 2, FALSE, TRUE), L(2, 3, TRUE, FALSE), L(3, 1, FALSE, FALSE)}
MCGraphs == {Ring, Ring \cup {L(2, 1, TRUE, TRUE)}}
MCClassOf(d) == IF d = 1 THEN OT ELSE NoClass
MCRoleOf(d) == IF d = 3 THEN NoClass ELSE FieldDevice

(* TopologyLayout: a path, a service of the inventory that no link has. *)
TL(source, target, service, finding, suspicious, count) ==
    [source |-> source, target |-> target, service |-> service, finding |-> finding,
     suspicious |-> suspicious, count |-> count]
MCLinks == {TL(1, 2, "m", TRUE, FALSE, 3), TL(2, 3, "d", FALSE, TRUE, 2),
            TL(3, 4, "d", FALSE, FALSE, 1)}
MCOffers(d) == IF d = 4 THEN {"m"} ELSE {}
MCLimit(preset) == IF preset = "simple" THEN 2 ELSE 3

(* TopologyClusters: two devices in a class, each in a subnet of its own. *)
MCRelations == {[source |-> 1, target |-> 2, count |-> 1],
                [source |-> 2, target |-> 3, count |-> 2],
                [source |-> 4, target |-> 3, count |-> 1],
                [source |-> 1, target |-> 3, count |-> 1],
                [source |-> 3, target |-> 1, count |-> 1]}
MCKeyOf(d, kind) == IF kind = "class" THEN (d + 1) \div 2 ELSE 5 - d

(* ContextEditor: a copy with a row the editor may add as well. *)
MCAccountTables == {<<[key |-> k1, rest |-> 0]>>}

(* ContextScan: a blank row, a port alone, the same with a transport, and  *)
(* a protocol without ports. *)
MCShapes == {[protocol |-> "", port |-> NoPort], [protocol |-> "", port |-> 502],
             [protocol |-> "tcp", port |-> 502], [protocol |-> "udp", port |-> 502],
             [protocol |-> "icmp", port |-> 0]}

(* ContextProfiles: nothing old, one profile of its own name, and two with *)
(* the default name of which one is in the keys of two versions.           *)
OldProfile(id, name, role, at) ==
    [id |-> id, name |-> name, role |-> role, modules |-> 0, at |-> at]
MCLeftovers == {<<>>, <<OldProfile(p1, "own", "ot", 0)>>,
                <<OldProfile(p1, "default", "unknown", 0), OldProfile(p2, "default", "ot", 0),
                  OldProfile(p1, "default", "ot", 1)>>}
MCBrought == {OldProfile(p2, "default", "ot", 0)}

-----------------------------------------------------------------------------
Parts == {"session", "library", "comparison", "view", "notes", "pivots", "drill", "files", "query",
          "searches", "layout", "clusters", "views", "sync", "editor", "scan",
          "profiles", "readiness", "csv"}

workVars == <<part, clientVars, libVars, compVars, viewVars, notesVars, pivotVars, drillVars, fileVars,
              topologyQueryVars, savedSearchVars, layoutVars, clusterVars, stateVars,
              syncVars, editVars, scanVars, profVars, kinds, csvVars>>

(* One initial state stands for all of a part that rests. *)
Resting(name, fixed) == part # name => fixed

WorkInit ==
    /\ part \in Parts
    /\ ClientInit /\ LibInit /\ ComparisonInit /\ PivotsInit /\ SavedSearchesInit
    /\ TopologyLayoutInit /\ TopologyStateInit /\ SyncInit /\ ScanInit /\ ReadyInit
    /\ FilesInit
    /\ DrillInit /\ Resting("drill", ~filtered)
    /\ ReportViewInit /\ Resting("view", visible = ReportSections)
    /\ NotesInit /\ Resting("notes", section = CHOOSE s \in NoteSections : TRUE)
    /\ TopologyQueryInit /\ Resting("query", graph = UNION Graphs)
    /\ TopologyClustersInit /\ Resting("clusters", clusterKind = "class")
    /\ EditorInit /\ Resting("editor", tab = CHOOSE t \in Sections : TRUE)
    /\ ProfilesInit /\ Resting("profiles", legacy = <<>> /\ legacyActive = NoProfile)
    /\ CsvInit
    /\ Resting("csv", /\ types = SubSeq(CaptureScopeColumns, 1, 2)
                      /\ row = <<CHOOSE v \in Values(types[1]) : TRUE,
                                CHOOSE w \in Values(types[2]) : TRUE>>)

(* The other parts stay as they are. *)
RestOf(name) ==
    /\ UNCHANGED part
    /\ name # "session" => UNCHANGED clientVars
    /\ name # "library" => UNCHANGED libVars
    /\ name # "comparison" => UNCHANGED compVars
    /\ name # "view" => UNCHANGED viewVars
    /\ name # "notes" => UNCHANGED notesVars
    /\ name # "pivots" => UNCHANGED pivotVars
    /\ name # "drill" => UNCHANGED drillVars
    /\ name # "files" => UNCHANGED fileVars
    /\ name # "query" => UNCHANGED topologyQueryVars
    /\ name # "searches" => UNCHANGED savedSearchVars
    /\ name # "layout" => UNCHANGED layoutVars
    /\ name # "clusters" => UNCHANGED clusterVars
    /\ name # "views" => UNCHANGED stateVars
    /\ name # "sync" => UNCHANGED syncVars
    /\ name # "editor" => UNCHANGED editVars
    /\ name # "scan" => UNCHANGED scanVars
    /\ name # "profiles" => UNCHANGED profVars
    /\ name # "readiness" => UNCHANGED kinds
    /\ name # "csv" => UNCHANGED csvVars

WorkNext ==
    \/ part = "session" /\ ClientNext /\ RestOf("session")
    \/ part = "library" /\ LibNext /\ RestOf("library")
    \/ part = "comparison" /\ ComparisonNext /\ RestOf("comparison")
    \/ part = "view" /\ ReportViewNext /\ RestOf("view")
    \/ part = "notes" /\ NotesNext /\ RestOf("notes")
    \/ part = "pivots" /\ PivotsNext /\ RestOf("pivots")
    \/ part = "drill" /\ DrillNext /\ RestOf("drill")
    \/ part = "files" /\ FilesNext /\ RestOf("files")
    \/ part = "query" /\ TopologyQueryNext /\ RestOf("query")
    \/ part = "searches" /\ SavedSearchesNext /\ RestOf("searches")
    \/ part = "layout" /\ TopologyLayoutNext /\ RestOf("layout")
    \/ part = "clusters" /\ TopologyClustersNext /\ RestOf("clusters")
    \/ part = "views" /\ TopologyStateNext /\ RestOf("views")
    \/ part = "sync" /\ SyncNext /\ RestOf("sync")
    \/ part = "editor" /\ EditorNext /\ RestOf("editor")
    \/ part = "scan" /\ ScanNext /\ RestOf("scan")
    \/ part = "profiles" /\ ProfilesNext /\ RestOf("profiles")
    \/ part = "readiness" /\ ReadyNext /\ RestOf("readiness")
    \/ part = "csv" /\ CsvNext /\ RestOf("csv")

WorkSpec == WorkInit /\ [][WorkNext]_workVars

(* Bounds of the model: of login, logout, renewal and the question to      *)
(* /auth/me two are under way at a time, beside the requests; four pivots  *)
(* are on; a CSV file is not read while the account's copy is shown; the   *)
(* drawer is used over one section; one device at a time is moved by hand. *)
TwoQuestions ==
    Cardinality({q \in {"login", "logout", "renewal", "state"} :
                    \/ q = "login" /\ login.at # "idle"
                    \/ q = "logout" /\ logout.at # "idle"
                    \/ q = "renewal" /\ renewal # NoToken
                    \/ q = "state" /\ stateAsked # NoQuestion}) <= 2
FourPivots == Cardinality({k \in PivotKeys : pivots[k] # NoValue}) <= 4
FileOrCopy == reading = NoRows \/ synced = NoRows
DrawerInOneSection == drawer.entity = NoEntity \/ section = CHOOSE s \in NoteSections : TRUE
OneMoved == Cardinality({d \in Hosts : positions[d] = "moved"}) <= 1

WorkBounded == TwoQuestions /\ FourPivots /\ FileOrCopy /\ DrawerInOneSection /\ OneMoved

-----------------------------------------------------------------------------
In(name, inv) == part = name => inv

(* A report on screen: what of it is in view, the rows behind its rows,    *)
(* and the files it came from and is written to. *)
ReportInv ==
    /\ In("view", ViewInv)
    /\ In("drill", DrillInv)
    /\ In("files", FilesInv)

(* The map of a report: what it draws, where, what of it is kept, and the  *)
(* questions asked beside it (NetworkTopology.tsx).                        *)
TopologyInv ==
    /\ In("query", QueryInv)
    /\ In("searches", SearchesInv)
    /\ In("layout", LayoutInv)
    /\ In("clusters", ClustersInv)
    /\ In("views", ViewsInv)

(* The rules of a scan, checked where one is merged (zeekScanner.ts).      *)
ScanKeepsRows == In("scan", ScanInv)

(* The two lists of what a context lacks (profile.ts), checked where the   *)
(* profile changes.                                                        *)
ReadinessAgrees == In("readiness", ListsAgree)

(* What no step of the pages may undo: unsaved rows are not closed away,   *)
(* a change that was saved is told to App (but for the account's copy as   *)
(* it was shown), what the user said of a segment outlasts a scan,         *)
(* profiles stay, a moved device stays, a shared link has the pivots of    *)
(* its view, cleared filters show everything, and a session is ended only  *)
(* over its own token or password.                                         *)
StepsKeepWork ==
    /\ CloseLosesNothing /\ SaveIsTold
    /\ UserRoleStays /\ NothingVanishes
    /\ MovedStays
    /\ ReloadKeepsPivots /\ ClearedIsComplete
    /\ ExpiryIsReal
=============================================================================
