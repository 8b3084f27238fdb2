------------------------------ MODULE ContextScan ------------------------------
(***************************************************************************)
(* From what a capture shows to the policy of an analysis: the discovery   *)
(* of a capture is merged into the selected profile (zeekScanner.ts), the  *)
(* merged profile is saved and sent with the analysis, and its tables are  *)
(* compiled to the policy of the detectors (analysisContextAdapter.ts and  *)
(* its Python counterpart). The communication rows are those of one pair   *)
(* of hosts; the service of a row, filled in as its protocol is, and the   *)
(* counts of observations are left out.                                    *)
(***************************************************************************)
EXTENDS Integers, Sequences, FiniteSets, SequencesExt

CONSTANTS Shapes,   \* [protocol, port] of rows; "" and NoPort are blanks
          Servers,  \* addresses of DNS, NTP and DHCP servers
          MaxPairs, \* bound of the model: rows of the profile
          MaxScan   \* bound of the model: communications of a scan

NoPort == -1

(* What a row says of its path; a merge fills in one blank or the other.   *)
Paths == [protocol : {"", "tcp", "udp", "icmp"}, port : Nat \cup {NoPort}]

ASSUME ShapesAssumption == Shapes \subseteq Paths

ASSUME ScanBoundsAssumption == {MaxPairs, MaxScan} \subseteq Nat

Sources == {"user", "imported", "zeek"}

VARIABLES
    pairs,    \* communicationPairs of the profile
    infra,    \* infrastructure: the source of the row of a server, or "none"
    segment,  \* one segment: [source, role, evidence]
    trusted   \* trusted_resolvers, trusted_servers and expected_servers of
              \* the last analysis

scanVars == <<pairs, infra, segment, trusted>>

PairRow == [shape : Shapes, source : Sources]
NoSegment == [source |-> "none", role |-> "unknown", evidence |-> FALSE]

ScanTypeOK ==
    /\ pairs \in Seq([shape : Paths, source : Sources])
    /\ infra \in [Servers -> Sources \cup {"none"}]
    /\ segment \in [source : Sources \cup {"none"}, role : {"unknown", "ot"},
                    evidence : BOOLEAN]
    /\ trusted \subseteq Servers
    /\ segment.source = "none" => segment = NoSegment

ScanInit ==
    /\ pairs = <<>>
    /\ infra = [s \in Servers |-> "none"]
    /\ segment = NoSegment
    /\ trusted = {}

-----------------------------------------------------------------------------
(* comparableDestinationPort: ICMP has no port; Zeek writes 0. *)
ComparablePort(s, portless) == IF portless /\ s.port = 0 THEN NoPort ELSE s.port

(* A faulty sameObservedPath: TCP and UDP are not told apart. *)
SamePathFault(l, r) ==
    LET portless == "icmp" \in {l.shape.protocol, r.shape.protocol} IN
    ComparablePort(l.shape, portless) = ComparablePort(r.shape, portless)

(* sameObservedPath: a blank protocol goes with every other one. *)
SamePath(l, r) ==
    LET portless == "icmp" \in {l.shape.protocol, r.shape.protocol} IN
    /\ l.shape.protocol = r.shape.protocol \/ "" \in {l.shape.protocol, r.shape.protocol}
    /\ ComparablePort(l.shape, portless) = ComparablePort(r.shape, portless)

Priority(source) ==
    CASE source = "user" -> 3 [] source = "imported" -> 2 [] source = "zeek" -> 1

(* mergePairEvidence: the row with the better source, its blanks filled in. *)
MergePairEvidence(l, r) ==
    LET primary == IF Priority(r.source) > Priority(l.source) THEN r ELSE l
        other == IF primary = l THEN r ELSE l
        Filled(mine, theirs, blank) == IF mine = blank THEN theirs ELSE mine
    IN [primary EXCEPT !.shape =
          [protocol |-> Filled(primary.shape.protocol, other.shape.protocol, ""),
           port |-> Filled(primary.shape.port, other.shape.port, NoPort)]]

AddPath(table, row) ==
    LET same == {i \in DOMAIN table : SamePath(table[i], row)} IN
    IF same = {} THEN Append(table, row)
    ELSE LET i == CHOOSE i \in same : \A j \in same : i <= j IN
         [table EXCEPT ![i] = MergePairEvidence(table[i], row)]

(* The communications of mergeScanIntoProfile: a pass that repairs the     *)
(* profile's own rows, and one for those of the scan.                      *)
MergePairs(table, scan) ==
    LET rows == table \o scan
        merged[n \in 0..Len(rows)] ==
            IF n = 0 THEN <<>> ELSE AddPath(merged[n - 1], rows[n])
    IN merged[Len(rows)]

(* Its infrastructure: a known server keeps its row. *)
MergeInfrastructure(found) ==
    [s \in Servers |-> IF infra[s] = "none" /\ s \in found THEN "zeek" ELSE infra[s]]

(* Its segments: the role of a row the user did not edit is the one of the *)
(* last scan, its evidence that of every scan.                             *)
MergeSegment(role, evidence) ==
    IF segment.source \in {"none", "zeek"}
    THEN [source |-> "zeek", role |-> role, evidence |-> segment.evidence \/ evidence]
    ELSE [segment EXCEPT !.evidence = segment.evidence \/ evidence]

(* The servers compileDetectionContextMetadata trusts: those of every row. *)
CompileTrusted(table) == {s \in Servers : table[s] # "none"}

(* The communications a scan may find. *)
Scans == BoundedSeq([shape : Shapes, source : {"zeek"}], MaxScan)

(* materializeSelectedProfile and startAnalysis: the merged profile is     *)
(* saved, and sent with the analysis.                                      *)
AnalyzeScan(scan, found, ot) ==
    /\ pairs' = MergePairs(pairs, scan) /\ Len(pairs') <= MaxPairs
    /\ infra' = MergeInfrastructure(found)
    /\ segment' = MergeSegment(IF ot THEN "ot" ELSE "unknown", ot)
    /\ trusted' = CompileTrusted(infra')

(* The editor: markUser makes an edited row the user's own; rows are added *)
(* by hand or from a CSV file, and removed.                                *)
MarkUser(i, shape) ==
    /\ pairs' = [pairs EXCEPT ![i] = [shape |-> shape, source |-> "user"]]
    /\ UNCHANGED <<infra, segment, trusted>>

AddPair(row) ==
    /\ Len(pairs) < MaxPairs /\ row.source # "zeek"
    /\ pairs' = Append(pairs, row)
    /\ UNCHANGED <<infra, segment, trusted>>

RemovePair(i) ==
    /\ pairs' = RemoveAt(pairs, i)
    /\ UNCHANGED <<infra, segment, trusted>>

EditServer(s, source) ==
    /\ infra' = [infra EXCEPT ![s] = source] /\ source # "zeek"
    /\ UNCHANGED <<pairs, segment, trusted>>

EditSegment(role) ==
    /\ segment' = [segment EXCEPT !.source = "user", !.role = role]
    /\ UNCHANGED <<pairs, infra, trusted>>

ScanNext ==
    \/ \E scan \in Scans, found \in SUBSET Servers, ot \in BOOLEAN :
         AnalyzeScan(scan, found, ot)
    \/ \E i \in DOMAIN pairs : RemovePair(i) \/ \E shape \in Shapes : MarkUser(i, shape)
    \/ \E row \in PairRow : AddPair(row)
    \/ \E s \in Servers, source \in Sources \cup {"none"} : EditServer(s, source)
    \/ \E role \in {"unknown", "ot"} : EditSegment(role)

ScanSpec == ScanInit /\ [][ScanNext]_scanVars

-----------------------------------------------------------------------------
Covers(table, s) ==
    \E i \in DOMAIN table :
       /\ table[i].shape.protocol = s.protocol
       /\ ComparablePort(table[i].shape, s.protocol = "icmp")
            = ComparablePort(s, s.protocol = "icmp")

(* Whatever is merged with whatever, no path with an explicit protocol     *)
(* gets lost, of the profile or of the scan: TCP and UDP rows are never    *)
(* collapsed, although a blank row goes with both (sameObservedPath).      *)
ExplicitPathsSurvive ==
    \A scan \in Scans :
       LET all == pairs \o scan IN
       \A i \in DOMAIN all :
          all[i].shape.protocol # "" => Covers(MergePairs(pairs, scan), all[i].shape)

(* A filled-in row of the user survives every scan as it is, unless        *)
(* another row of the user is about the same path: whatever blanks other   *)
(* rows fill in on the way, none comes to stand for it (sourcePriority).   *)
UserRowsSurvive ==
    \A scan \in Scans, i \in DOMAIN pairs :
       /\ pairs[i].source = "user" /\ pairs[i].shape.protocol # ""
       /\ pairs[i].shape.port # NoPort
       /\ \A j \in DOMAIN pairs \ {i} :
             pairs[j].source = "user" => ~SamePath(pairs[j], pairs[i])
       => \E n \in DOMAIN MergePairs(pairs, scan) : MergePairs(pairs, scan)[n] = pairs[i]

(* The profile a capture was merged into stays as it is when the same      *)
(* capture is analyzed again, but for ICMP: a blank row that becomes ICMP  *)
(* makes others its path only afterwards, and the next scan collapses them *)
(* (the repair pass).                                                      *)
RescanIsStable ==
    \A scan \in Scans :
       LET merged == MergePairs(pairs, scan) IN
       \/ MergePairs(merged, scan) = merged
       \/ \E i \in DOMAIN merged : merged[i].shape.protocol = "icmp"

(* What the user says of a segment outlasts every scan (mergeSegments).    *)
UserRoleStays ==
    [][segment.source = "user" /\ segment'.role # segment.role
         => UNCHANGED <<pairs, infra, trusted>>]_scanVars

(* "Scanner observations are retained under detection_context_observations *)
(* and never promoted to allowlists merely because they were observed."    *)
(* (analysisContextAdapter.ts:117-119)                                     *)
NeverPromoted == \A s \in trusted : infra[s] # "zeek"

(* What merging a scan promises, whatever was merged and edited before     *)
(* (zeekScanner.ts).                                                       *)
ScanInv == ScanTypeOK /\ ExplicitPathsSurvive /\ UserRowsSurvive /\ RescanIsStable
=============================================================================
