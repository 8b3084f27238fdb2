-------------------------------- MODULE Pivots --------------------------------
(***************************************************************************)
(* The pivot filters of a report: taken on values of its tables, kept in   *)
(* the address (App.tsx), and applied by every table in its own way        *)
(* (ZeekFlowAnalysis, DevicesPanel, FindingsPanel, the asset inventory,    *)
(* NetworkTopology). A value is a pair of what it names and which; a text  *)
(* made of a port has a kind of its own.                                   *)
(***************************************************************************)
EXTENDS Integers, Sequences, SequencesExt

CONSTANTS Flows,    \* [src, dst, srcPort, port, name, protocol, state]
          Assets,   \* [ips, lists, subnets, services, manufacturer]
          Findings  \* [ip, destination, service, severity, category]

NoValue == <<"none", "">>
Lists == {"OT", "IT", "Network"}
PivotKeys == {"service", "port", "deviceClass", "risk", "ip", "subnet", "zeekState",
              "manufacturer"}
Severities == {"critical", "high"}

(* A device of the report is one of the lists the report has of devices.   *)
ASSUME AssetsAssumption == \A a \in Assets : a.lists # {} /\ a.lists \subseteq Lists

VARIABLES
    pivots,    \* filters of App, at most one of each key
    query,     \* what of them the address holds
    severity,  \* the severity chosen in FindingsPanel
    origin     \* history: the row all of them were taken on

pivotVars == <<pivots, query, severity, origin>>

NoPivots == [k \in PivotKeys |-> NoValue]
NoOrigin == [kind |-> "none", row |-> {}]
Several == [kind |-> "several", row |-> {}]
From(kind, row) == [kind |-> kind, row |-> {row}]

PivotsInit ==
    /\ pivots = NoPivots /\ query = NoPivots
    /\ severity = "all"
    /\ origin = NoOrigin

Passes(key, test(_)) == pivots[key] = NoValue \/ test(pivots[key])

-----------------------------------------------------------------------------
Text(kind, of) == IF of = "" THEN NoValue ELSE <<kind, of>>
FirstOf(a, b) == IF a = NoValue THEN b ELSE a

(* service.name, or the protocol, or a text made of the port.              *)
Named(f) == FirstOf(Text("service", f.name), Text("service", f.protocol))
Label(f) == FirstOf(Named(f), <<"Port", f.port>>)

(* What ZeekFlowAnalysis finds a flow by. The text it makes of a port is   *)
(* another than Label's. *)
ServiceTexts(f) ==
    {FirstOf(Named(f), <<"port:", f.port>>), Text("service", f.name),
     Text("service", f.protocol)}

(* ZeekFlowAnalysis. The rows of a report name no subnets (report_builder.py), *)
(* so that a pivot on one leaves none. *)
ZeekRows ==
    {f \in Flows :
       /\ Passes("subnet", LAMBDA v : FALSE)
       /\ Passes("ip", LAMBDA v : v \in {<<"ip", f.src>>, <<"ip", f.dst>>})
       /\ Passes("service", LAMBDA v : v \in ServiceTexts(f))
       /\ Passes("port", LAMBDA v : v \in {<<"port", f.srcPort>>, <<"port", f.port>>})
       /\ Passes("zeekState", LAMBDA v : v = <<"state", f.state>>)}

(* The class of a device in the graph: of its lists, the last that counts. *)
GraphClass(a) ==
    IF "Network" \in a.lists THEN "Edge" ELSE IF "IT" \in a.lists THEN "IT" ELSE "OT"
AssetAt(ip) == {a \in Assets : ip \in a.ips}
EndPasses(f, key, test(_, _)) ==
    Passes(key, LAMBDA v : \E a \in AssetAt(f.src) \cup AssetAt(f.dst) : test(a, v))

(* The links NetworkTopology draws; port, state and manufacturer are not   *)
(* its filters. Of the subnets of a device only the first counts. *)
DrawnFlows ==
    {f \in Flows :
       /\ f.src # f.dst
       /\ Passes("ip", LAMBDA v : v \in {<<"ip", f.src>>, <<"ip", f.dst>>})
       /\ Passes("service", LAMBDA v : v = Label(f))
       /\ EndPasses(f, "subnet",
            LAMBDA d, v : d.subnets # <<>> /\ <<"subnet", d.subnets[1]>> = v)
       /\ EndPasses(f, "deviceClass", LAMBDA d, v : <<"class", GraphClass(d)>> = v)}

-----------------------------------------------------------------------------
AssetPasses(a, classes) ==
    /\ Passes("ip", LAMBDA v : \E ip \in a.ips : v = <<"ip", ip>>)
    /\ Passes("service", LAMBDA v : \E s \in a.services : v = <<"service", s>>)
    /\ Passes("subnet", LAMBDA v : \E s \in ToSet(a.subnets) : v = <<"subnet", s>>)
    /\ Passes("manufacturer", LAMBDA v : v = <<"manufacturer", a.manufacturer>>)
    /\ Passes("deviceClass", LAMBDA v : \E c \in classes : v = <<"class", c>>)

(* DevicesPanel: one table per list. *)
DeviceTable(list) == {a \in Assets : list \in a.lists /\ AssetPasses(a, {list})}

(* A fault: a device counts for the first of its lists only. *)
InventoryFault == {a \in Assets : AssetPasses(a, {CHOOSE c \in a.lists : TRUE})}

(* exportAssetInventory: a device of several lists is one row. *)
Inventory == {a \in Assets : AssetPasses(a, a.lists)}

(* The title of a finding names its category. *)
Risks(f) == {<<"risk", f.severity>>, <<"risk", f.category>>}

(* FindingsPanel. *)
FindingTable ==
    {f \in Findings :
       /\ severity \in {"all", f.severity}
       /\ Passes("service", LAMBDA v : v = Text("service", f.service))
       /\ Passes("risk", LAMBDA v : v \in Risks(f))
       /\ Passes("ip", LAMBDA v : v \in {<<"ip", f.ip>>, <<"ip", f.destination>>})
       /\ Passes("subnet", LAMBDA v :
            \E d \in AssetAt(f.ip) \cup AssetAt(f.destination) : v[2] \in ToSet(d.subnets))}

-----------------------------------------------------------------------------
P(key, value) == [key |-> key, value |-> value]

(* What the rows offer. A flow, in ZeekFlowAnalysis, ConnectionSuccess and *)
(* the drawer; ... *)
FlowPivots(f) ==
    {P("ip", <<"ip", f.src>>), P("ip", <<"ip", f.dst>>),
     P("port", <<"port", f.srcPort>>), P("port", <<"port", f.port>>),
     P("zeekState", <<"state", f.state>>), P("service", Label(f))}

(* ... a device, in DevicesPanel and the drawer; ... *)
AssetPivots(a) ==
         {P("ip", <<"ip", ip>>) : ip \in a.ips}
    \cup {P("subnet", <<"subnet", s>>) : s \in ToSet(a.subnets)}
    \cup {P("service", <<"service", s>>) : s \in a.services}
    \cup {P("deviceClass", <<"class", c>>) : c \in a.lists}
    \cup {P("manufacturer", <<"manufacturer", a.manufacturer>>)}

(* ... a finding, in FindingsPanel and the drawer. *)
FindingPivots(f) ==
    {P("ip", Text("ip", f.ip)), P("service", Text("service", f.service)),
     P("risk", <<"risk", f.severity>>)}

(* applyFilter: the same value again takes the pivot back. *)
Applied(p) == [pivots EXCEPT ![p.key] = IF @ = p.value THEN NoValue ELSE p.value]

(* The effect on the filters. *)
WriteAddress(next) == next

SetPivots(next) ==
    /\ pivots' = next
    /\ query' = WriteAddress(next)

Take(p, kind, row) ==
    /\ p.value # NoValue
    /\ SetPivots(Applied(p))
    /\ origin' = IF pivots = NoPivots \/ origin = From(kind, row)
                   THEN From(kind, row) ELSE Several
    /\ UNCHANGED severity

TakeOnFlow(f) == \E p \in FlowPivots(f) : Take(p, "flow", f)
TakeOnAsset(a) == \E p \in AssetPivots(a) : Take(p, "asset", a)
TakeOnFinding(f) == \E p \in FindingPivots(f) : Take(p, "finding", f)

(* The class filter of the topology. *)
TakeClass(c) ==
    /\ SetPivots(Applied(P("deviceClass", <<"class", c>>)))
    /\ origin' = Several
    /\ UNCHANGED severity

(* A pill of FindingsPanel sets its own filter and toggles the report's. *)
ClickPill(s) ==
    /\ severity' = s
    /\ SetPivots(Applied(P("risk", <<"risk", s>>)))
    /\ origin' = Several

ChooseSeverity(s) ==
    /\ s # severity /\ severity' = s
    /\ UNCHANGED <<pivots, query, origin>>

(* removeFilter. *)
RemovePivot(k) ==
    /\ pivots[k] # NoValue
    /\ SetPivots([pivots EXCEPT ![k] = NoValue])
    /\ UNCHANGED <<severity, origin>>

(* "Clear all", and returnToWelcome. *)
ClearAll ==
    /\ SetPivots(NoPivots)
    /\ origin' = NoOrigin
    /\ UNCHANGED severity

(* "Clear finding filters", offered when no finding is left. *)
ClearFindings ==
    /\ FindingTable = {}
    /\ SetPivots(NoPivots)
    /\ origin' = NoOrigin
    /\ severity' = "all"

(* The page is loaded again, or from a shared link: the pivots are those   *)
(* of the address. *)
ReloadPivots ==
    /\ pivots' = query
    /\ severity' = "all"
    /\ UNCHANGED <<query, origin>>

PivotsNext ==
    \/ ClearAll \/ ClearFindings \/ ReloadPivots
    \/ \E f \in Flows : TakeOnFlow(f)
    \/ \E a \in Assets : TakeOnAsset(a)
    \/ \E f \in Findings : TakeOnFinding(f)
    \/ \E c \in {"OT", "IT", "Edge", "Unknown"} : TakeClass(c)
    \/ \E s \in Severities : ClickPill(s)
    \/ \E s \in Severities \cup {"all"} : ChooseSeverity(s)
    \/ \E k \in PivotKeys : RemovePivot(k)

PivotsSpec == PivotsInit /\ [][PivotsNext]_pivotVars

-----------------------------------------------------------------------------
(* Pivots taken on one flow, whatever their order, leave it in the flow    *)
(* table and its link in the graph: every table reads a value as the       *)
(* others do. The exception: "Port n", which ConnectionSuccess and the     *)
(* graph make of a flow without service, is "port:n" for ZeekFlowAnalysis. *)
FlowKeepsItsPivots ==
    \A f \in Flows : origin = From("flow", f) =>
        /\ f \in ZeekRows \/ pivots["service"][1] = "Port"
        /\ f.src # f.dst => f \in DrawnFlows

(* Pivots taken on one device leave it in a table of DevicesPanel, for     *)
(* each of its lists the pivots allow, and in the inventory that is        *)
(* exported, once. *)
DeviceKeepsItsPivots ==
    \A a \in Assets : origin = From("asset", a) =>
        /\ \E list \in Lists : a \in DeviceTable(list)
        /\ Inventory = UNION {DeviceTable(list) : list \in Lists}

(* Pivots taken on one finding leave it listed, unless the severity chosen *)
(* beside them is another. *)
FindingKeepsItsPivots ==
    \A f \in Findings :
        origin = From("finding", f) /\ severity \in {"all", f.severity}
        => f \in FindingTable

(* A page loaded again, or a shared link, has the pivots of the view it    *)
(* was taken from (the effect on the filters, the initial state). *)
ReloadKeepsPivots == [][pivots' # pivots => query' = pivots']_pivotVars

(* "Clear the filters to return to the complete finding set"               *)
(* (FindingsPanel): whatever led to the empty list. *)
ClearedIsComplete == [][ClearFindings => FindingTable' = Findings]_pivotVars

(* The parts of the inductive invariant that are not properties of their   *)
(* own. The address names the pivots of App, ...                           *)
AddressNamesPivots == pivots \in [PivotKeys -> {pivots[k] : k \in PivotKeys}] /\ query = pivots

(* ... and those taken on one row are what that row offers.                *)
TakenOn(offers) ==
    \A k \in PivotKeys : pivots[k] # NoValue => P(k, pivots[k]) \in offers

TakenOnOrigin ==
    /\ \A f \in Flows : origin = From("flow", f) => TakenOn(FlowPivots(f))
    /\ \A a \in Assets : origin = From("asset", a) => TakenOn(AssetPivots(a))
    /\ \A f \in Findings : origin = From("finding", f) => TakenOn(FindingPivots(f))

(* What the tables promise about the pivots taken on their rows.           *)
PivotsInv ==
    /\ FlowKeepsItsPivots
    /\ DeviceKeepsItsPivots
    /\ FindingKeepsItsPivots
    /\ AddressNamesPivots
    /\ TakenOnOrigin
=============================================================================
