---------------------------- MODULE TopologyLayout ----------------------------
(***************************************************************************)
(* Which devices the topology draws, where it puts them, and which one is  *)
(* in focus (NetworkTopology.tsx). The controls and the filters of the     *)
(* report admit communications up to a limit; their ends, and isolated     *)
(* devices if wanted, are drawn up to another. Effects place the devices   *)
(* that have no place yet when the set was computed again.                 *)
(***************************************************************************)
EXTENDS Integers, FiniteSetsExt

CONSTANTS Hosts,          \* IP addresses: numbers, in the order of their names
          Links,          \* rawEdges: [source, target, service, finding, suspicious, count]
          Services, AllServices,
          Offers(_),      \* serviceList: the services of a device in the inventory
          EdgeLimit(_), NodeLimit(_) \* EDGE_LIMITS, NODE_LIMITS of a preset

ASSUME HostsAssumption == Hosts \subseteq Nat \ {0} /\ AllServices \notin Services

NoHost == 0
NoLink == [source |-> NoHost, target |-> NoHost]

VARIABLES
    controls,   \* preset, suspiciousOnly, findingOnly, hideIsolated; service and ip
                \* filters of the report
    nodesDrawn, \* baseNodes
    grouping,   \* layoutMode
    positions,  \* of each device: "none", "laid" out by the effect, "moved" by hand
    focus,      \* focusedNodeId, focusedEdgeId, neighborsOnly
    stacked     \* history: a reset that changed no control cleared the positions

layoutVars == <<controls, nodesDrawn, grouping, positions, focus, stacked>>

Presets == {"simple", "risk", "full"}
Groupings == {"class", "subnet"}
Default == [preset |-> "simple", suspiciousOnly |-> FALSE, findingOnly |-> FALSE,
            hideIsolated |-> TRUE, service |-> AllServices, ip |-> NoHost]
NoFocus == [node |-> NoHost, link |-> NoLink, neighbors |-> FALSE]

-----------------------------------------------------------------------------
Admitted(c) ==
    {e \in Links :
        /\ c.service # AllServices => e.service = c.service
        /\ c.ip # NoHost => c.ip \in {e.source, e.target}
        /\ c.suspiciousOnly => e.suspicious
        /\ c.findingOnly => e.finding \/ e.suspicious}

(* edges: the busiest of the admitted. *)
DisplayEdges(c) ==
    {e \in Admitted(c) :
        Cardinality({x \in Admitted(c) : x.count > e.count}) < EdgeLimit(c.preset)}

Degree(d, shown) ==
    MapThenSumSet(LAMBDA e : e.count, {e \in shown : d \in {e.source, e.target}})

(* A device without communication on display is drawn only when isolated   *)
(* ones are wanted and the filters of the report speak of it. *)
WantedAlone(d, c) ==
    /\ ~c.hideIsolated
    /\ c.ip # NoHost => c.ip = d
    /\ c.service # AllServices => c.service \in Offers(d)

(* baseNodes: the busiest. *)
BaseNodes(c) ==
    LET shown == DisplayEdges(c)
        degree == [d \in Hosts |-> Degree(d, shown)]
        wanted == {d \in Hosts : degree[d] > 0 \/ WantedAlone(d, c)}
        Busier(a, b) == degree[a] > degree[b] \/ (degree[a] = degree[b] /\ a < b)
    IN {d \in wanted : Cardinality({x \in wanted : Busier(x, d)}) < NodeLimit(c.preset)}

(* The layout effect places the drawn devices that have no place; the      *)
(* other one forgets the places of those that are not drawn.               *)
Settled(places, nodes) ==
    [d \in Hosts |-> IF d \notin nodes THEN "none"
                     ELSE IF places[d] = "none" THEN "laid" ELSE places[d]]

(* A focus on a device that is no longer drawn ends. *)
Refocused(f, nodes) ==
    IF f.node # NoHost /\ f.node \notin nodes
    THEN [f EXCEPT !.node = NoHost, !.neighbors = FALSE] ELSE f

NoPlaces == [d \in Hosts |-> "none"]

(* A render with its effects: baseNodes is computed again when a control   *)
(* or a filter changed, and then, or with the grouping, the effects run.   *)
Render(c, g, places, f) ==
    LET nodes == IF c = controls THEN nodesDrawn ELSE BaseNodes(c) IN
    /\ controls' = c /\ grouping' = g
    /\ nodesDrawn' = nodes
    /\ positions' = IF <<c, g>> # <<controls, grouping>>
                    THEN Settled(places, nodes) ELSE places
    /\ focus' = Refocused(f, nodes)

TopologyLayoutInit ==
    /\ controls = Default /\ grouping = "class"
    /\ nodesDrawn = BaseNodes(Default)
    /\ positions = Settled(NoPlaces, nodesDrawn)
    /\ focus = NoFocus
    /\ stacked = FALSE

-----------------------------------------------------------------------------
(* "Show": communications or findings. The preset "full" comes from a view *)
(* stored before. *)
ApplyPreset(p) ==
    /\ p # controls.preset
    /\ Render([controls EXCEPT !.preset = p, !.suspiciousOnly = FALSE,
                               !.findingOnly = (p = "risk"), !.hideIsolated = (p # "full")],
              IF p = "full" THEN grouping ELSE "class", NoPlaces, NoFocus)
    /\ UNCHANGED stacked

(* resetGraphView *)
ResetView ==
    LET c == [controls EXCEPT !.preset = "simple", !.suspiciousOnly = FALSE,
                              !.findingOnly = FALSE, !.hideIsolated = TRUE]
    IN /\ Render(c, "class", NoPlaces, NoFocus)
       /\ stacked' = (c = controls /\ grouping = "class")

(* The boxes "Finding-related", "Suspicious", "Hide isolated devices". *)
ToggleControl(name) ==
    /\ Render([controls EXCEPT ![name] = ~@], grouping, positions, focus)
    /\ stacked' = FALSE

(* clearGraphRefinements, offered when nothing is drawn. *)
ClearRefinements ==
    /\ nodesDrawn = {}
    /\ Render([controls EXCEPT !.suspiciousOnly = FALSE, !.findingOnly = FALSE],
              grouping, positions, NoFocus)
    /\ UNCHANGED stacked

(* A filter of the report, set here or anywhere else in it. *)
FilterReport(name, value) ==
    /\ value # controls[name]
    /\ Render([controls EXCEPT ![name] = value], grouping, positions, focus)
    /\ stacked' = FALSE

(* "Group by": the devices stay where they are. *)
GroupBy(g) ==
    /\ g # grouping
    /\ Render(controls, g, positions, focus)
    /\ stacked' = FALSE

(* A drag of a device. *)
MoveNode(d) ==
    /\ d \in nodesDrawn
    /\ positions' = [positions EXCEPT ![d] = "moved"]
    /\ UNCHANGED <<controls, nodesDrawn, grouping, focus, stacked>>

(* inspectNode, inspectEdge, clearGraphSelection *)
InspectNode(d) ==
    /\ d \in nodesDrawn
    /\ focus' = [focus EXCEPT !.node = d, !.link = NoLink]
    /\ UNCHANGED <<controls, nodesDrawn, grouping, positions, stacked>>

InspectLink(e) ==
    /\ e \in DisplayEdges(controls) /\ {e.source, e.target} \subseteq nodesDrawn
    /\ focus' = [focus EXCEPT !.node = NoHost,
                              !.link = [source |-> e.source, target |-> e.target]]
    /\ UNCHANGED <<controls, nodesDrawn, grouping, positions, stacked>>

ClearSelection ==
    /\ focus' = NoFocus
    /\ UNCHANGED <<controls, nodesDrawn, grouping, positions, stacked>>

(* "Show connected devices", "Selected + neighbors" *)
ToggleNeighbors ==
    /\ focus.node # NoHost
    /\ focus' = [focus EXCEPT !.neighbors = ~@]
    /\ UNCHANGED <<controls, nodesDrawn, grouping, positions, stacked>>

TopologyLayoutNext ==
    \/ ResetView \/ ClearRefinements \/ ClearSelection \/ ToggleNeighbors
    \/ \E p \in Presets : ApplyPreset(p)
    \/ \E g \in Groupings : GroupBy(g)
    \/ \E name \in {"suspiciousOnly", "findingOnly", "hideIsolated"} : ToggleControl(name)
    \/ \E s \in Services \cup {AllServices} : FilterReport("service", s)
    \/ \E d \in Hosts \cup {NoHost} : FilterReport("ip", d)
    \/ \E d \in Hosts : MoveNode(d) \/ InspectNode(d)
    \/ \E e \in Links : InspectLink(e)

TopologyLayoutSpec == TopologyLayoutInit /\ [][TopologyLayoutNext]_layoutVars

-----------------------------------------------------------------------------
(* Every device that is drawn has a place of its own: the effects follow   *)
(* every change of a control or a filter. The exception is what the code   *)
(* does: "Reset" of a view whose controls have their defaults clears the   *)
(* places, and no effect runs (resetGraphView).                            *)
DrawnIsPlaced ==
    stacked \/ \A d \in nodesDrawn : positions[d] # "none"

(* A device in focus is drawn, and the restriction to its neighbours ends  *)
(* with the focus, unless the analyst turned to a connection: otherwise    *)
(* the next device in focus would hide the others (the effect on baseNodes,*)
(* clearGraphSelection). *)
FocusIsDrawn ==
    /\ focus.node # NoHost => focus.node \in nodesDrawn
    /\ focus.neighbors => focus.node # NoHost \/ focus.link # NoLink

(* A device moved by hand stays there while it is drawn, until a preset or *)
(* the reset lays out the map again. *)
MovedStays ==
    [][\A d \in Hosts :
          positions[d] = "moved" /\ positions'[d] # "moved" =>
             \/ d \notin nodesDrawn'
             \/ controls'.preset # controls.preset
             \/ ResetView]_layoutVars

(* The part of the inductive invariant that is no property of its own:     *)
(* controls, places and the focus are what they are.                       *)
LayoutTypeOK ==
    /\ controls \in [preset : Presets, suspiciousOnly : BOOLEAN, findingOnly : BOOLEAN,
                     hideIsolated : BOOLEAN, service : Services \cup {AllServices},
                     ip : Hosts \cup {NoHost}]
    /\ nodesDrawn \subseteq Hosts /\ grouping \in Groupings
    /\ positions \in [Hosts -> {"none", "laid", "moved"}]
    /\ focus \in [node : Hosts \cup {NoHost}, neighbors : BOOLEAN,
                  link : [source : Hosts \cup {NoHost}, target : Hosts \cup {NoHost}]]

(* What the map promises (NetworkTopology.tsx).                            *)
LayoutInv == LayoutTypeOK /\ DrawnIsPlaced /\ FocusIsDrawn
=============================================================================
