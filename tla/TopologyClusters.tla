--------------------------- MODULE TopologyClusters ---------------------------
(***************************************************************************)
(* The overview of the topology (NetworkTopology.tsx): devices grouped in  *)
(* clusters, their communications summed per pair of clusters. Clusters    *)
(* are drawn up to a limit that grows by a button, or frame by frame; the  *)
(* links drawn are a prefix of a sorted list, found by binary search. A    *)
(* link opens a paged list of what it sums. Devices and clusters are       *)
(* numbers, in the order of their names.                                   *)
(***************************************************************************)
EXTENDS Integers, Sequences, FiniteSetsExt, SequencesExt

CONSTANTS ClusteredAssets, \* devices of the report
          Relations,       \* their communications: [source, target, count]
          GroupingKinds,   \* layoutMode
          KeyOf(_, _),     \* groupKeyFor(device, grouping)
          ClusterBatch,    \* clusters drawn at first, and per step: 24
          InspectorSize    \* relationships on a page: 25

ASSUME ClusterSizes == ClusterBatch \in Nat \ {0} /\ InspectorSize \in Nat \ {0}

NoCluster == 0
NoPair == <<NoCluster, NoCluster>>

ASSUME ClustersAssumption ==
    /\ IsFiniteSet(ClusteredAssets)
    /\ \A d \in ClusteredAssets, kind \in GroupingKinds : KeyOf(d, kind) \in Nat \ {NoCluster}
ASSUME RelationsAssumption == IsFiniteSet(Relations) /\ \A e \in Relations : e.count \in Nat

VARIABLES listed,       \* the devices that pass the search and the filters
          clusterKind,  \* layoutMode
          clusterFocus, \* the cluster shown alone
          renderLimit,  \* clusterRenderLimit
          autoReveal,   \* autoRevealClusters
          inspected,    \* inspectedClusterEdge
          inspectPage,  \* clusterEdgePage
          shrunk        \* history: the list inspected changed under its page

clusterVars == <<listed, clusterKind, clusterFocus, renderLimit, autoReveal,
                 inspected, inspectPage, shrunk>>

TopologyClustersInit ==
    /\ listed = ClusteredAssets
    /\ clusterKind \in GroupingKinds
    /\ clusterFocus = NoCluster
    /\ renderLimit = ClusterBatch /\ autoReveal = FALSE
    /\ inspected = NoPair /\ inspectPage = 0 /\ shrunk = FALSE

-----------------------------------------------------------------------------
Cluster(d) == KeyOf(d, clusterKind)

(* nodes: in a cluster that is shown alone, its devices only. *)
ShownAssets == {d \in listed : clusterFocus # NoCluster => Cluster(d) = clusterFocus}

ShownRelations == {e \in Relations : {e.source, e.target} \subseteq ShownAssets}

(* sort: each member of a set in the place that the order gives it. *)
Sorted(S, order) ==
    [i \in 1..Cardinality(S) |->
       CHOOSE x \in S : Cardinality({y \in S : <<y, x>> \in order}) = i - 1]

(* aggregateGraph *)
Clusters ==
    LET keys == {Cluster(d) : d \in ShownAssets}
    IN Sorted(keys, {p \in keys \X keys : p[1] < p[2]})

PairOf(e) == <<Cluster(e.source), Cluster(e.target)>>

ClusterLinks ==
    LET Summed(p) == {e \in ShownRelations : PairOf(e) = p}
        pairs == {p \in {PairOf(e) : e \in ShownRelations} : p[1] # p[2]}
    IN {[pair  |-> p,
         count |-> MapThenSumSet(LAMBDA e : e.count, Summed(p)),
         relationships |-> Cardinality(Summed(p))] : p \in pairs}

RenderedClusters == SubSeq(Clusters, 1, Min({renderLimit, Len(Clusters)}))

(* The index, from 0, of the later end. *)
RevealAt(link) ==
    Max({i - 1 : i \in {j \in DOMAIN Clusters : Clusters[j] \in ToSet(link.pair)}})

(* revealOrderedEdges *)
RevealOrder ==
    LET at == [l \in ClusterLinks |-> RevealAt(l)]
        Before(a, b) == \/ at[a] < at[b]
                        \/ /\ at[a] = at[b]
                           /\ \/ a.pair[1] < b.pair[1]
                              \/ a.pair[1] = b.pair[1] /\ a.pair[2] < b.pair[2]
    IN Sorted(ClusterLinks, {p \in ClusterLinks \X ClusterLinks : Before(p[1], p[2])})

(* renderedClusterEdges: the prefix whose length the search finds. *)
RenderedLinks ==
    LET ordered == RevealOrder
        search[span \in (0..Len(ordered)) \X (0..Len(ordered))] ==
          LET low == span[1]
              high == span[2]
              mid == (low + high) \div 2
          IN IF low >= high THEN low
             ELSE IF RevealAt(ordered[mid + 1]) < renderLimit THEN search[<<mid + 1, high>>]
                                                              ELSE search[<<low, mid>>]
    IN SubSeq(ordered, 1, search[<<0, Len(ordered)>>])

(* inspectedClusterRelationship *)
Inspected == {e \in ShownRelations : inspected # NoPair /\ PairOf(e) = inspected}

-----------------------------------------------------------------------------
(* Search, filters and presets choose the devices. *)
ListAssets(chosen) ==
    /\ chosen # listed /\ listed' = chosen
    /\ shrunk' = (shrunk \/ inspectPage > 0)
    /\ UNCHANGED <<clusterKind, clusterFocus, renderLimit, autoReveal, inspected, inspectPage>>

(* The effect on the grouping starts the display again. *)
GroupClusters(kind) ==
    /\ kind # clusterKind /\ clusterKind' = kind
    /\ clusterFocus' = NoCluster
    /\ renderLimit' = ClusterBatch /\ autoReveal' = FALSE
    /\ inspected' = NoPair /\ inspectPage' = 0
    /\ UNCHANGED <<listed, shrunk>>

(* A cluster, or the list of clusters, opens one alone; "Back to overview" *)
(* closes it. *)
FocusCluster(k) ==
    /\ k # clusterFocus
    /\ \/ k = NoCluster
       \/ \E d \in listed : Cluster(d) = k
    /\ clusterFocus' = k
    /\ shrunk' = (shrunk \/ inspectPage > 0)
    /\ UNCHANGED <<listed, clusterKind, renderLimit, autoReveal, inspected, inspectPage>>

Partial == clusterFocus = NoCluster /\ Len(Clusters) > renderLimit

Grown == Min({renderLimit + ClusterBatch, Len(Clusters)})

(* "Show next 24 clusters", "Progressively show all", "Reset cluster display" *)
ShowMore ==
    /\ Partial
    /\ autoReveal' = FALSE /\ renderLimit' = Grown
    /\ UNCHANGED <<listed, clusterKind, clusterFocus, inspected, inspectPage, shrunk>>

ToggleReveal ==
    /\ Partial
    /\ autoReveal' = ~autoReveal
    /\ UNCHANGED <<listed, clusterKind, clusterFocus, renderLimit, inspected, inspectPage, shrunk>>

ResetClusters ==
    /\ Partial
    /\ autoReveal' = FALSE /\ renderLimit' = ClusterBatch
    /\ UNCHANGED <<listed, clusterKind, clusterFocus, inspected, inspectPage, shrunk>>

(* The effect of the progressive display: a frame draws the next batch,    *)
(* and the display ends when all are drawn. *)
RevealStep ==
    /\ autoReveal
    /\ IF renderLimit < Len(Clusters)
       THEN /\ clusterFocus = NoCluster
            /\ renderLimit' = Grown /\ UNCHANGED autoReveal
       ELSE autoReveal' = FALSE /\ UNCHANGED renderLimit
    /\ UNCHANGED <<listed, clusterKind, clusterFocus, inspected, inspectPage, shrunk>>

(* A link opens the list of its relationships, "Close" ends it. *)
InspectLinkOf(link) ==
    /\ clusterFocus = NoCluster
    /\ inspected' = link.pair /\ inspectPage' = 0 /\ shrunk' = FALSE
    /\ UNCHANGED <<listed, clusterKind, clusterFocus, renderLimit, autoReveal>>

CloseInspector ==
    /\ clusterFocus = NoCluster /\ inspected # NoPair
    /\ inspected' = NoPair /\ inspectPage' = 0 /\ shrunk' = FALSE
    /\ UNCHANGED <<listed, clusterKind, clusterFocus, renderLimit, autoReveal>>

TurnInspector(step) ==
    /\ clusterFocus = NoCluster /\ inspected # NoPair
    /\ IF step < 0 THEN inspectPage > 0
       ELSE (inspectPage + 1) * InspectorSize < Cardinality(Inspected)
    /\ inspectPage' = inspectPage + step
    /\ UNCHANGED <<listed, clusterKind, clusterFocus, renderLimit, autoReveal, inspected, shrunk>>

TopologyClustersNext ==
    \/ ShowMore \/ ToggleReveal \/ ResetClusters \/ RevealStep \/ CloseInspector
    \/ \E chosen \in SUBSET ClusteredAssets : ListAssets(chosen)
    \/ \E kind \in GroupingKinds : GroupClusters(kind)
    \/ \E k \in {NoCluster} \cup {KeyOf(d, clusterKind) : d \in ClusteredAssets} : FocusCluster(k)
    \/ \E link \in ToSet(RenderedLinks) : InspectLinkOf(link)
    \/ \E step \in {-1, 1} : TurnInspector(step)

TopologyClustersSpec == TopologyClustersInit /\ [][TopologyClustersNext]_clusterVars

-----------------------------------------------------------------------------
(* The links drawn are exactly those between clusters that are drawn, and  *)
(* no communication is lost or counted twice by the sums: together with    *)
(* those inside a cluster they are all there are (aggregateGraph,          *)
(* revealOrderedEdges, renderedClusterEdges).                              *)
LinksMatchClusters ==
    /\ ToSet(RenderedLinks) =
         {l \in ClusterLinks : ToSet(l.pair) \subseteq ToSet(RenderedClusters)}
    /\ MapThenSumSet(LAMBDA l : l.count, ClusterLinks)
         + MapThenSumSet(LAMBDA e : e.count,
                         {e \in ShownRelations : PairOf(e)[1] = PairOf(e)[2]})
       = MapThenSumSet(LAMBDA e : e.count, ShownRelations)

(* The list of an inspected link is of the grouping on screen, and its     *)
(* page exists. The exception is what the code does: a filter that         *)
(* shortens the list leaves its page behind the end (clusterEdgePage).     *)
InspectorHasPage ==
    inspected # NoPair =>
       /\ {inspected[1], inspected[2]} \subseteq {Cluster(d) : d \in ClusteredAssets}
       /\ inspectPage = 0 \/ shrunk \/ inspectPage * InspectorSize < Cardinality(Inspected)

(* The progressive display never waits for a frame that draws nothing: as  *)
(* long as it is on, the whole map is on screen (the effect that asks for  *)
(* frames does nothing in a cluster that is shown alone). *)
RevealGoesOn == autoReveal /\ renderLimit < Len(Clusters) => clusterFocus = NoCluster

(* What the aggregated map promises (NetworkTopology.tsx).                 *)
ClustersInv == LinksMatchClusters /\ InspectorHasPage /\ RevealGoesOn
=============================================================================
