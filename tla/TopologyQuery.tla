----------------------------- MODULE TopologyQuery -----------------------------
(***************************************************************************)
(* The relationship search of the topology (NetworkTopology.tsx): a        *)
(* breadth-first search, bounded in hops, over the communications of the   *)
(* report, from one device or from every device that matches the options.  *)
(* The map beside it draws some devices only, and the search reads the     *)
(* level and the role of a device from the drawn ones.                     *)
(***************************************************************************)
EXTENDS Integers, FiniteSets, FiniteSetsExt

CONSTANTS Devices,     \* IP addresses
          Graphs,      \* reports: sets of observed communications
          ClassOf(_),  \* deviceIndex: the class of a device, NoClass when it has no row
          RoleOf(_),   \* architectureFor: role group and Purdue level
          Classes, NoClass, Roles,
          Anything,    \* an option left open
          PageSize,    \* QUERY_PAGE_SIZE
          MaxHops      \* the longest search offered

ASSUME TopologySizes == PageSize \in Nat \ {0} /\ MaxHops \in Nat \ {0}
ASSUME GraphsAssumption ==
    \A g \in Graphs : IsFiniteSet(g) /\ \A e \in g : {e.source, e.target} \subseteq Devices
ASSUME AnythingAssumption == Anything \notin Devices \cup Classes \cup Roles

VARIABLES graph,      \* allQueryEdges
          drawn,      \* the devices of baseNodes
          question,   \* query
          asked,      \* queryActive
          resultPage  \* queryResultPage

topologyQueryVars == <<graph, drawn, question, asked, resultPage>>

Directions == {"both", "outbound", "inbound"}
Subjects == {"all", "suspicious", "findings"}

OpenQuestion == [start |-> Anything, hops |-> 1, direction |-> "both",
                 subject |-> "all", class |-> Anything, role |-> Anything]

TopologyQueryInit ==
    /\ graph \in Graphs
    /\ drawn = Devices
    /\ question = OpenQuestion
    /\ asked = FALSE /\ resultPage = 0

-----------------------------------------------------------------------------
Ends(links) == {e.source : e \in links} \cup {e.target : e \in links}

(* The communications the options admit. *)
Eligible(q) ==
    {e \in graph : /\ q.subject = "suspicious" => e.suspicious
                   /\ q.subject = "findings" => e.finding}

(* matchDevice: a device without a row has no class, and one that is not   *)
(* drawn has no role. *)
MatchDevice(d, q, shown) ==
    /\ q.class = Anything \/ ClassOf(d) = q.class
    /\ q.role = Anything \/ (d \in shown /\ RoleOf(d) = q.role)

(* Where the search starts: the options about devices count only when no   *)
(* device is named. *)
Seeds(q, shown) ==
    IF q.start # Anything THEN {q.start}
    ELSE {d \in Ends(Eligible(q)) : MatchDevice(d, q, shown)}

Forward(e, frontier, q) == q.direction # "inbound" /\ e.source \in frontier
Reversed(e, frontier, q) == q.direction # "outbound" /\ e.target \in frontier

Leads(links, frontier, q) ==
    {e \in links : Forward(e, frontier, q) \/ Reversed(e, frontier, q)}

Neighbours(links, frontier, q) ==
    {e.target : e \in {x \in links : Forward(x, frontier, q)}}
    \cup {e.source : e \in {x \in links : Reversed(x, frontier, q)}}

(* A faulty Levels: a device is visited when it is left, not when it is reached,  *)
(* and the walk turns back only along the direction it came. *)
LevelsFault(links, seeds, q) ==
    LET level[n \in 0..q.hops] ==
          IF n = 0 THEN [reached |-> seeds, frontier |-> seeds, selected |-> {}]
          ELSE LET before == level[n - 1]
                   next == {e.target : e \in Leads(links, before.frontier, q)}
               IN [reached  |-> before.reached \cup next,
                   frontier |-> next \ before.reached,
                   selected |-> before.selected \cup Leads(links, before.frontier, q)]
    IN level

(* The loop of both searches: what it holds after each hop. *)
Levels(links, seeds, q) ==
    LET level[n \in 0..q.hops] ==
          IF n = 0 THEN [reached |-> seeds, frontier |-> seeds, selected |-> {}]
          ELSE LET before == level[n - 1]
                   next == Neighbours(links, before.frontier, q)
               IN [reached  |-> before.reached \cup next,
                   frontier |-> next \ before.reached,
                   selected |-> before.selected \cup Leads(links, before.frontier, q)]
    IN level

(* queryMatchingEdges *)
Matching(q, shown) == Levels(Eligible(q), Seeds(q, shown), q)[q.hops].selected

(* queryHopDepths: for a named device, the hop at which each result is     *)
(* found. *)
HopDepths(q, shown) ==
    LET level == Levels(Matching(q, shown), {q.start}, q)
    IN [e \in level[q.hops].selected |->
          Min({n \in 1..q.hops : e \in level[n].selected})]

Results == IF asked THEN Matching(question, drawn) ELSE {}

PageCount == Max({1, (Cardinality(Results) + PageSize - 1) \div PageSize})

EffectivePage == Min({resultPage, PageCount - 1})

-----------------------------------------------------------------------------
(* The fields of the form; an answer on screen follows them at once. *)
Ask(field, value) ==
    /\ question[field] # value
    /\ question' = [question EXCEPT ![field] = value]
    /\ UNCHANGED <<graph, drawn, asked, resultPage>>

NameDevice(d) == Ask("start", d)
ChooseSubject(s) == Ask("subject", s)
ChooseHops(n) == Ask("hops", n)
ChooseClass(c) == Ask("class", c)
ChooseDirection(d) == Ask("direction", d)
ChooseRole(r) == Ask("role", r)

(* "View relationships", "Hide relationships" *)
ToggleAnswer ==
    /\ asked' = ~asked /\ resultPage' = 0
    /\ UNCHANGED <<graph, drawn, question>>

(* "Previous", "Next" *)
TurnResults ==
    /\ asked
    /\ resultPage' \in {Max({0, resultPage - 1}), Min({PageCount - 1, resultPage + 1})}
    /\ resultPage' < resultPage => EffectivePage > 0
    /\ resultPage' > resultPage => EffectivePage + 1 < PageCount
    /\ UNCHANGED <<graph, drawn, question, asked>>

(* Presets, filters and limits decide which devices the map draws. *)
DrawDevices(shown) ==
    /\ drawn' = shown /\ shown # drawn
    /\ UNCHANGED <<graph, question, asked, resultPage>>

TopologyQueryNext ==
    \/ \E d \in Devices \cup {Anything} : NameDevice(d)
    \/ \E s \in Subjects : ChooseSubject(s)
    \/ \E n \in 1..MaxHops : ChooseHops(n)
    \/ \E c \in Classes \cup {Anything} : ChooseClass(c)
    \/ \E d \in Directions : ChooseDirection(d)
    \/ \E r \in Roles \cup {Anything} : ChooseRole(r)
    \/ ToggleAnswer \/ TurnResults
    \/ \E shown \in SUBSET Devices : DrawDevices(shown)

TopologyQuerySpec == TopologyQueryInit /\ [][TopologyQueryNext]_topologyQueryVars

-----------------------------------------------------------------------------
(* The reference: a walk of n communications, each taken in an admitted    *)
(* direction. *)
Linked(a, b, q) ==
    \E e \in Eligible(q) :
        \/ q.direction # "inbound" /\ e.source = a /\ e.target = b
        \/ q.direction # "outbound" /\ e.target = a /\ e.source = b

Walk(seeds, n, last, q) ==
    \E w \in [0..n -> Devices] :
        /\ w[0] \in seeds /\ w[n] = last
        /\ \A i \in 1..n : Linked(w[i - 1], w[i], q)

(* e can be taken as the step after a walk of n communications. *)
StepAfter(e, seeds, n, q) ==
    \/ q.direction # "inbound" /\ Walk(seeds, n, e.source, q)
    \/ q.direction # "outbound" /\ Walk(seeds, n, e.target, q)

(* The search finds exactly the communications on walks of at most hops    *)
(* steps: the frontier and the set of visited devices lose none and add    *)
(* none (queryMatchingEdges). *)
SearchFollowsCommunications ==
    asked =>
      Results = {e \in Eligible(question) :
                   \E n \in 0..(question.hops - 1) :
                      StepAfter(e, Seeds(question, drawn), n, question)}

(* Every result of a search from a device is labelled, with the length of  *)
(* the shortest walk that takes it (queryHopDepths, computed again over    *)
(* the results). *)
HopsAreShortest ==
    asked /\ question.start # Anything =>
      LET depth == HopDepths(question, drawn)
      IN /\ DOMAIN depth = Results
         /\ \A e \in Results :
              /\ StepAfter(e, {question.start}, depth[e] - 1, question)
              /\ \A n \in 0..(depth[e] - 2) : ~StepAfter(e, {question.start}, n, question)

(* An answer that has results shows some of them, whatever page the answer *)
(* before it was on (effectiveQueryPage). *)
PageHasResults ==
    Results # {} => EffectivePage * PageSize < Cardinality(Results)

(* What an answer about relationships promises (NetworkTopology.tsx).      *)
QueryInv == SearchFollowsCommunications /\ HopsAreShortest /\ PageHasResults
=============================================================================
