----------------------------- MODULE GraphPanel -----------------------------
(***************************************************************************)
(* The graph explorer of the web app (graph-view.tsx over graph-layout.ts): *)
(* a fetched graph, two filters over it, the nodes brought into view one   *)
(* click at a time, and the provenance of the selected entity, which       *)
(* entity-provenance-panel.tsx fetches on its own.  React runs the effects *)
(* of an update before it handles the next event, so an action is an event *)
(* with the effects it causes.                                             *)
(***************************************************************************)
EXTENDS Naturals, FiniteSets

CONSTANTS Graphs,        \* graphs the API may have answered with
          SeedCount,     \* pickSeedNodes' count
          MaxFetches,    \* bound: provenance requests in flight
          NoNode

VARIABLES graph, entityType, predicate, visible, selected,
          fetches,   \* requests in flight: [id, node, cancelled]
          panel      \* [node, status] of the provenance panel, status "none" when closed

graphVars == <<graph, entityType, predicate, visible, selected, fetches, panel>>

(* filterGraph: an entity type drops the facts; a predicate keeps all nodes;
   an edge stays only when both its ends do. *)
FilterGraph(g, type, pred) ==
  LET nodes == {n \in g.nodes : type = "" \/ (n.kind = "entity" /\ n.type = type)} IN
  [nodes |-> nodes,
   edges |-> {e \in g.edges : /\ pred = "" \/ e.predicate = pred
                              /\ {e.from, e.to} \subseteq nodes}]

Adjacent(g, n) ==
  {m \in g.nodes : \E e \in g.edges : {e.from, e.to} \subseteq g.nodes
                     /\ ((e.from = n /\ e.to = m) \/ (e.to = n /\ e.from = m))}

(* The SeedCount nodes of highest degree, ties by id; all when there are no
   more, or no edge to expand along. *)
PickSeedNodes(g) ==
  LET degree(n) == Cardinality(Adjacent(g, n))
      before(m, n) == degree(m) > degree(n) \/ (degree(m) = degree(n) /\ m.id < n.id)
  IN IF Cardinality(g.nodes) <= SeedCount \/ \A n \in g.nodes : degree(n) = 0 THEN g.nodes
     ELSE {n \in g.nodes : Cardinality({m \in g.nodes : before(m, n)}) < SeedCount}

Filtered == FilterGraph(graph, entityType, predicate)
Drawn == [nodes |-> Filtered.nodes \cap visible,
          edges |-> {e \in Filtered.edges : {e.from, e.to} \subseteq visible}]

Closed == [node |-> NoNode, status |-> "none"]

GraphInit ==
  /\ graph \in Graphs
  /\ entityType = "" /\ predicate = ""
  /\ visible = PickSeedNodes(FilterGraph(graph, "", ""))
  /\ selected = NoNode
  /\ fetches = {} /\ panel = Closed

(* The provenance panel mounts for a selected entity, refetches when it
   changes and unmounts otherwise; the cleanup marks the request it leaves. *)
CancelAll == {[f EXCEPT !.cancelled = TRUE] : f \in fetches}

Selects(node) ==
  /\ selected' = node
  /\ IF node = selected THEN UNCHANGED <<fetches, panel>>
     ELSE IF node = NoNode \/ node.kind # "entity"
     THEN fetches' = CancelAll /\ panel' = Closed
     ELSE \E id \in 1..MaxFetches :
            /\ \A f \in fetches : f.id # id
            /\ fetches' = CancelAll \cup {[id |-> id, node |-> node, cancelled |-> FALSE]}
            /\ panel' = [node |-> node, status |-> "loading"]

(* The filters changed: the view starts over from the new seeds. *)
StartsOver(type, pred) ==
  /\ entityType' = type /\ predicate' = pred
  /\ visible' = PickSeedNodes(FilterGraph(graph, type, pred))
  /\ Selects(NoNode)

(* graphFacets: the options come from the unfiltered graph. *)
ChangesFilter ==
  /\ \E type \in {""} \cup {n.type : n \in {m \in graph.nodes : m.kind = "entity"}},
        pred \in {""} \cup {e.predicate : e \in graph.edges} :
       <<type, pred>> # <<entityType, predicate>> /\ StartsOver(type, pred)
  /\ UNCHANGED graph

ResetsView ==
  /\ StartsOver(entityType, predicate)
  /\ UNCHANGED graph

ClicksNode(node) ==
  /\ node \in Drawn.nodes
  /\ visible' = visible \cup {node} \cup Adjacent(Filtered, node)
  /\ Selects(node)
  /\ UNCHANGED <<graph, entityType, predicate>>

ClicksPane ==
  /\ Selects(NoNode)
  /\ UNCHANGED <<graph, entityType, predicate, visible>>

MutIgnoresCleanup(f, ok) ==
  panel' = [node |-> f.node, status |-> IF ok THEN "ready" ELSE "error"]
Settles(f, ok) ==
  panel' = IF f.cancelled THEN panel
           ELSE [node |-> f.node, status |-> IF ok THEN "ready" ELSE "error"]

FetchReturns(f) ==
  /\ \E ok \in BOOLEAN : Settles(f, ok)
  /\ fetches' = fetches \ {f}
  /\ UNCHANGED <<graph, entityType, predicate, visible, selected>>

GraphNext ==
  \/ ChangesFilter \/ ResetsView \/ ClicksPane
  \/ \E n \in graph.nodes : ClicksNode(n)
  \/ \E f \in fetches : FetchReturns(f)

GraphSpec == GraphInit /\ [][GraphNext]_graphVars

-----------------------------------------------------------------------------
(* Answers that arrive out of order, or after the panel moved on, never show
   under another node: what the panel shows is about the selected entity. *)
PanelAboutSelected ==
  panel.status # "none" => panel.node = selected

(* What is drawn hangs together although the fetched graph may name nodes that
   it left out: every edge joins two drawn nodes, and the selected node is
   drawn. *)
DrawnHangsTogether ==
  /\ \A e \in Drawn.edges : {e.from, e.to} \subseteq Drawn.nodes
  /\ selected # NoNode => selected \in Drawn.nodes
=============================================================================
