------------------------------ MODULE MCReads ------------------------------
(* The read side for TLC; each behaviour runs one part.  loop: the service that
   answers a question and writes its stream.  panel: the panel that reads one or
   two.  gateway: the message history of the loop's turns.  api: EngagementViews
   with two sources of different types, an edge between their entities, one to a
   status fact, and an agentic link.  web: GraphPanel with a graph of four nodes
   and one edge to a node it lacks.  They meet only in the stream AnswerStream
   describes, in the turns of the loop and in the database. *)
EXTENDS AgenticAnswer, AskPanel, ModelGateway, EngagementViews, GraphPanel

VARIABLE side

MCTypes == [s \in Sources |-> IF s = 1 THEN "person" ELSE "repo"]
MCEdges ==
  {[from |-> Entity(1), to |-> Entity(2), predicate |-> "owns", source |-> 2],
   [from |-> FactNode(StatusFact(1)), to |-> Entity(1), predicate |-> "informs", source |-> 1],
   [from |-> Entity(2), to |-> Entity(1), predicate |-> "owns", source |-> None]}

Node(id, kind, type) == [id |-> id, kind |-> kind, type |-> type]
MCGraphs ==
  LET a == Node(1, "entity", "person")  b == Node(2, "entity", "repo")
      c == Node(3, "entity", "repo")    f == Node(4, "fact", "decision")
      lost == Node(5, "entity", "repo")
  IN {[nodes |-> {a, b, c, f},
       edges |-> {[from |-> a, to |-> b, predicate |-> "owns"],
                  [from |-> f, to |-> b, predicate |-> "informs"],
                  [from |-> b, to |-> c, predicate |-> "informs"],
                  [from |-> c, to |-> lost, predicate |-> "owns"]}],
      [nodes |-> {a, f}, edges |-> {}]}

AskInit ==
  /\ Init /\ PanelInit /\ GatewayInit
  /\ side # "loop" => live /\ allowed /\ trace = "open"
ReadsInit ==
  /\ side \in {"loop", "panel", "gateway", "api", "web"}
  /\ AskInit /\ ViewsInit /\ GraphInit
  /\ side # "web" => graph = CHOOSE g \in Graphs : TRUE

askVars == <<vars, panelVars, gatewayVars>>
viewsVars == <<viewVars, graphVars>>

AskNext ==
  \/ side = "loop" /\ Next /\ UNCHANGED <<panelVars, gatewayVars>>
  \/ side = "panel" /\ PanelNext /\ UNCHANGED <<vars, gatewayVars>>
  \/ side = "gateway" /\ GatewayNext /\ UNCHANGED <<vars, panelVars>>

(* The fact list pages, or the other views are asked for: they meet only in
   the database. *)
ViewsSideNext ==
  \/ /\ side = "api" /\ ViewsNext /\ UNCHANGED graphVars
     /\ walk.pages > 0 => req'.kind \in {"none", "list"}
  \/ side = "web" /\ GraphNext /\ UNCHANGED viewVars

ReadsNext ==
  /\ UNCHANGED side
  /\ \/ AskNext /\ UNCHANGED viewsVars
     \/ ViewsSideNext /\ UNCHANGED askVars

others == <<panelVars, gatewayVars, viewsVars, side>>
ReadsSpec ==
  /\ ReadsInit /\ [][ReadsNext]_<<askVars, viewsVars, side>>
  /\ WF_vars(side = "loop" /\ LoopStep /\ UNCHANGED others)
  /\ WF_vars(side = "loop" /\ ReaderStep /\ UNCHANGED others)

(* Every question that is asked ends: the reader's stream closes, with its
   terminal event, however the model, the tools and the fallback fail. *)
QuestionEnds == side = "loop" ~> finished
=============================================================================
