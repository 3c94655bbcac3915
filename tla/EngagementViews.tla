-------------------------- MODULE EngagementViews --------------------------
(***************************************************************************)
(* The read side of one engagement: LineageService (fact and entity        *)
(* provenance, the graph) and RetrievalService (the fact list, the context *)
(* search).  A request is one transaction at READ COMMITTED, so each of    *)
(* its statements sees what is committed when it runs, while landings,     *)
(* agentic links and extraction runs, which replace the facts of an        *)
(* earlier attempt, commit in between.                                     *)
(*                                                                         *)
(* The database is given by what has been committed: the sources landed    *)
(* with their entity, status fact and edges, the links, and for each       *)
(* source the start of the extraction run whose facts are there.           *)
(***************************************************************************)
EXTENDS Integers, FiniteSets

CONSTANTS Sources,      \* sources, by id; each lands one entity and one status fact
          Edges,        \* relationships rows that may be written
          TypeOf,       \* [Sources -> type of the entity landed with it]
          FactsPerRun, Quotes,            \* size of an extraction's output
          EntityCap, FactCap, EdgeCap,    \* GRAPH_*_CAP
          PageSize,     \* rows of a page of facts
          Precision,    \* clock ticks to a millisecond
          MaxRuns, MaxPages,              \* bounds
          None

Entity(s) == <<"entity", s>>
StatusFact(s) == [at |-> 0, src |-> s, n |-> 0]

ASSUME ViewsAssumption ==
  /\ \A e \in Edges : e.source \in Sources \cup {None}
  /\ IsFiniteSet(Sources) /\ Sources \subseteq Int /\ IsFiniteSet(Edges)
  /\ {FactsPerRun, Quotes, EntityCap, FactCap, EdgeCap, PageSize, Precision} \subseteq Nat \ {0}
  /\ None \notin Sources

VARIABLES landed, linked,   \* committed landings / links without a source
          run, clock,       \* [Sources -> start of the committed run, 0: none]
          req,              \* the request being served
          walk              \* what the fact list of the web app has loaded

viewDb == <<landed, linked, run, clock>>
viewVars == <<viewDb, req, walk>>

-----------------------------------------------------------------------------
(* The committed rows. *)
EntityRows == {Entity(s) : s \in landed}
RunFacts   == {[at |-> run[s], src |-> s, n |-> i] : s \in {t \in Sources : run[t] > 0},
                                                     i \in 1..FactsPerRun}
FactRows   == {StatusFact(s) : s \in landed} \cup RunFacts
EdgeRows   == {e \in Edges : IF e.source = None THEN e \in linked ELSE e.source \in landed}
Evidence   == {[fact |-> f, quote |-> q] : f \in RunFacts, q \in 1..Quotes}
FactNode(f) == <<"fact", f>>

Nothing == [kind |-> "none", pc |-> "idle", on |-> None, first |-> {}, second |-> {},
            third |-> {}, cited |-> {}, log |-> "none",
            steady |-> [entities |-> {}, facts |-> {}, edges |-> {}]]

ViewsInit ==
  /\ landed = {} /\ linked = {} /\ run = [s \in Sources |-> 0] /\ clock = 1
  /\ req = Nothing
  /\ walk = [rows |-> {}, returned |-> 0, cursor |-> <<>>, open |-> TRUE, pages |-> 0, steady |-> {}]

(* What the request under way, and the pages loaded, could have counted on. *)
Removed(facts) ==
  /\ req' = [req EXCEPT !.steady.facts = @ \ facts]
  /\ walk' = [walk EXCEPT !.steady = @ \ facts]

Lands(s) ==
  /\ s \notin landed
  /\ landed' = landed \cup {s}
  /\ UNCHANGED <<linked, run, clock, req, walk>>

Links(e) ==
  /\ e.source = None /\ e \notin linked /\ landed = Sources
  /\ linked' = linked \cup {e}
  /\ UNCHANGED <<landed, run, clock, req, walk>>

(* runExtractionActivity: one transaction wipes what the run wrote before and
   writes its facts; their created_at is the start of the transaction. *)
Extracts(s) ==
  /\ s \in landed /\ clock <= MaxRuns
  /\ run' = [run EXCEPT ![s] = clock]
  /\ clock' = clock + 1
  /\ Removed({f \in RunFacts : f.src = s})
  /\ UNCHANGED <<landed, linked>>

-----------------------------------------------------------------------------
(* A request: TenantContextInterceptor opens the transaction, the handler runs
   its statements, the transaction commits and the response leaves. *)

Goes(pc) == req' = [req EXCEPT !.pc = pc]
OnlyRequest == UNCHANGED <<viewDb, walk>>

Begins(kind, on) ==
  /\ req.pc \in {"idle", "served", "refused"}
  /\ req' = [Nothing EXCEPT !.kind = kind, !.on = on,
                            !.pc = IF kind = "search" THEN "candidates" ELSE "gate",
                            !.steady = [entities |-> EntityRows, facts |-> FactRows, edges |-> EdgeRows]]
  /\ OnlyRequest

(* assertCanView: the caller's role may change at any time and is read here. *)
Gate ==
  /\ req.pc = "gate"
  /\ \E mayView \in BOOLEAN : Goes(IF mayView THEN "first" ELSE "refused")
  /\ OnlyRequest

(* getFactProvenance: the fact or a 404, its evidence, the log row. *)
FactAt(f) == {f} \cap FactRows

ReadsFact ==
  /\ req.kind = "fact" /\ req.pc = "first"
  /\ req' = [req EXCEPT !.first = FactAt(req.on),
                        !.pc = IF FactAt(req.on) # {} THEN "second" ELSE "refused"]
  /\ OnlyRequest

EvidenceFor(facts) == {ev \in Evidence : ev.fact \in facts}

ReadsEvidence ==
  /\ req.kind \in {"fact", "list"} /\ req.pc = "second"
  /\ req' = [req EXCEPT !.cited = EvidenceFor(req.first), !.log = "pending", !.pc = "handled"]
  /\ OnlyRequest

(* getEntityProvenance: the entity or a 404, the sourced edges at either end,
   the facts among their other ends.  Nothing is decrypted, nothing logged. *)
ReadsEntity ==
  /\ req.kind = "entity" /\ req.pc = "first"
  /\ Goes(IF Entity(req.on) \in EntityRows THEN "second" ELSE "refused")
  /\ OnlyRequest

EdgesTouching(node) == {e \in EdgeRows : e.source # None /\ (e.from = node \/ e.to = node)}

Counterpart(e, node) == IF e.from = node THEN e.to ELSE e.from

ReadsEdgesOfEntity ==
  /\ req.kind = "entity" /\ req.pc = "second"
  /\ req' = [req EXCEPT !.second = EdgesTouching(Entity(req.on)), !.pc = "third"]
  /\ OnlyRequest

ReadsFactsOfEntity ==
  /\ req.kind = "entity" /\ req.pc = "third"
  /\ req' = [req EXCEPT !.pc = "handled",
       !.third = {f \in FactRows : \E e \in req.second : Counterpart(e, Entity(req.on)) = FactNode(f)}]
  /\ OnlyRequest

(* getGraph: one row more than the cap is fetched, to know that it was hit. *)
MutFetchesTheCap(cap) == cap
FetchLimit(cap) == cap + 1

Limited(rows, cap, kept) ==
  /\ kept \subseteq rows
  /\ Cardinality(kept) = IF Cardinality(rows) <= FetchLimit(cap) THEN Cardinality(rows)
                                                                 ELSE FetchLimit(cap)

OfType(type) == {Entity(s) : s \in {t \in landed : type = None \/ TypeOf[t] = type}}
OfPredicate(p) == {e \in EdgeRows : p = None \/ e.predicate = p}

ReadsGraphEntities ==
  /\ req.kind = "graph" /\ req.pc = "first"
  /\ \E kept \in SUBSET EntityRows :
       /\ Limited(OfType(req.on.type), EntityCap, kept)
       /\ req' = [req EXCEPT !.first = kept, !.pc = "second"]
  /\ OnlyRequest

(* No fact nodes when the entities are narrowed to a type. *)
ReadsGraphFacts ==
  /\ req.kind = "graph" /\ req.pc = "second"
  /\ \E kept \in SUBSET FactRows :
       /\ Limited(IF req.on.type = None THEN FactRows ELSE {}, FactCap, kept)
       /\ req' = [req EXCEPT !.second = kept, !.pc = "third"]
  /\ OnlyRequest

ReadsGraphEdges ==
  /\ req.kind = "graph" /\ req.pc = "third"
  /\ \E kept \in SUBSET EdgeRows :
       /\ Limited(OfPredicate(req.on.predicate), EdgeCap, kept)
       /\ req' = [req EXCEPT !.third = kept, !.pc = "handled"]
  /\ OnlyRequest

GraphTruncated ==
  \/ Cardinality(req.first) > EntityCap
  \/ Cardinality(req.second) > FactCap
  \/ Cardinality(req.third) > EdgeCap

(* searchContext: candidates first, then the gate, then facts, quotes and
   sources in one join; a `retrieval` and a `content_read` row. *)
SourceContext(sources) == {ev \in Evidence : ev.fact.src \in sources}

ReadsCandidates ==
  /\ req.pc = "candidates"
  /\ req' = [req EXCEPT !.second = {s \in Sources : run[s] > 0}, !.pc = "gate"]
  /\ OnlyRequest

GathersContext ==
  /\ req.kind = "search" /\ req.pc = "first"
  /\ req' = [req EXCEPT !.first = {ev.fact : ev \in SourceContext(req.second)},
                        !.cited = SourceContext(req.second),
                        !.log = "pending", !.pc = "handled"]
  /\ OnlyRequest

(* listFacts, newest first: the rows after the cursor, one more than a page. *)
Newer(f, g) == f.at > g.at \/ (f.at = g.at /\ <<f.n, f.src>> # <<g.n, g.src>>
                               /\ (f.n > g.n \/ (f.n = g.n /\ f.src > g.src)))
Millis(at) == Precision * (at \div Precision)
Rounded(f) == [f EXCEPT !.at = Millis(@)]
MutCursorTiesRepeat(f, c) == f.at <= c.at
PastCursor(f, c) == f.at < c.at \/ (f.at = c.at /\ Newer(c, f))

ReadsPage ==
  LET found == {f \in FactRows : \A c \in req.on : PastCursor(f, c)} IN
  /\ req.kind = "list" /\ req.pc = "first"
  /\ req' = [req EXCEPT !.pc = "second",
       !.first = {f \in found : Cardinality({g \in found : Newer(g, f)}) < PageSize},
       !.third = IF Cardinality(found) > PageSize THEN {"more"} ELSE {}]
  /\ OnlyRequest

(* Any statement or decryption may fail; the transaction rolls back. *)
Fails ==
  /\ req.pc \in {"candidates", "gate", "first", "second", "third", "handled"}
  /\ req' = [req EXCEPT !.pc = "refused", !.log = "none"]
  /\ OnlyRequest

Commits ==
  /\ req.pc = "handled"
  /\ req' = [req EXCEPT !.pc = "committed",
                        !.log = IF @ = "pending" THEN "committed" ELSE @]
  /\ OnlyRequest

-----------------------------------------------------------------------------
(* The fact list appends a page that was asked for with its cursor. *)
Loaded ==
  LET last == CHOOSE f \in req.first : \A g \in req.first : g = f \/ Newer(g, f) IN
  [rows |-> walk.rows \cup req.first,
   returned |-> walk.returned + Cardinality(req.first),
   cursor |-> IF req.third # {} THEN <<Rounded(last)>> ELSE <<>>,
   open |-> req.third # {},
   pages |-> walk.pages + 1,
   steady |-> IF walk.pages = 0 THEN req.steady.facts ELSE walk.steady]

MayRespond == req.pc = "committed"
Responds ==
  /\ MayRespond
  /\ Goes("served")
  /\ walk' = IF req.kind = "list" THEN Loaded ELSE walk
  /\ UNCHANGED viewDb

LoadMore ==
  /\ walk.open /\ walk.pages < MaxPages
  /\ Begins("list", {walk.cursor[i] : i \in DOMAIN walk.cursor})

Filters == [type : {None} \cup {TypeOf[s] : s \in Sources},
            predicate : {None} \cup {e.predicate : e \in Edges}]

(* A link to a fact may be older than the run that replaced the fact. *)
Asks ==
  \/ \E f \in FactRows : Begins("fact", f)
  \/ \E s \in Sources : Begins("entity", s)
  \/ \E filter \in Filters : Begins("graph", filter)
  \/ Begins("search", None)
  \/ LoadMore

Handles ==
  \/ Gate \/ ReadsFact \/ ReadsEvidence \/ ReadsEntity \/ ReadsEdgesOfEntity \/ ReadsFactsOfEntity
  \/ ReadsGraphEntities \/ ReadsGraphFacts \/ ReadsGraphEdges
  \/ ReadsCandidates \/ GathersContext \/ ReadsPage
  \/ Fails \/ Commits \/ Responds

ViewsNext ==
  \/ \E s \in Sources : Lands(s) \/ Extracts(s)
  \/ \E e \in Edges : Links(e)
  \/ Asks \/ Handles

ViewsSpec == ViewsInit /\ [][ViewsNext]_viewVars

-----------------------------------------------------------------------------
Served(kind) == req.kind = kind /\ req.pc = "served"

(* A fact that is shown carries all of its own quotes or, when its run was
   replaced between the two statements, none; never those of another fact. *)
QuotesWholeOrNone ==
  req.pc = "served" =>
    /\ {ev.fact : ev \in req.cited} \subseteq req.first
    /\ \A f \in req.first : LET shown == {ev \in req.cited : ev.fact = f} IN
         shown = {} \/ Cardinality(shown) = Quotes

(* A graph that is not flagged as truncated holds every row its filter asks
   for that was there from the first statement to the last. *)
GraphCompleteOrFlagged ==
  Served("graph") /\ ~GraphTruncated =>
    /\ req.steady.entities \cap OfType(req.on.type) \subseteq req.first
    /\ req.on.type = None => req.steady.facts \subseteq req.second
    /\ req.steady.edges \cap OfPredicate(req.on.predicate) \subseteq req.third

(* The provenance of an entity lists every sourced edge at either end, with
   the facts at the other end of each. *)
DerivationsComplete ==
  Served("entity") =>
    LET node == Entity(req.on) IN
    \A e \in req.steady.edges :
      e.source # None /\ node \in {e.from, e.to} =>
        /\ e \in req.second
        /\ \A f \in req.steady.facts : FactNode(f) \in {e.from, e.to} => f \in req.third

(* A response with decrypted content leaves only after the row that records
   the read is committed; a failure after the log statement leaves neither. *)
ServedReadsLogged ==
  /\ req.kind \in {"fact", "list", "search"} /\ req.pc = "served" => req.log = "committed"
  /\ req.pc = "refused" => req.log = "none"

(* Whatever is extracted between the pages of the fact list, it repeats no fact
   and, once there is no next page, has shown every fact that was there from the
   first page on, but for what the cursor's rounding costs: a fact between some
   fact that was shown and its cursor, so in its millisecond. *)
NoFactTwice == walk.returned = Cardinality(walk.rows)
SkippedByRounding(f) == \E g \in walk.rows : Newer(g, f) /\ ~Newer(Rounded(g), f)
FactsMissedByRounding == ~walk.open => \A f \in walk.steady \ walk.rows : SkippedByRounding(f)
FactsLoseOnlyTies == NoFactTwice /\ FactsMissedByRounding

(* What the integration test calls paging "with no overlap or gaps across the
   boundary".  Its facts are seconds apart; those of one extraction are not, and
   the rounding skips some. *)
NoFactMissed == ~walk.open => walk.steady \subseteq walk.rows
EachFactOnce == NoFactTwice /\ NoFactMissed
=============================================================================
