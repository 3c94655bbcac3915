------------------------------ MODULE WorkItems ------------------------------
(* What becomes of one item of an origin as its versions arrive: the GitHub,
   Linear and Granola connectors turn an item into an artifact (toArtifact,
   *FromWebhook), the landing dedupes it by its content, normalize turns it into
   records and detectStatusChange into a fact.  Versions come from sync runs,
   whose page and membership were read earlier in the run, and from webhooks,
   which are repeated, late or lost.  One landing is one transaction here:
   GraphWrite has the interleavings inside it, ConnectorPaging the walk. *)
EXTENDS Naturals, FiniteSets

CONSTANTS
  Connectors,   \* of "github", "linear", "granola"
  Policies,     \* of "full-retention", "reference-only"
  Items,
  People,
  Texts,        \* descriptions, transcripts
  Marked,       \* [Texts -> decisions marked in it]
  MaxEdits,     \* bound on the origin's edits
  None

ASSUME ItemsAssumption ==
  /\ Connectors \subseteq {"github", "linear", "granola"}
  /\ None \notin People \cup Texts

VARIABLES
  connector, policy,
  origin,    \* [Items -> the item as it is at its origin]
  access,    \* who may see the origin: "public", "members" or "unreadable"
  hooks,     \* webhook payloads sent: never removed, so repeatable
  walk,      \* the sync run: what is left of the page it read
  sources,   \* rows landed: item, content hash, artifact and ACL snapshot
  graph,     \* entities by item and type: state and body
  facts,     \* status_change facts: item, what, and the source attesting it
  seen,      \* the version of each item last handed to the landing
  late       \* items one of whose deliveries was overtaken

itemVars == <<connector, policy, origin, access, hooks, walk, sources, graph,
              facts, seen, late>>

(* An item: its state and text, the person who owns it, those asked to look and
   those who did; v stands for updatedAt. *)
NoItem == [state |-> "none", text |-> None, owner |-> None, asked |-> {}, looked |-> {}, v |-> 0]
States == CASE connector = "github"  -> {"open", "closed", "merged"}
            [] connector = "linear"  -> {"todo", "done"}
            [] connector = "granola" -> {"doc", "transcript"}

(* Only GitHub's list call asks for the reviews there were. *)
FromList(i) == IF connector = "github" THEN i ELSE [i EXCEPT !.looked = {}]

(* A webhook says nothing of who looked; Granola has none, and the other two
   take a few events only. *)
GithubHook(i) == [i EXCEPT !.looked = {}]
LinearHook(i) == i
FromHook(i) == IF connector = "github" THEN GithubHook(i) ELSE LinearHook(i)

(* toArtifact: the text only where the policy lets it stay; raw never has it. *)
Retained(i) == IF policy = "reference-only" THEN None ELSE i.text
DecisionRefs(text) == IF text = None THEN {} ELSE Marked[text]
GithubArtifact(i) ==
  [kind |-> "issue", body |-> Retained(i),
   raw |-> [v |-> i.v, state |-> i.state, owner |-> i.owner, asked |-> i.asked,
            looked |-> i.looked, marks |-> DecisionRefs(i.text)]]
LinearArtifact(i) ==
  [kind |-> "issue", body |-> Retained(i),
   raw |-> [v |-> i.v, state |-> i.state, owner |-> i.owner, asked |-> i.asked,
            looked |-> {}, marks |-> DecisionRefs(i.text)]]
GranolaArtifact(i) ==
  [kind |-> i.state, body |-> Retained(i),
   raw |-> [v |-> 0, state |-> i.state, owner |-> None, asked |-> i.asked,
            looked |-> {}, marks |-> {}]]
Artifact(i) ==
  CASE connector = "github" -> GithubArtifact(i)
    [] connector = "linear" -> LinearArtifact(i)
    [] connector = "granola" -> GranolaArtifact(i)

(* connectorContentHash: of the body, or of the metadata where there is none. *)
ContentHash(a) == IF a.body # None THEN [body |-> a.body, raw |-> None]
                  ELSE [body |-> None, raw |-> a.raw]

(* normalize: the item's own entity, its people, and the edges among them. *)
GithubRecords(a) ==
  [type |-> "work_item", state |-> a.raw.state,
   people |-> ({a.raw.owner} \cup a.raw.asked \cup a.raw.looked) \ {None},
   edges |-> {<<p, "owns">> : p \in {a.raw.owner} \ {None}}
             \cup {<<p, "informed_of">> : p \in a.raw.asked \cup a.raw.looked}
             \cup {<<d, "implemented_by">> : d \in a.raw.marks}]
LinearRecords(a) ==
  [type |-> "work_item", state |-> a.raw.state,
   people |-> ({a.raw.owner} \cup a.raw.asked) \ {None},
   edges |-> {<<p, "owns">> : p \in {a.raw.owner} \ {None}}
             \cup {<<p, "informed_of">> : p \in a.raw.asked}
             \cup {<<d, "implemented_by">> : d \in a.raw.marks}]
GranolaRecords(a) ==
  [type |-> IF a.kind = "transcript" THEN "meeting" ELSE "document", state |-> "none",
   people |-> a.raw.asked, edges |-> {<<p, "relates_to">> : p \in a.raw.asked}]
RecordsOf(a) ==
  CASE connector = "github" -> GithubRecords(a)
    [] connector = "linear" -> LinearRecords(a)
    [] connector = "granola" -> GranolaRecords(a)

(* detectStatusChange, which only GitHub has. *)
MutStatusChange(before, after) ==
  CASE after = "merged" -> {"merged"}
    [] before = "open" /\ after = "closed" -> {"closed"}
    [] OTHER -> {}
StatusChange(before, after) ==
  CASE before # "merged" /\ after = "merged" -> {"merged"}
    [] before = "open" /\ after = "closed" -> {"closed"}
    [] OTHER -> {}

(* resolveAcl: an origin whose members cannot be read gives no rules, which
   leaves the engagement's own membership to decide. *)
Accesses == {"public", "members", "unreadable"}
GithubAcl(who) == CASE who = "public" -> "everyone" [] who = "members" -> "members" [] OTHER -> "no rules"
LinearAcl(who) == IF who = "unreadable" THEN "no rules" ELSE "members"
GranolaAcl(who) == IF who = "unreadable" THEN "no rules" ELSE "members"
Acl(who) == CASE connector = "github" -> GithubAcl(who)
              [] connector = "linear" -> LinearAcl(who)
              [] connector = "granola" -> GranolaAcl(who)

---------------------------------------------------------------------------
ItemsInit ==
  /\ connector \in Connectors /\ policy \in Policies
  /\ origin = [w \in Items |-> NoItem]
  /\ access \in Accesses
  /\ hooks = {} /\ walk = {} /\ sources = {} /\ graph = {} /\ facts = {}
  /\ seen = [w \in Items |-> NoItem] /\ late = {}

(* The origin: an item is created, then edited in one respect at a time, with a
   webhook where the origin sends them.  A merged pull request stays merged. *)
Edits == Cardinality({o \in Items \X (1..MaxEdits) : o[2] <= origin[o[1]].v})
Created == [state : States \ {"merged"}, text : Texts \cup {None}, owner : People \cup {None},
            asked : {{}}, looked : {{}}, v : {0}]
Edited(i) ==
  IF i.v = 0 THEN Created
  ELSE {[i EXCEPT !.state = s] : s \in IF i.state = "merged" THEN {} ELSE States}
       \cup {[i EXCEPT !.text = t] : t \in Texts \cup {None}}
       \cup {[i EXCEPT !.asked = @ \cup {p}] : p \in People}
       \cup {[i EXCEPT !.looked = @ \cup {p}] : p \in People}
OriginChanges(w) ==
  /\ Edits < MaxEdits
  /\ \E i \in Edited(origin[w]) \ {origin[w]} :
       origin' = [origin EXCEPT ![w] = [i EXCEPT !.v = @ + 1]]
  /\ hooks' = IF connector = "granola" THEN hooks
              ELSE hooks \cup {[item |-> w, payload |-> FromHook(origin'[w])]}
  /\ UNCHANGED <<connector, policy, access, walk, sources, graph, facts, seen, late>>

(* A sync run reads a page, then lands its items one by one, and may be cut. *)
Reads ==
  /\ walk = {}
  /\ walk' = {[item |-> w, payload |-> FromList(origin[w])] : w \in {i \in Items : origin[i].v > 0}}
  /\ UNCHANGED <<connector, policy, origin, access, hooks, sources, graph, facts, seen, late>>

(* One artifact handed to the landing: nothing at all happens to a duplicate. *)
MergedAttributes(entity, rec) == rec.state
Lands(w, i) ==
  LET a == Artifact(i)
      rec == RecordsOf(a)
      row == [item |-> w, hash |-> ContentHash(a), artifact |-> a, acl |-> Acl(access)]
      known == {e \in graph : e.item = w /\ e.type = rec.type}
  IN /\ seen' = [seen EXCEPT ![w] = i]
     /\ late' = IF i.v < seen[w].v THEN late \cup {w} ELSE late
     /\ IF \E r \in sources : r.item = w /\ r.hash = row.hash
          THEN UNCHANGED <<sources, graph, facts>>
          ELSE /\ sources' = sources \cup {row}
               /\ graph' = (graph \ known) \cup
                    IF known = {} THEN {[item |-> w, type |-> rec.type, state |-> rec.state, body |-> a.body]}
                    ELSE {[e EXCEPT !.state = MergedAttributes(e, rec),
                                    !.body = IF @ = None THEN a.body ELSE @] : e \in known}
               /\ facts' = facts \cup
                    {[item |-> w, what |-> f, source |-> row.hash] :
                       f \in UNION {IF connector = "github" THEN StatusChange(e.state, rec.state) ELSE {} : e \in known}}

SyncLands ==
  \E p \in walk :
    /\ Lands(p.item, p.payload)
    /\ walk' = walk \ {p}
    /\ UNCHANGED <<connector, policy, origin, access, hooks>>
HookLands ==
  \E h \in hooks :
    /\ Lands(h.item, h.payload)
    /\ UNCHANGED <<connector, policy, origin, access, hooks, walk>>
RunCut ==
  /\ walk # {} /\ walk' = {}
  /\ UNCHANGED <<connector, policy, origin, access, hooks, sources, graph, facts, seen, late>>

ItemsNext ==
  \/ \E w \in Items : OriginChanges(w)
  \/ Reads \/ SyncLands \/ HookLands \/ RunCut

ItemsSpec == ItemsInit /\ [][ItemsNext]_itemVars

---------------------------------------------------------------------------
(* A merge is recorded once, however often and by whichever of sync and webhook
   its versions arrive, as long as none of the item's deliveries was overtaken. *)
OneMergeFact ==
  \A w \in Items \ late : Cardinality({f \in facts : f.item = w /\ f.what = "merged"}) <= 1

(* Of an overtaken delivery it does not hold: a late version reopens the entity
   and the next one records the merge again. *)
OneMergeFactEver ==
  \A w \in Items : Cardinality({f \in facts : f.item = w /\ f.what = "merged"}) <= 1

(* Every edge an artifact yields starts at a person the same artifact yields, or
   at a decision its text marks: none waits for an endpoint nobody will write. *)
EdgesHaveEnds ==
  \A r \in sources : \A e \in RecordsOf(r.artifact).edges :
    e[1] \in RecordsOf(r.artifact).people \/ e[2] = "implemented_by"

(* An item whose last delivery carried no text to keep shows the state it had
   there, unless a delivery was overtaken. *)
Current(w) ==
  seen[w].v > 0 /\ connector # "granola" =>
    \E e \in graph : e.item = w /\ e.state = seen[w].state
TextlessItemsCurrent ==
  \A w \in Items \ late : Retained(seen[w]) = None => Current(w)

(* What github-connector.ts:296-302 says of the transitions it fires on, and the
   roadmap of the fact synthesized on each: the graph has seen every state a
   delivery brought.  Broken: a text that did not change makes the delivery a
   duplicate, whatever became of the state. *)
ItemsCurrent == \A w \in Items \ late : Current(w)
=============================================================================
