----------------------------- MODULE GraphWrite -----------------------------
(***************************************************************************)
(* persistGraph: the canonical graph of one landed artifact, written in    *)
(* the transaction that lands its source.  People and organisations go     *)
(* through resolveEntity and findMatchCandidates, everything else through  *)
(* upsertEntityByRef, edges last.  Several artifacts of an engagement are  *)
(* persisted at once: by connector syncs and by webhook deliveries.        *)
(*                                                                         *)
(* READ COMMITTED: a statement sees committed rows and its own; an UPDATE  *)
(* waits for the transaction that last wrote the row and then overwrites   *)
(* it with what was computed from the row as it was SELECTed.  An insert   *)
(* that meets another's uncommitted key waits for it.                      *)
(***************************************************************************)
EXTENDS Integers, Sequences, FiniteSets, SequencesExt

CONSTANTS Content,   \* [artifact -> [entities, edges] of its normalize]
          Refs,
          Tier,      \* [Refs -> 1..4]: origin ref, email, SSO subject, domain
          None

Artifacts == DOMAIN Content
States    == {"open", "merged"}
Records   == UNION {ToSet(Content[a].entities) : a \in Artifacts}

IsIdentity(rec) == rec.type \in {"person", "organization"}
IsOther(rec)    == ~IsIdentity(rec)

RowType == [type : {r.type : r \in Records}, name : {r.name : r \in Records},
            refs : SUBSET Refs, state : States]

(* The order in which the records of an artifact are written, and the ids of
   the rows it may insert. *)
Plan(a) == SelectSeq(Content[a].entities, IsIdentity) \o SelectSeq(Content[a].entities, IsOther)
Ids     == UNION {{a} \X (1..Len(Plan(a))) : a \in Artifacts}

(* A record is a row with a ref; a plan is a sequence of records. *)
ASSUME GraphAssumption ==
  /\ Tier \in [Refs -> 1..4]
  /\ Records \subseteq RowType /\ \A rec \in Records : rec.refs # {}
  /\ \A a \in Artifacts : Plan(a) \in Seq(Records) /\ Content[a].edges \in Seq(Refs \X Refs)
  /\ None \notin Ids \cup RowType

(* The connectors give a work item one ref, its own, which is of nothing else. *)
ASSUME ItemsKnownByOneRef ==
  \A rec \in Records : rec.type = "work_item" =>
    \E r \in Refs : rec.refs = {r} /\ \A other \in Records : r \in other.refs => other.type = "work_item"

(* Only GitHub's records can be merged, and it brings an item in one record. *)
ASSUME MergedItemsComeOnce ==
  \A a \in Artifacts : \A m, n \in 1..Len(Plan(a)) :
    m # n /\ Plan(a)[n].state = "merged" /\ IsOther(Plan(a)[n]) =>
      Plan(a)[m].type # Plan(a)[n].type \/ Plan(a)[m].refs \cap Plan(a)[n].refs = {}

VARIABLES entities,   \* [Ids -> committed row or None]
          edges,      \* committed [from, to, source]; unique on from and to
          queue,      \* committed pairs of identity_review_queue
          facts,      \* committed status_change facts: [entity, source]
          sources,    \* artifacts whose source row is committed
          tx,         \* [Artifacts -> transaction of persistGraph]
          overlapped  \* history: two transactions were open at once

vars == <<entities, edges, queue, facts, sources, tx, overlapped>>
tables == <<entities, edges, queue, facts, sources>>

Idle == [pc |-> "idle", at |-> 1, hit |-> None, seen |-> None,
         rows |-> [e \in Ids |-> None], edges |-> {}, pairs |-> {}, facts |-> {}]

Init ==
  /\ entities = [e \in Ids |-> None]
  /\ edges = {} /\ queue = {} /\ facts = {} /\ sources = {}
  /\ tx = [a \in Artifacts |-> Idle]
  /\ overlapped = FALSE

-----------------------------------------------------------------------------
Active(a)     == tx[a].pc # "idle"
Row(a, e)     == IF tx[a].rows[e] # None THEN tx[a].rows[e] ELSE entities[e]
Visible(a)    == {e \in Ids : Row(a, e) # None}
RowFree(a, e) == \A b \in Artifacts \ {a} : Active(b) => tx[b].rows[e] = None
Rec(a)        == Plan(a)[tx[a].at]

(* deterministicKeys: a domain identifies an organisation only.  A work item's
   refs are all origin refs. *)
Keys(rec) == {r \in rec.refs : Tier[r] = 4 => rec.type # "person"}

Matching(a, rec, keys) == {e \in Visible(a) : Row(a, e).type = rec.type /\ Row(a, e).refs \cap keys # {}}

(* The first tier with a hit wins. *)
MutFuzzyMerges(a, rec) == {e \in Visible(a) : Row(a, e).type = rec.type /\ Row(a, e).name = rec.name}
Hits(a, rec) ==
  LET found(k) == Matching(a, rec, {r \in Keys(rec) : Tier[r] = k})
      best == {k \in 1..4 : found(k) # {} /\ \A j \in 1..(k - 1) : found(j) = {}}
  IN UNION {found(k) : k \in best}

(* After a person: the candidates; after an entity: the next, then the edges. *)
NextPc(a, at) == IF at > Len(Plan(a)) THEN "edges" ELSE "match"

(* A dedupe hit writes nothing, so a landed artifact is never persisted again. *)
Begins(a) ==
  /\ ~Active(a) /\ a \notin sources
  /\ tx' = [tx EXCEPT ![a] = [Idle EXCEPT !.pc = NextPc(a, 1)]]
  /\ overlapped' = (overlapped \/ \E b \in Artifacts : Active(b))
  /\ UNCHANGED tables

(* SELECT ... LIMIT 1: any of the rows that match. *)
Matches(a) ==
  /\ tx[a].pc = "match"
  /\ \E e \in Hits(a, Rec(a)) :
       tx' = [tx EXCEPT ![a].pc = "update", ![a].hit = e, ![a].seen = Row(a, e)]
  /\ UNCHANGED <<tables, overlapped>>

Scans(a) == IF Rec(a).type = "person" THEN "scan" ELSE "next"

Inserts(a) ==
  /\ tx[a].pc = "match" /\ Hits(a, Rec(a)) = {}
  /\ tx' = [tx EXCEPT ![a].pc = Scans(a), ![a].hit = <<a, tx[a].at>>,
                      ![a].rows = [tx[a].rows EXCEPT ![<<a, tx[a].at>>] = Rec(a)]]
  /\ UNCHANGED <<tables, overlapped>>

(* detectStatusChange, asked only of a row that was there before. *)
Transition(seen, rec) == IsOther(rec) /\ seen.state # "merged" /\ rec.state = "merged"

MutReplacesRefs(seen, rec) == [seen EXCEPT !.refs = rec.refs, !.state = rec.state]
Merged(seen, rec) == [seen EXCEPT !.refs = seen.refs \cup rec.refs, !.state = rec.state]

Updates(a) ==
  /\ tx[a].pc = "update" /\ RowFree(a, tx[a].hit)
  /\ tx' = [tx EXCEPT ![a].pc = Scans(a), ![a].seen = None,
                      ![a].rows = [tx[a].rows EXCEPT ![tx[a].hit] = Merged(tx[a].seen, Rec(a))],
                      ![a].facts = tx[a].facts \cup
                                   {f \in {tx[a].hit} : Transition(tx[a].seen, Rec(a))}]
  /\ UNCHANGED <<tables, overlapped>>

(* findMatchCandidates: people of the same name (a score in the band) that share
   no exact ref are queued, unless the pair is in the queue already. *)
Pairs(a, self) ==
  {{self, e} : e \in {o \in Visible(a) \ {self} :
     /\ Row(a, o).type = "person" /\ Row(a, o).name = Row(a, self).name
     /\ Row(a, o).refs \cap Row(a, self).refs = {}}}

Queues(a) ==
  LET new == Pairs(a, tx[a].hit) \ queue IN
  /\ tx[a].pc = "scan"
  /\ \A b \in Artifacts \ {a} : tx[b].pairs \cap new = {}
  /\ tx' = [tx EXCEPT ![a].pc = "next", ![a].pairs = tx[a].pairs \cup new]
  /\ UNCHANGED <<tables, overlapped>>

NextRecord(a) ==
  /\ tx[a].pc = "next"
  /\ tx' = [tx EXCEPT ![a].pc = NextPc(a, tx[a].at + 1), ![a].hit = None,
                      ![a].at = IF tx[a].at < Len(Plan(a)) THEN tx[a].at + 1 ELSE 1]
  /\ UNCHANGED <<tables, overlapped>>

(* resolveEndpointRef: any visible entity with the ref, or null. *)
Endpoint(a, ref) ==
  LET found == {e \in Visible(a) : ref \in Row(a, e).refs}
  IN IF found = {} THEN {None} ELSE found

BothResolve(from, to) == from # None /\ to # None

Joins(a, from, to) ==
  LET new == [from |-> from, to |-> to, source |-> a]
      key(e) == <<e.from, e.to>>
      taken(s) == \E e \in s : key(e) = key(new)
  IN
  /\ \A b \in Artifacts \ {a} : ~taken(tx[b].edges)
  /\ tx' = [tx EXCEPT ![a].at = tx[a].at + 1,
              ![a].edges = tx[a].edges \cup
                {e \in {new} : BothResolve(from, to) /\ ~taken(edges \cup tx[a].edges)}]

WritesEdge(a) ==
  /\ tx[a].pc = "edges" /\ tx[a].at <= Len(Content[a].edges)
  /\ LET ends == Content[a].edges[tx[a].at]
     IN \E from \in Endpoint(a, ends[1]), to \in Endpoint(a, ends[2]) : Joins(a, from, to)
  /\ UNCHANGED <<tables, overlapped>>

(* insertStatusChangeFact: a fact without an extraction run, attested by the
   source that was landed. *)
StatusChangeFact(e, a) == [entity |-> e, source |-> a]

Commits(a) ==
  /\ tx[a].pc = "edges" /\ tx[a].at > Len(Content[a].edges)
  /\ entities' = [e \in Ids |-> Row(a, e)]
  /\ edges' = edges \cup tx[a].edges
  /\ queue' = queue \cup tx[a].pairs
  /\ facts' = facts \cup {StatusChangeFact(e, a) : e \in tx[a].facts}
  /\ sources' = sources \cup {a}
  /\ tx' = [tx EXCEPT ![a] = Idle]
  /\ UNCHANGED overlapped

(* The transaction rolls back (a crash, a deadlock victim); a sync retries, a
   webhook is redelivered. *)
Aborts(a) ==
  /\ Active(a)
  /\ tx' = [tx EXCEPT ![a] = Idle]
  /\ UNCHANGED <<tables, overlapped>>

Persist(a) ==
  \/ Begins(a)
  \/ Matches(a)
  \/ Inserts(a)
  \/ Updates(a)
  \/ Queues(a)
  \/ NextRecord(a)
  \/ WritesEdge(a)
  \/ Commits(a)
  \/ Aborts(a)

AllLanded == sources = Artifacts /\ UNCHANGED vars

Next == AllLanded \/ \E a \in Artifacts : Persist(a)

Spec == Init /\ [][Next]_vars

-----------------------------------------------------------------------------
Live == {e \in Ids : entities[e] # None}

TypeOK ==
  /\ \A e \in Live : entities[e] \in RowType
  /\ \A p \in queue : p \subseteq Live /\ Cardinality(p) = 2
  /\ sources \subseteq Artifacts /\ overlapped \in BOOLEAN
  /\ \A a \in Artifacts :
       /\ tx[a].pc \in {"idle", "match", "update", "scan", "next", "edges"}
       /\ tx[a].hit \in Ids \cup {None}

(* However resolutions race, a row only ever gathers what its records' own keys
   tie together: it "never auto-merges" two people on a likeness. *)
Tied(S) == \A T \in SUBSET S :
  T # {} /\ T # S => \E x \in T, y \in S \ T : x.type = y.type /\ Keys(x) \cap Keys(y) # {}

RowsGatherOnlyTied ==
  \A e \in Live : \E S \in SUBSET Records :
    /\ S # {} /\ Tied(S)
    /\ entities[e].refs = UNION {rec.refs : rec \in S}

(* "Insert the edge only if BOTH resolve": whatever commits first, no edge is in
   the graph before both its nodes are, and no two edges join the same nodes. *)
EdgesJoinNodes ==
  /\ \A e \in edges : {e.from, e.to} \subseteq Live
  /\ \A e, f \in edges : e.from = f.from /\ e.to = f.to => e = f

(* "First sight of an entity is a creation, never a transition": a synthesized
   fact is about a row that was committed, not merged yet, before. *)
FactsNeedPriorRow ==
  [][\A f \in facts' \ facts : f.entity \in Live]_vars

(* As long as deliveries do not overlap, an artifact that landed stays in the
   graph whole, on rows found by every ref it brought, whatever lands later;
   and a work item has one row. *)
LandedFindable ==
  \A a \in sources : \A i \in 1..Len(Plan(a)) :
    \E e \in Live : entities[e].type = Plan(a)[i].type /\ Plan(a)[i].refs \subseteq entities[e].refs

OneRowPerItem ==
  \A e, f \in Live :
    entities[e].type = "work_item" /\ entities[e].refs \cap entities[f].refs # {} => e = f

SerialWritesConverge == ~overlapped => LandedFindable /\ OneRowPerItem
=============================================================================
