---------------------------- MODULE GraphProofs ----------------------------
(***************************************************************************)
(* What writes the canonical graph, for any artifacts, deliveries, reviews *)
(* and transcripts.  The components share no state; each has its own       *)
(* invariant and theorems here.                                            *)
(***************************************************************************)
EXTENDS GraphWrite, IdentityReview, TranscriptChunks, AgenticLinking, NameMatching, FiniteOrders

(***************************************************************************)
(* persistGraph.  A transaction overwrites rows with what it computed from *)
(* rows it read before a wait, so what a row gathers is an argument about  *)
(* every copy of a row: committed, written and not committed, or read.     *)
(***************************************************************************)
OfRecords(row, S) ==
  /\ S # {} /\ Tied(S) /\ \A rec \in S : rec.type = row.type
  /\ row.refs = UNION {rec.refs : rec \in S}

TiedRow(row) == row \in RowType /\ \E S \in SUBSET Records : OfRecords(row, S)

MaybeRow == RowType \cup {None}

TxStates == [pc : {"idle", "match", "update", "scan", "next", "edges"}, at : Nat \ {0},
             hit : Ids \cup {None}, seen : MaybeRow, rows : [Ids -> MaybeRow],
             edges : SUBSET [from : Ids, to : Ids, source : Artifacts],
             pairs : SUBSET SUBSET Ids, facts : SUBSET Ids]

(* A key of rec is a ref of the row, which is of its type. *)
Shares(row, rec) == row.type = rec.type /\ row.refs \cap Keys(rec) # {}

(* The state t of a transaction that persists a. *)
TxGood(a, t) ==
  /\ t \in TxStates
  /\ t.pc \in {"match", "update", "scan", "next"} => t.at \in 1..Len(Plan(a))
  /\ t.pc \in {"update", "scan"} => t.hit \in Ids
  /\ t.pc = "update" => TiedRow(t.seen) /\ Shares(t.seen, Plan(a)[t.at])
  /\ \A e \in Ids : t.rows[e] # None => TiedRow(t.rows[e])

RowsInv ==
  /\ entities \in [Ids -> MaybeRow] /\ \A e \in Ids : entities[e] # None => TiedRow(entities[e])
  /\ tx \in [Artifacts -> TxStates] /\ \A a \in Artifacts : TxGood(a, tx[a])
  /\ edges \subseteq [from : Ids, to : Ids, source : Artifacts]

-----------------------------------------------------------------------------
LEMMA PlanFacts ==
  ASSUME NEW a \in Artifacts
  PROVE  /\ Len(Plan(a)) \in Nat
         /\ \A n \in 1..Len(Plan(a)) : Plan(a)[n] \in Records /\ <<a, n>> \in Ids
<1>1. Plan(a) \in Seq(Records)
  BY GraphAssumption
<1> QED BY <1>1 DEF Ids

(* A record is tied to itself. *)
LEMMA RecordsAreTied ==
  ASSUME NEW rec \in Records
  PROVE  TiedRow(rec)
<1>1. rec \in RowType /\ {rec} \in SUBSET Records
  BY GraphAssumption
<1>2. Tied({rec})
  BY DEF Tied
<1>3. OfRecords(rec, {rec})
  BY <1>2 DEF OfRecords
<1> QED BY <1>1, <1>3 DEF TiedRow

(* A record whose key is a ref of the row ties itself to the row's records:
   whatever part of them is cut off, the cut goes through a shared key. *)
LEMMA TiedGrows ==
  ASSUME NEW row, TiedRow(row), NEW rec \in Records, Shares(row, rec)
  PROVE  TiedRow(Merged(row, rec))
<1>1. PICK S \in SUBSET Records : OfRecords(row, S)
  BY DEF TiedRow
<1>2. PICK x \in S : x.type = rec.type /\ Keys(x) \cap Keys(rec) # {}
  <2>1. PICK r \in row.refs : r \in Keys(rec)
    BY DEF Shares
  <2>2. PICK x \in S : r \in x.refs /\ x.type = rec.type
    BY <1>1, <2>1 DEF OfRecords, Shares
  <2> QED BY <2>1, <2>2 DEF Keys
<1>3. Tied(S \cup {rec})
  <2> SUFFICES ASSUME NEW T \in SUBSET (S \cup {rec}), T # {}, T # S \cup {rec}
               PROVE  \E y \in T, z \in (S \cup {rec}) \ T : y.type = z.type /\ Keys(y) \cap Keys(z) # {}
    BY DEF Tied
  <2>1. CASE T \cap S # {} /\ T \cap S # S
    <3>1. \E y \in T \cap S, z \in S \ (T \cap S) : y.type = z.type /\ Keys(y) \cap Keys(z) # {}
      BY <1>1, <2>1 DEF OfRecords, Tied
    <3> QED BY <3>1
  <2>2. CASE T \cap S = {}
    <3>1. T = {rec} /\ x \notin T
      BY <2>2
    <3> QED BY <1>2, <3>1
  <2>3. CASE T \cap S = S
    <3>1. x \in T /\ rec \notin T
      BY <2>3
    <3> QED BY <1>2, <3>1
  <2> QED BY <2>1, <2>2, <2>3
<1>4. row \in RowType /\ rec \in RowType
  BY GraphAssumption DEF TiedRow
<1>5. /\ Merged(row, rec) \in RowType /\ Merged(row, rec).type = row.type
      /\ Merged(row, rec).refs = row.refs \cup rec.refs
  BY <1>4 DEF Merged, RowType
<1>6. OfRecords(Merged(row, rec), S \cup {rec})
  BY <1>1, <1>3, <1>5 DEF OfRecords, Shares
<1> QED BY <1>5, <1>6 DEF TiedRow

(* What a transaction sees. *)
LEMMA SeenRowsAreTied ==
  ASSUME RowsInv, NEW a \in Artifacts, NEW e \in Visible(a)
  PROVE  TiedRow(Row(a, e)) /\ e \in Ids
BY DEF RowsInv, TxGood, Visible, Row

(* One transaction moves; the tables do not. *)
LEMMA TxMoves ==
  ASSUME RowsInv, NEW a \in Artifacts, NEW t, TxGood(a, t), tx' = [tx EXCEPT ![a] = t],
         UNCHANGED <<entities, edges>>
  PROVE  RowsInv'
<1>1. tx' \in [Artifacts -> TxStates] /\ tx'[a] = t /\ \A b \in Artifacts : b # a => tx'[b] = tx[b]
  BY DEF RowsInv, TxGood
<1> QED BY <1>1 DEF RowsInv, TxGood

LEMMA IdleGood ==
  ASSUME NEW a \in Artifacts
  PROVE  TxGood(a, Idle)
BY GraphAssumption DEF TxGood, Idle, TxStates, MaybeRow

LEMMA RowsInvStep ==
  ASSUME RowsInv, NEW a \in Artifacts, Persist(a)
  PROVE  RowsInv'
<1>0. tx[a] \in TxStates /\ TxGood(a, tx[a]) /\ tx \in [Artifacts -> TxStates]
  BY DEF RowsInv
<1>1. CASE Begins(a)
  <2> DEFINE t == [Idle EXCEPT !.pc = NextPc(a, 1)]
  <2>1. NextPc(a, 1) \in {"match", "edges"} /\ (NextPc(a, 1) = "match" => 1 \in 1..Len(Plan(a)))
    BY PlanFacts DEF NextPc
  <2>2. TxGood(a, t)
    BY <2>1, IdleGood DEF TxGood, Idle, TxStates
  <2>3. tx' = [tx EXCEPT ![a] = t] /\ UNCHANGED <<entities, edges>>
    BY <1>1 DEF Begins, tables
  <2> HIDE DEF t
  <2> QED BY <2>2, <2>3, TxMoves
<1>2. CASE Matches(a)
  <2>1. PICK e \in Hits(a, Rec(a)) :
          tx' = [tx EXCEPT ![a].pc = "update", ![a].hit = e, ![a].seen = Row(a, e)]
    BY <1>2 DEF Matches
  <2>2. e \in Visible(a) /\ Shares(Row(a, e), Rec(a))
    BY <2>1 DEF Hits, Matching, Shares
  <2>3. TiedRow(Row(a, e)) /\ e \in Ids /\ Row(a, e) \in RowType
    BY <2>2, SeenRowsAreTied DEF TiedRow
  <2> DEFINE t == [tx[a] EXCEPT !.pc = "update", !.hit = e, !.seen = Row(a, e)]
  <2>4. t \in TxStates /\ t.pc = "update" /\ t.hit = e /\ t.seen = Row(a, e) /\ t.at = tx[a].at
        /\ t.rows = tx[a].rows
    BY <1>0, <2>3 DEF TxStates, MaybeRow
  <2>5. tx' = [tx EXCEPT ![a] = t] /\ UNCHANGED <<entities, edges>>
    BY <1>2, <2>1 DEF Matches, tables
  <2> HIDE DEF t
  <2>6. TxGood(a, t)
    BY <1>0, <1>2, <2>2, <2>3, <2>4 DEF TxGood, Matches, Rec
  <2> QED BY <2>5, <2>6, TxMoves
<1>3. CASE Inserts(a)
  <2>1. /\ tx[a].at \in 1..Len(Plan(a)) /\ <<a, tx[a].at>> \in Ids
        /\ Rec(a) \in Records /\ TiedRow(Rec(a)) /\ Rec(a) \in RowType
    BY <1>0, <1>3, PlanFacts, RecordsAreTied DEF Inserts, TxGood, Rec, TiedRow
  <2> DEFINE rows == [tx[a].rows EXCEPT ![<<a, tx[a].at>>] = Rec(a)]
             t == [tx[a] EXCEPT !.pc = Scans(a), !.hit = <<a, tx[a].at>>, !.rows = rows]
  <2>2. rows \in [Ids -> MaybeRow] /\ \A e \in Ids : rows[e] # None => TiedRow(rows[e])
    BY <1>0, <2>1 DEF TxGood, TxStates, MaybeRow
  <2>3. tx' = [tx EXCEPT ![a] = t] /\ UNCHANGED <<entities, edges>>
    BY <1>3 DEF Inserts, tables
  <2> HIDE DEF rows
  <2>4. /\ t \in TxStates /\ t.pc \in {"scan", "next"} /\ t.hit \in Ids /\ t.at = tx[a].at
        /\ t.rows = rows
    BY <1>0, <2>1, <2>2 DEF TxStates, Scans
  <2> HIDE DEF t
  <2>5. TxGood(a, t)
    BY <2>1, <2>2, <2>4 DEF TxGood
  <2> QED BY <2>3, <2>5, TxMoves
<1>4. CASE Updates(a)
  <2>1. /\ tx[a].at \in 1..Len(Plan(a)) /\ tx[a].hit \in Ids /\ Rec(a) \in Records
        /\ TiedRow(tx[a].seen) /\ Shares(tx[a].seen, Rec(a))
    BY <1>0, <1>4, PlanFacts DEF Updates, TxGood, Rec
  <2>2. TiedRow(Merged(tx[a].seen, Rec(a))) /\ Merged(tx[a].seen, Rec(a)) \in RowType
    BY <2>1, TiedGrows DEF TiedRow
  <2> DEFINE rows == [tx[a].rows EXCEPT ![tx[a].hit] = Merged(tx[a].seen, Rec(a))]
             new == tx[a].facts \cup {f \in {tx[a].hit} : Transition(tx[a].seen, Rec(a))}
             t == [tx[a] EXCEPT !.pc = Scans(a), !.seen = None, !.rows = rows, !.facts = new]
  <2>3. rows \in [Ids -> MaybeRow] /\ \A e \in Ids : rows[e] # None => TiedRow(rows[e])
    BY <1>0, <2>1, <2>2 DEF TxGood, TxStates, MaybeRow
  <2>4. new \subseteq Ids
    BY <1>0, <2>1 DEF TxStates
  <2>5. tx' = [tx EXCEPT ![a] = t] /\ UNCHANGED <<entities, edges>>
    BY <1>4 DEF Updates, tables
  <2> HIDE DEF rows, new
  <2>6. /\ t \in TxStates /\ t.pc \in {"scan", "next"} /\ t.hit = tx[a].hit /\ t.at = tx[a].at
        /\ t.rows = rows
    BY <1>0, <2>3, <2>4 DEF TxStates, Scans, MaybeRow
  <2> HIDE DEF t
  <2>7. TxGood(a, t)
    BY <2>1, <2>3, <2>6 DEF TxGood
  <2> QED BY <2>5, <2>7, TxMoves
<1>5. CASE Queues(a)
  <2>1. Pairs(a, tx[a].hit) \subseteq SUBSET Ids
    BY <1>0, <1>5 DEF Pairs, Visible, Queues, TxGood
  <2> DEFINE pairs == tx[a].pairs \cup (Pairs(a, tx[a].hit) \ queue)
             t == [tx[a] EXCEPT !.pc = "next", !.pairs = pairs]
  <2>2. pairs \in SUBSET SUBSET Ids
    BY <1>0, <2>1 DEF TxStates
  <2>3. tx' = [tx EXCEPT ![a] = t] /\ UNCHANGED <<entities, edges>>
    BY <1>5 DEF Queues, tables
  <2> HIDE DEF pairs
  <2>4. t \in TxStates /\ t.pc = "next" /\ t.at = tx[a].at /\ t.rows = tx[a].rows
    BY <1>0, <2>2 DEF TxStates
  <2> HIDE DEF t
  <2>5. TxGood(a, t)
    BY <1>0, <1>5, <2>4 DEF TxGood, Queues
  <2> QED BY <2>3, <2>5, TxMoves
<1>6. CASE NextRecord(a)
  <2> DEFINE at == IF tx[a].at < Len(Plan(a)) THEN tx[a].at + 1 ELSE 1
             pc == NextPc(a, tx[a].at + 1)
             t == [tx[a] EXCEPT !.pc = pc, !.hit = None, !.at = at]
  <2>1. /\ at \in Nat \ {0} /\ pc \in {"match", "edges"}
        /\ pc = "match" => at \in 1..Len(Plan(a))
    BY <1>0, <1>6, PlanFacts DEF NextRecord, NextPc, TxGood
  <2>2. tx' = [tx EXCEPT ![a] = t] /\ UNCHANGED <<entities, edges>>
    BY <1>6 DEF NextRecord, tables
  <2> HIDE DEF at, pc
  <2>3. t \in TxStates /\ t.pc = pc /\ t.at = at /\ t.rows = tx[a].rows
    BY <1>0, <2>1 DEF TxStates
  <2> HIDE DEF t
  <2>4. TxGood(a, t)
    BY <1>0, <2>1, <2>3 DEF TxGood
  <2> QED BY <2>2, <2>4, TxMoves
<1>7. CASE WritesEdge(a)
  <2>1. PICK ref1, ref2 : \E from \in Endpoint(a, ref1), to \in Endpoint(a, ref2) : Joins(a, from, to)
    BY <1>7 DEF WritesEdge
  <2>2. PICK from \in Endpoint(a, ref1), to \in Endpoint(a, ref2) : Joins(a, from, to)
    BY <2>1
  <2>3. from \in Ids \cup {None} /\ to \in Ids \cup {None}
    BY <2>2 DEF Endpoint, Visible
  <2> DEFINE new == [from |-> from, to |-> to, source |-> a]
  <2>4. PICK added \in SUBSET {new} :
          /\ added # {} => BothResolve(from, to)
          /\ tx' = [tx EXCEPT ![a].at = tx[a].at + 1, ![a].edges = tx[a].edges \cup added]
    BY <2>2 DEF Joins
  <2>5. tx[a].edges \cup added \in SUBSET [from : Ids, to : Ids, source : Artifacts]
    BY <1>0, <2>3, <2>4 DEF BothResolve, TxStates
  <2> DEFINE t == [tx[a] EXCEPT !.at = tx[a].at + 1, !.edges = tx[a].edges \cup added]
  <2>6. tx' = [tx EXCEPT ![a] = t] /\ UNCHANGED <<entities, edges>>
    BY <1>7, <2>4 DEF WritesEdge, tables
  <2>7. t \in TxStates /\ t.pc = "edges" /\ t.rows = tx[a].rows
    <3>1. tx[a].pc = "edges"
      BY <1>7 DEF WritesEdge
    <3>2. tx[a].at + 1 \in Nat \ {0}
      BY <1>0 DEF TxStates
    <3> QED BY <1>0, <2>5, <3>1, <3>2 DEF TxStates
  <2> HIDE DEF t
  <2>8. TxGood(a, t)
    BY <1>0, <2>7 DEF TxGood
  <2> QED BY <2>6, <2>8, TxMoves
<1>8. CASE Commits(a)
  <2>1. \A e \in Ids : Row(a, e) # None => TiedRow(Row(a, e))
    BY SeenRowsAreTied DEF Visible
  <2>2. \A e \in Ids : Row(a, e) \in MaybeRow
    BY <2>1 DEF TiedRow, MaybeRow
  <2>3. entities' = [e \in Ids |-> Row(a, e)] /\ edges' = edges \cup tx[a].edges
        /\ tx' = [tx EXCEPT ![a] = Idle]
    BY <1>8 DEF Commits
  <2>4. edges' \subseteq [from : Ids, to : Ids, source : Artifacts]
    BY <1>0, <2>3 DEF RowsInv, TxStates
  <2>5. tx' \in [Artifacts -> TxStates] /\ \A b \in Artifacts : TxGood(b, tx[b])'
    BY <2>3, IdleGood DEF RowsInv, TxGood
  <2> QED BY <2>1, <2>2, <2>3, <2>4, <2>5 DEF RowsInv
<1>9. CASE Aborts(a)
  BY <1>9, IdleGood, TxMoves DEF Aborts, tables
<1> QED BY <1>1, <1>2, <1>3, <1>4, <1>5, <1>6, <1>7, <1>8, <1>9 DEF Persist

LEMMA RowsInvInit ==
  ASSUME Init
  PROVE  RowsInv
<1>1. entities \in [Ids -> MaybeRow] /\ \A e \in Ids : entities[e] = None
  BY DEF Init, MaybeRow
<1>2. tx \in [Artifacts -> TxStates] /\ \A a \in Artifacts : TxGood(a, tx[a])
  BY IdleGood DEF Init, TxGood
<1> QED BY <1>1, <1>2 DEF RowsInv, Init

(* Every copy of a row, wherever a transaction holds it, has the refs of tied
   records: what a transaction read, wrote or committed. *)
THEOREM RowsInvariant == Spec => []RowsInv
<1>1. Init => RowsInv
  BY RowsInvInit
<1>2. RowsInv /\ [Next]_vars => RowsInv'
  <2> SUFFICES ASSUME RowsInv, [Next]_vars PROVE RowsInv'
    OBVIOUS
  <2>1. CASE UNCHANGED vars
    BY <2>1 DEF vars, RowsInv, TxGood
  <2> QED BY <2>1, RowsInvStep DEF Next, AllLanded
<1> QED BY <1>1, <1>2, PTL DEF Spec

(* resolveEntity "never auto-merges" two people on a likeness: however the
   transactions that resolve the same people race, overwrite each other's rows
   or roll back, a committed row holds the refs of records that chains of
   shared deterministic keys tie together, and of no other. *)
THEOREM RowsStayTied == Spec => []RowsGatherOnlyTied
<1>1. RowsInv => RowsGatherOnlyTied
  BY DEF RowsInv, RowsGatherOnlyTied, TiedRow, OfRecords, Live
<1> QED BY <1>1, RowsInvariant, PTL

-----------------------------------------------------------------------------
(* Edges: a transaction's own, and those it may meet when it commits. *)
SameEnds(e, f) == e.from = f.from /\ e.to = f.to

EdgeInv ==
  /\ \A a \in Artifacts : \A e \in tx[a].edges : {e.from, e.to} \subseteq Visible(a)
  /\ \A a \in Artifacts : \A e, f \in edges \cup tx[a].edges : SameEnds(e, f) => e = f
  /\ \A a, b \in Artifacts : \A e \in tx[a].edges, f \in tx[b].edges : SameEnds(e, f) => a = b
  /\ EdgesJoinNodes

(* A transaction that starts, ends or writes rows leaves no edge dangling. *)
LEMMA EdgesKept ==
  ASSUME RowsInv, EdgeInv, NEW a \in Artifacts, \A b \in Artifacts : b # a => tx'[b] = tx[b],
         UNCHANGED <<entities, edges>>,
         \/ tx'[a].edges = {}
         \/ /\ tx'[a].edges = tx[a].edges
            /\ \A e \in Ids : tx[a].rows[e] # None => tx'[a].rows[e] # None
  PROVE  EdgeInv'
<1>1. \A b \in Artifacts : tx'[b].edges \in {{}, tx[b].edges}
  OBVIOUS
<1>2. ASSUME NEW b \in Artifacts, NEW e \in tx'[b].edges
      PROVE  {e.from, e.to} \subseteq Visible(b)'
  <2>1. {e.from, e.to} \subseteq Visible(b) /\ e \in tx[b].edges
    BY <1>1, <1>2 DEF EdgeInv
  <2>2. \A x \in Ids : tx[b].rows[x] # None => tx'[b].rows[x] # None
    BY <1>2
  <2> QED BY <2>1, <2>2 DEF Visible, Row
<1>3. EdgesJoinNodes'
  BY DEF EdgeInv, EdgesJoinNodes, Live
<1> QED BY <1>1, <1>2, <1>3 DEF EdgeInv, SameEnds

LEMMA EdgeInvStep ==
  ASSUME RowsInv, EdgeInv, NEW a \in Artifacts, Persist(a)
  PROVE  EdgeInv'
<1>0. /\ tx[a] \in TxStates /\ tx \in [Artifacts -> TxStates] /\ TxGood(a, tx[a])
      /\ \A b \in Artifacts : b # a => tx'[b] = tx[b]
  BY DEF RowsInv, Persist, Begins, Matches, Inserts, Updates, Queues, NextRecord, WritesEdge,
     Joins, Commits, Aborts
<1>1. CASE Begins(a) \/ Aborts(a)
  <2>1. tx'[a].edges = {} /\ UNCHANGED <<entities, edges>>
    BY <1>0, <1>1 DEF Begins, Aborts, Idle, tables
  <2> QED BY <1>0, <2>1, EdgesKept
<1>2. CASE Matches(a) \/ Queues(a) \/ NextRecord(a)
  <2>1. tx'[a].edges = tx[a].edges /\ tx'[a].rows = tx[a].rows
    <3>1. CASE Matches(a)
      BY <1>0, <3>1 DEF Matches, TxStates
    <3>2. CASE Queues(a)
      BY <1>0, <3>2 DEF Queues, TxStates
    <3>3. CASE NextRecord(a)
      BY <1>0, <3>3 DEF NextRecord, TxStates
    <3> QED BY <1>2, <3>1, <3>2, <3>3
  <2>2. UNCHANGED <<entities, edges>>
    BY <1>2 DEF Matches, Queues, NextRecord, tables
  <2> QED BY <1>0, <2>1, <2>2, EdgesKept
<1>3. CASE Inserts(a) \/ Updates(a)
  <2>1. PICK e \in Ids, row \in RowType :
          tx'[a].edges = tx[a].edges /\ tx'[a].rows = [tx[a].rows EXCEPT ![e] = row]
    <3>1. /\ tx[a].at \in 1..Len(Plan(a)) /\ <<a, tx[a].at>> \in Ids
          /\ Rec(a) \in Records /\ Rec(a) \in RowType
      BY <1>0, <1>3, PlanFacts, GraphAssumption DEF Inserts, Updates, TxGood, Rec
    <3>2. CASE Inserts(a)
      <4>1. tx'[a].edges = tx[a].edges /\ tx'[a].rows = [tx[a].rows EXCEPT ![<<a, tx[a].at>>] = Rec(a)]
        BY <1>0, <3>2 DEF Inserts, TxStates
      <4> QED BY <3>1, <4>1
    <3>3. CASE Updates(a)
      <4>1. /\ tx'[a].edges = tx[a].edges
            /\ tx'[a].rows = [tx[a].rows EXCEPT ![tx[a].hit] = Merged(tx[a].seen, Rec(a))]
        BY <1>0, <3>3 DEF Updates, TxStates
      <4>2. tx[a].hit \in Ids /\ Merged(tx[a].seen, Rec(a)) \in RowType
        BY <1>0, <3>1, <3>3, TiedGrows DEF Updates, TxGood, Rec, TiedRow
      <4> QED BY <4>1, <4>2
    <3> QED BY <1>3, <3>2, <3>3
  <2>2. \A x \in Ids : tx[a].rows[x] # None => tx'[a].rows[x] # None
    BY <1>0, <2>1, GraphAssumption DEF TxStates
  <2>3. UNCHANGED <<entities, edges>>
    BY <1>3 DEF Inserts, Updates, tables
  <2> QED BY <1>0, <2>1, <2>2, <2>3, EdgesKept
<1>4. CASE WritesEdge(a)
  <2>1. PICK ref1, ref2 : \E from \in Endpoint(a, ref1), to \in Endpoint(a, ref2) : Joins(a, from, to)
    BY <1>4 DEF WritesEdge
  <2>2. PICK from \in Endpoint(a, ref1), to \in Endpoint(a, ref2) : Joins(a, from, to)
    BY <2>1
  <2> DEFINE new == [from |-> from, to |-> to, source |-> a]
  <2>3. /\ \A b \in Artifacts \ {a} : \A e \in tx[b].edges : ~SameEnds(e, new)
        /\ \E added \in SUBSET {new} :
             /\ tx' = [tx EXCEPT ![a].at = tx[a].at + 1, ![a].edges = tx[a].edges \cup added]
             /\ added # {} => /\ BothResolve(from, to)
                              /\ \A e \in edges \cup tx[a].edges : ~SameEnds(e, new)
    BY <2>2 DEF Joins, SameEnds
  <2>4. PICK added \in SUBSET {new} :
             /\ tx' = [tx EXCEPT ![a].at = tx[a].at + 1, ![a].edges = tx[a].edges \cup added]
             /\ added # {} => /\ BothResolve(from, to)
                              /\ \A e \in edges \cup tx[a].edges : ~SameEnds(e, new)
    BY <2>3
  <2>5. BothResolve(from, to) => {new.from, new.to} \subseteq Visible(a)
    BY <2>2 DEF Endpoint, BothResolve
  <2> HIDE DEF new
  <2>6. tx'[a].rows = tx[a].rows /\ tx'[a].edges = tx[a].edges \cup added
    BY <1>0, <2>4 DEF TxStates
  <2>7. UNCHANGED <<entities, edges>>
    BY <1>4 DEF WritesEdge, tables
  <2>8. \A b \in Artifacts : Visible(b)' = Visible(b)
    BY <1>0, <2>6, <2>7 DEF Visible, Row
  <2>9. \A b \in Artifacts : \A e \in tx'[b].edges : {e.from, e.to} \subseteq Visible(b)'
    BY <1>0, <2>4, <2>5, <2>6, <2>8 DEF EdgeInv
  <2>10. \A b \in Artifacts : \A e, f \in edges \cup tx'[b].edges : SameEnds(e, f) => e = f
    <3> SUFFICES ASSUME NEW b \in Artifacts, NEW e \in edges \cup tx'[b].edges,
                        NEW f \in edges \cup tx'[b].edges, SameEnds(e, f)
                 PROVE  e = f
      OBVIOUS
    <3>1. CASE b # a
      BY <1>0, <3>1 DEF EdgeInv
    <3>2. CASE b = a
      <4>1. e \in edges \cup tx[a].edges \/ (e = new /\ added # {})
        BY <2>6, <3>2
      <4>2. f \in edges \cup tx[a].edges \/ (f = new /\ added # {})
        BY <2>6, <3>2
      <4> QED BY <2>4, <4>1, <4>2 DEF EdgeInv, SameEnds
    <3> QED BY <3>1, <3>2
  <2>11. \A b, c \in Artifacts : \A e \in tx'[b].edges, f \in tx'[c].edges : SameEnds(e, f) => b = c
    <3> SUFFICES ASSUME NEW b \in Artifacts, NEW c \in Artifacts, b # c, NEW e \in tx'[b].edges,
                        NEW f \in tx'[c].edges
                 PROVE  ~SameEnds(e, f)
      OBVIOUS
    <3>1. e \in tx[b].edges \/ (b = a /\ e = new)
      BY <1>0, <2>6
    <3>2. f \in tx[c].edges \/ (c = a /\ f = new)
      BY <1>0, <2>6
    <3> QED BY <2>3, <3>1, <3>2 DEF EdgeInv, SameEnds
  <2>12. EdgesJoinNodes'
    BY <2>7 DEF EdgeInv, EdgesJoinNodes, Live
  <2> QED BY <2>7, <2>9, <2>10, <2>11, <2>12 DEF EdgeInv
<1>5. CASE Commits(a)
  <2>1. entities' = [e \in Ids |-> Row(a, e)] /\ edges' = edges \cup tx[a].edges /\ tx'[a] = Idle
    BY <1>0, <1>5 DEF Commits
  <2>2. tx'[a].edges = {}
    BY <2>1 DEF Idle
  <2>3. Live' = Visible(a) /\ Live \subseteq Live'
    BY <2>1 DEF Live, Visible, Row
  <2>4. \A b \in Artifacts : b # a => Visible(b) \subseteq Visible(b)'
    BY <1>0, <2>3 DEF Visible, Row, Live
  <2>5. EdgesJoinNodes'
    BY <2>1, <2>3 DEF EdgeInv, EdgesJoinNodes, SameEnds
  <2>6. \A b \in Artifacts : \A e \in tx'[b].edges : {e.from, e.to} \subseteq Visible(b)'
    BY <1>0, <2>2, <2>4 DEF EdgeInv
  <2>7. \A b \in Artifacts : \A e, f \in edges' \cup tx'[b].edges : SameEnds(e, f) => e = f
    <3>1. \A e, f \in edges' : SameEnds(e, f) => e = f
      BY <2>1 DEF EdgeInv
    <3>2. ASSUME NEW b \in Artifacts, b # a, NEW e \in edges', NEW f \in tx[b].edges, SameEnds(e, f)
          PROVE  e = f
      BY <2>1, <3>2 DEF EdgeInv
    <3>3. \A e, f : SameEnds(e, f) <=> SameEnds(f, e)
      BY DEF SameEnds
    <3>4. ASSUME NEW b \in Artifacts, b # a, NEW e \in tx[b].edges, NEW f \in tx[b].edges, SameEnds(e, f)
          PROVE  e = f
      BY <3>4 DEF EdgeInv
    <3> QED BY <1>0, <2>2, <3>1, <3>2, <3>3, <3>4
  <2>8. \A b, c \in Artifacts : \A e \in tx'[b].edges, f \in tx'[c].edges : SameEnds(e, f) => b = c
    BY <1>0, <2>2 DEF EdgeInv
  <2> QED BY <2>5, <2>6, <2>7, <2>8 DEF EdgeInv
<1> QED BY <1>1, <1>2, <1>3, <1>4, <1>5 DEF Persist

(* "Insert the edge only if BOTH resolve": in whatever order transactions
   commit or roll back, no edge is in the graph before both its nodes, and none
   joins the nodes of another. *)
THEOREM EdgesAreJoined == Spec => []EdgesJoinNodes
<1>1. Init => EdgeInv
  BY DEF Init, EdgeInv, EdgesJoinNodes, Idle
<1>2. RowsInv /\ EdgeInv /\ [Next]_vars => EdgeInv'
  <2> SUFFICES ASSUME RowsInv, EdgeInv, [Next]_vars PROVE EdgeInv'
    OBVIOUS
  <2>1. CASE UNCHANGED vars
    BY <2>1 DEF vars, EdgeInv, EdgesJoinNodes, Live, Visible, Row
  <2> QED BY <2>1, EdgeInvStep DEF Next, AllLanded
<1>3. EdgeInv => EdgesJoinNodes
  BY DEF EdgeInv
<1> QED BY <1>1, <1>2, <1>3, RowsInvariant, PTL DEF Spec

-----------------------------------------------------------------------------
(* Facts.  A row that only its own transaction can see has nothing but refs of
   records that transaction has written already, so the record of an item that is
   merged, the only one of its artifact, cannot meet such a row. *)
Brought(a, row, k) ==
  \A r \in row.refs : \E m \in 1..k : Plan(a)[m].type = row.type /\ r \in Plan(a)[m].refs

SoFar(t) == IF t.pc \in {"scan", "next"} THEN t.at ELSE t.at - 1

FactGood(a, t) ==
  /\ t.facts \subseteq Live
  /\ \A e \in Ids \ Live : t.pc \in {"match", "update", "scan", "next"} /\ t.rows[e] # None =>
       Brought(a, t.rows[e], SoFar(t))
  /\ t.pc = "update" /\ t.hit \notin Live => Brought(a, t.seen, SoFar(t))

FactInv == \A a \in Artifacts : FactGood(a, tx[a])

LEMMA BroughtMore ==
  ASSUME NEW a, NEW row, NEW k \in Int, NEW n \in Int, k <= n, Brought(a, row, k)
  PROVE  Brought(a, row, n)
<1>1. 1..k \subseteq 1..n
  OBVIOUS
<1> QED BY <1>1 DEF Brought

(* Rows are never taken away: what was written of one still holds as more go live. *)
LEMMA FactsKept ==
  ASSUME RowsInv, FactInv, NEW a \in Artifacts, NEW t, FactGood(a, t), Live \subseteq Live',
         tx' = [tx EXCEPT ![a] = t]
  PROVE  FactInv'
<1>1. \A b \in Artifacts : tx'[b] = IF b = a THEN t ELSE tx[b]
  BY DEF RowsInv
<1>2. \A b, u : FactGood(b, u) => FactGood(b, u)'
  BY DEF FactGood, Brought, SoFar
<1> QED BY <1>1, <1>2 DEF FactInv, FactGood

LEMMA FactStep ==
  ASSUME RowsInv, FactInv, NEW a \in Artifacts, Persist(a)
  PROVE  FactInv' /\ \A f \in facts' \ facts : f.entity \in Live
<1>0. tx[a] \in TxStates /\ TxGood(a, tx[a]) /\ tx \in [Artifacts -> TxStates] /\ FactGood(a, tx[a])
  BY DEF RowsInv, FactInv
<1>1. ASSUME NEW t, FactGood(a, t), tx' = [tx EXCEPT ![a] = t], UNCHANGED tables
      PROVE  FactInv' /\ \A f \in facts' \ facts : f.entity \in Live
  BY <1>1, FactsKept DEF tables, Live
<1>3. CASE Begins(a)
  <2> DEFINE t == [Idle EXCEPT !.pc = NextPc(a, 1)]
  <2>1. t.facts = {} /\ t.pc # "update" /\ \A e \in Ids : t.rows[e] = None
    <3>1. NextPc(a, 1) # "update"
      BY DEF NextPc
    <3>2. Idle.facts = {} /\ Idle.rows = [e \in Ids |-> None] /\ DOMAIN Idle = {"pc", "at", "hit", "seen", "rows", "edges", "pairs", "facts"}
      BY DEF Idle
    <3> QED BY <3>1, <3>2
  <2>2. tx' = [tx EXCEPT ![a] = t] /\ UNCHANGED tables
    BY <1>3 DEF Begins
  <2> HIDE DEF t
  <2>3. FactGood(a, t)
    BY <2>1 DEF FactGood
  <2> QED BY <1>1, <2>2, <2>3
<1>4. CASE Matches(a)
  <2>1. PICK e \in Hits(a, Rec(a)) :
          tx' = [tx EXCEPT ![a].pc = "update", ![a].hit = e, ![a].seen = Row(a, e)]
    BY <1>4 DEF Matches
  <2> DEFINE t == [tx[a] EXCEPT !.pc = "update", !.hit = e, !.seen = Row(a, e)]
  <2>2. tx' = [tx EXCEPT ![a] = t] /\ UNCHANGED tables
    BY <1>4, <2>1 DEF Matches
  <2>3. /\ t.facts = tx[a].facts /\ t.pc = "update" /\ t.rows = tx[a].rows /\ t.at = tx[a].at
        /\ t.hit = e /\ t.seen = Row(a, e)
    BY <1>0 DEF TxStates
  <2>4. tx[a].pc = "match" /\ e \in Visible(a)
    BY <1>4, <2>1 DEF Matches, Hits, Matching
  <2> HIDE DEF t
  <2>5. SoFar(t) = SoFar(tx[a])
    BY <2>3, <2>4 DEF SoFar
  <2>6. e \notin Live => Row(a, e) = tx[a].rows[e] /\ tx[a].rows[e] # None /\ e \in Ids
    BY <2>4 DEF Visible, Row, Live
  <2>7. FactGood(a, t)
    BY <1>0, <2>3, <2>4, <2>5, <2>6 DEF FactGood
  <2> QED BY <1>1, <2>2, <2>7
<1>5. ASSUME tx[a].at \in 1..Len(Plan(a))
      PROVE  SoFar(tx[a]) \in Int /\ tx[a].at \in Nat /\ Len(Plan(a)) \in Nat /\ Rec(a) \in RowType
  <2>1. Rec(a) \in Records
    BY <1>5, PlanFacts DEF Rec
  <2> QED BY <1>5, <2>1, PlanFacts, GraphAssumption DEF SoFar
<1>6. CASE Inserts(a)
  <2> DEFINE e == <<a, tx[a].at>>
             rows == [tx[a].rows EXCEPT ![e] = Rec(a)]
             t == [tx[a] EXCEPT !.pc = Scans(a), !.hit = e, !.rows = rows]
  <2>1. /\ tx[a].pc = "match" /\ tx[a].at \in 1..Len(Plan(a)) /\ e \in Ids
    BY <1>0, <1>6, PlanFacts DEF Inserts, TxGood
  <2>2. tx' = [tx EXCEPT ![a] = t] /\ UNCHANGED tables
    BY <1>6 DEF Inserts
  <2> HIDE DEF e
  <2>3. \A x \in Ids : rows[x] = IF x = e THEN Rec(a) ELSE tx[a].rows[x]
    BY <1>0, <2>1 DEF TxStates
  <2> HIDE DEF rows
  <2>4. /\ t.facts = tx[a].facts /\ t.pc \in {"scan", "next"} /\ t.rows = rows /\ t.at = tx[a].at
    BY <1>0 DEF TxStates, Scans
  <2> HIDE DEF t
  <2>5. SoFar(t) = tx[a].at /\ SoFar(tx[a]) = tx[a].at - 1
    BY <2>1, <2>4 DEF SoFar
  <2>6. Brought(a, Rec(a), tx[a].at)
    BY <1>5, <2>1 DEF Brought, Rec
  <2>7. ASSUME NEW x \in Ids \ Live, rows[x] # None PROVE Brought(a, rows[x], SoFar(t))
    <3>1. CASE x = e
      BY <2>3, <2>5, <2>6, <3>1
    <3>2. CASE x # e
      <4>1. Brought(a, rows[x], SoFar(tx[a]))
        BY <1>0, <2>1, <2>3, <2>7, <3>2 DEF FactGood
      <4> QED BY <1>5, <2>1, <2>5, <4>1, BroughtMore
    <3> QED BY <3>1, <3>2
  <2>8. FactGood(a, t)
    BY <1>0, <2>4, <2>7 DEF FactGood
  <2> QED BY <1>1, <2>2, <2>8
<1>7. CASE Updates(a)
  <2> DEFINE row == Merged(tx[a].seen, Rec(a))
             rows == [tx[a].rows EXCEPT ![tx[a].hit] = row]
             new == tx[a].facts \cup {f \in {tx[a].hit} : Transition(tx[a].seen, Rec(a))}
             t == [tx[a] EXCEPT !.pc = Scans(a), !.seen = None, !.rows = rows, !.facts = new]
  <2>1. /\ tx[a].pc = "update" /\ tx[a].at \in 1..Len(Plan(a)) /\ tx[a].hit \in Ids
        /\ tx[a].seen \in RowType /\ Shares(tx[a].seen, Rec(a))
    BY <1>0, <1>7 DEF Updates, TxGood, Rec, TiedRow
  <2>2. tx' = [tx EXCEPT ![a] = t] /\ UNCHANGED tables
    BY <1>7 DEF Updates
  <2>3. \A x \in Ids : rows[x] = IF x = tx[a].hit THEN row ELSE tx[a].rows[x]
    BY <1>0, <2>1 DEF TxStates
  <2>4. row.type = tx[a].seen.type /\ row.refs = tx[a].seen.refs \cup Rec(a).refs
    BY <2>1 DEF Merged, RowType
  <2> HIDE DEF rows, row
  <2>5. t.facts = new /\ t.pc \in {"scan", "next"} /\ t.rows = rows /\ t.at = tx[a].at
    <3> HIDE DEF new
    <3> QED BY <1>0 DEF TxStates, Scans
  <2> HIDE DEF t
  <2>6. SoFar(t) = tx[a].at /\ SoFar(tx[a]) = tx[a].at - 1
    BY <2>1, <2>5 DEF SoFar
  <2>7. ASSUME tx[a].hit \notin Live PROVE Brought(a, row, SoFar(t)) /\ ~Transition(tx[a].seen, Rec(a))
    <3>1. Brought(a, tx[a].seen, tx[a].at - 1)
      BY <1>0, <2>1, <2>6, <2>7 DEF FactGood
    <3>2. Brought(a, row, tx[a].at)
      <4> SUFFICES ASSUME NEW r \in row.refs
                   PROVE  \E m \in 1..tx[a].at : Plan(a)[m].type = row.type /\ r \in Plan(a)[m].refs
        BY DEF Brought
      <4>1. CASE r \in tx[a].seen.refs
        <5>1. PICK m \in 1..(tx[a].at - 1) : Plan(a)[m].type = tx[a].seen.type /\ r \in Plan(a)[m].refs
          BY <3>1, <4>1 DEF Brought
        <5>2. m \in 1..tx[a].at
          BY <1>5, <2>1, <5>1
        <5> QED BY <2>4, <5>1, <5>2
      <4>2. CASE r \in Rec(a).refs
        <5>1. tx[a].at \in 1..tx[a].at
          BY <1>5, <2>1
        <5> QED BY <2>1, <2>4, <4>2, <5>1 DEF Rec, Shares
      <4> QED BY <2>4, <4>1, <4>2
    <3>3. ~Transition(tx[a].seen, Rec(a))
      <4> SUFFICES ASSUME IsOther(Rec(a)), Rec(a).state = "merged" PROVE FALSE
        BY DEF Transition
      <4>1. PICK r \in tx[a].seen.refs : r \in Rec(a).refs
        BY <2>1 DEF Shares, Keys
      <4>2. PICK m \in 1..(tx[a].at - 1) : Plan(a)[m].type = tx[a].seen.type /\ r \in Plan(a)[m].refs
        BY <3>1, <4>1 DEF Brought
      <4>3. m \in 1..Len(Plan(a)) /\ m # tx[a].at
        BY <1>5, <2>1, <4>2
      <4> QED BY <2>1, <4>1, <4>2, <4>3, MergedItemsComeOnce DEF Rec, Shares
    <3> QED BY <2>6, <3>2, <3>3
  <2>8. ASSUME NEW x \in Ids \ Live, rows[x] # None PROVE Brought(a, rows[x], SoFar(t))
    <3>1. CASE x = tx[a].hit
      BY <2>3, <2>7, <3>1
    <3>2. CASE x # tx[a].hit
      <4>1. Brought(a, rows[x], SoFar(tx[a]))
        BY <1>0, <2>1, <2>3, <2>8, <3>2 DEF FactGood
      <4> QED BY <1>5, <2>1, <2>6, <4>1, BroughtMore
    <3> QED BY <3>1, <3>2
  <2>9. new \subseteq Live
    BY <1>0, <2>7 DEF FactGood
  <2>10. FactGood(a, t)
    BY <2>5, <2>8, <2>9 DEF FactGood
  <2> QED BY <1>1, <2>2, <2>10
<1>8. CASE Queues(a)
  <2> DEFINE pairs == tx[a].pairs \cup (Pairs(a, tx[a].hit) \ queue)
             t == [tx[a] EXCEPT !.pc = "next", !.pairs = pairs]
  <2>1. tx' = [tx EXCEPT ![a] = t] /\ UNCHANGED tables /\ tx[a].pc = "scan"
    BY <1>8 DEF Queues
  <2> HIDE DEF pairs
  <2>2. t.facts = tx[a].facts /\ t.pc = "next" /\ t.rows = tx[a].rows /\ t.at = tx[a].at
    BY <1>0 DEF TxStates
  <2> HIDE DEF t
  <2>3. FactGood(a, t)
    BY <1>0, <2>1, <2>2 DEF FactGood, SoFar
  <2> QED BY <1>1, <2>1, <2>3
<1>9. CASE NextRecord(a)
  <2> DEFINE at == IF tx[a].at < Len(Plan(a)) THEN tx[a].at + 1 ELSE 1
             pc == NextPc(a, tx[a].at + 1)
             t == [tx[a] EXCEPT !.pc = pc, !.hit = None, !.at = at]
  <2>1. tx' = [tx EXCEPT ![a] = t] /\ UNCHANGED tables /\ tx[a].pc = "next"
    BY <1>9 DEF NextRecord
  <2>2. tx[a].at \in 1..Len(Plan(a))
    BY <1>0, <2>1 DEF TxGood
  <2>3. pc \in {"match", "edges"} /\ (pc = "match" => at = tx[a].at + 1)
    BY <1>5, <2>2 DEF NextPc
  <2> HIDE DEF pc, at
  <2>4. t.facts = tx[a].facts /\ t.pc = pc /\ t.rows = tx[a].rows /\ t.at = at
    BY <1>0 DEF TxStates
  <2> HIDE DEF t
  <2>5. pc = "match" => SoFar(t) = SoFar(tx[a])
    BY <1>5, <2>1, <2>2, <2>3, <2>4 DEF SoFar
  <2>6. FactGood(a, t)
    BY <1>0, <2>1, <2>3, <2>4, <2>5 DEF FactGood
  <2> QED BY <1>1, <2>1, <2>6
<1>10. CASE WritesEdge(a)
  <2>1. PICK from, to : Joins(a, from, to)
    BY <1>10 DEF WritesEdge
  <2>2. PICK joined : tx' = [tx EXCEPT ![a].at = tx[a].at + 1, ![a].edges = joined]
    BY <2>1 DEF Joins
  <2> DEFINE t == [tx[a] EXCEPT !.at = tx[a].at + 1, !.edges = joined]
  <2>3. tx' = [tx EXCEPT ![a] = t] /\ UNCHANGED tables /\ tx[a].pc = "edges"
    BY <1>10, <2>2 DEF WritesEdge
  <2>4. t.facts = tx[a].facts /\ t.pc = "edges"
    BY <1>0, <2>3 DEF TxStates
  <2> HIDE DEF t
  <2>5. FactGood(a, t)
    BY <1>0, <2>4 DEF FactGood
  <2> QED BY <1>1, <2>3, <2>5
<1>11. FactGood(a, Idle)
  BY DEF FactGood, Idle
<1>12. CASE Commits(a)
  <2>1. entities' = [e \in Ids |-> Row(a, e)] /\ tx' = [tx EXCEPT ![a] = Idle]
        /\ facts' = facts \cup {StatusChangeFact(e, a) : e \in tx[a].facts}
    BY <1>12 DEF Commits
  <2>2. Live \subseteq Live'
    BY <2>1 DEF Live, Row
  <2>3. \A f \in facts' \ facts : f.entity \in Live
    BY <1>0, <2>1 DEF StatusChangeFact, FactGood
  <2> QED BY <1>11, <2>1, <2>2, <2>3, FactsKept
<1>13. CASE Aborts(a)
  BY <1>1, <1>11, <1>13 DEF Aborts
<1> QED BY <1>3, <1>4, <1>6, <1>7, <1>8, <1>9, <1>10, <1>12, <1>13 DEF Persist

(* "First sight of an entity is a creation, never a transition": a synthesized fact
   is about a row committed before, however deliveries of one item race. *)
THEOREM FactsAreAboutOlderRows == Spec => FactsNeedPriorRow
<1>1. Init => FactInv
  BY DEF Init, FactInv, FactGood, Idle
<1>2. RowsInv /\ FactInv /\ [Next]_vars => FactInv' /\ \A f \in facts' \ facts : f.entity \in Live
  <2> SUFFICES ASSUME RowsInv, FactInv, [Next]_vars
               PROVE  FactInv' /\ \A f \in facts' \ facts : f.entity \in Live
    OBVIOUS
  <2>1. CASE UNCHANGED vars
    <3>1. UNCHANGED <<tx, entities, facts>>
      BY <2>1 DEF vars
    <3>2. \A b, u : FactGood(b, u) => FactGood(b, u)'
      BY <3>1 DEF FactGood, Brought, SoFar, Live
    <3> QED BY <3>1, <3>2 DEF FactInv
  <2> QED BY <2>1, FactStep DEF Next, AllLanded
<1>3. Spec => []FactInv
  BY <1>1, <1>2, RowsInvariant, PTL DEF Spec
<1> QED BY <1>2, <1>3, RowsInvariant, PTL DEF Spec, FactsNeedPriorRow

-----------------------------------------------------------------------------
(* One transaction at a time.  What it updates is the row as it is, so a row
   that has a ref goes on having it. *)
Has(row, rec) == row # None /\ row.type = rec.type /\ rec.refs \subseteq row.refs

Findable(a, rec) == \E e \in Ids : Has(Row(a, e), rec)

(* The records of a that are written. *)
Written(a) ==
  CASE tx[a].pc \in {"match", "update"} -> 1..(tx[a].at - 1)
    [] tx[a].pc \in {"scan", "next"}    -> 1..tx[a].at
    [] tx[a].pc = "edges"               -> 1..Len(Plan(a))
    [] OTHER                            -> {}

SerialTx(a) ==
  /\ Active(a) => a \notin sources
  /\ ~Active(a) => \A e \in Ids : tx[a].rows[e] = None
  /\ tx[a].pc = "update" => tx[a].seen = Row(a, tx[a].hit)
  /\ \A n \in Written(a) : Findable(a, Plan(a)[n])
  /\ \A e \in Ids : tx[a].rows[e] # None =>
       entities[e] # None \/ (e[1] = a /\ e[2] \in Written(a))
  /\ \A e \in Ids : entities[e] # None => Has(Row(a, e), entities[e])

SerialInv ==
  /\ \A a, b \in Artifacts : Active(a) /\ Active(b) => a = b
  /\ \A a \in Artifacts : SerialTx(a)
  /\ \A e \in Ids : entities[e] # None => e[1] \in sources
  /\ LandedFindable

(* No row that a transaction sees loses its type or a ref. *)
RowsGrow(a) == \A e \in Ids : Row(a, e) # None => Has(Row(a, e)', Row(a, e))

LEMMA HasIsTransitive ==
  ASSUME NEW r, NEW s, NEW rec, Has(r, s), Has(s, rec)
  PROVE  Has(r, rec)
BY DEF Has

LEMMA FindableKept ==
  ASSUME NEW a \in Artifacts, NEW rec, RowsGrow(a), Findable(a, rec)
  PROVE  Findable(a, rec)'
BY DEF RowsGrow, Findable, Has

(* A transaction with no rows sees the tables. *)
LEMMA IdleIsSerial ==
  ASSUME NEW a \in Artifacts, ~Active(a)', \A e \in Ids : tx'[a].rows[e] = None
  PROVE  SerialTx(a)'
BY DEF SerialTx, Active, Row, Written, Has

(* A transaction that is under way moves: the tables stay, the others idle. *)
LEMMA SerialKept ==
  ASSUME RowsInv, SerialInv, NEW a \in Artifacts, Active(a), Active(a)', UNCHANGED tables,
         \A b \in Artifacts : b # a => tx'[b] = tx[b], RowsGrow(a),
         (tx[a].pc = "update" => tx[a].seen = Row(a, tx[a].hit))',
         Written(a) \subseteq Written(a)',
         \A n \in Written(a)' \ Written(a) : Findable(a, Plan(a)[n])',
         \A e \in Ids : tx'[a].rows[e] # None =>
           tx[a].rows[e] # None \/ entities[e] # None \/ (e[1] = a /\ e[2] \in Written(a)')
  PROVE  SerialInv'
<1> USE DEF tables
<1>1. SerialTx(a)'
  <2>1. ASSUME NEW n \in Written(a)' PROVE Findable(a, Plan(a)[n])'
    <3>1. CASE n \in Written(a)
      <4>1. Findable(a, Plan(a)[n])
        BY <3>1 DEF SerialInv, SerialTx
      <4> QED BY <4>1, FindableKept
    <3> QED BY <2>1, <3>1
  <2>2. ASSUME NEW e \in Ids, tx'[a].rows[e] # None
        PROVE  entities'[e] # None \/ (e[1] = a /\ e[2] \in Written(a)')
    BY <2>2 DEF SerialInv, SerialTx
  <2>3. ASSUME NEW e \in Ids, entities'[e] # None PROVE Has(Row(a, e)', entities'[e])
    <3>1. Has(Row(a, e), entities[e])
      BY <2>3 DEF SerialInv, SerialTx
    <3>2. Has(Row(a, e)', Row(a, e))
      BY <3>1 DEF RowsGrow, Has
    <3> QED BY <3>1, <3>2, HasIsTransitive
  <2>4. a \notin sources'
    BY DEF SerialInv, SerialTx
  <2> QED BY <2>1, <2>2, <2>3, <2>4 DEF SerialTx
<1>2. \A b \in Artifacts : b # a => SerialTx(b)'
  BY DEF SerialInv, SerialTx, Active, Written, Findable, Has, Row
<1> QED BY <1>1, <1>2 DEF SerialInv, Active, LandedFindable, Live

(* A record that shares a key with a row in sight has a hit. *)
LEMMA SharedKeyHits ==
  ASSUME NEW a \in Artifacts, NEW rec \in Records, NEW e \in Visible(a), Shares(Row(a, e), rec)
  PROVE  Hits(a, rec) # {}
<1> DEFINE found(k) == Matching(a, rec, {r \in Keys(rec) : Tier[r] = k})
<1>1. PICK r \in Row(a, e).refs : r \in Keys(rec)
  BY DEF Shares
<1>2. r \in Refs /\ Tier[r] \in 1..4
  BY <1>1, GraphAssumption DEF Keys, RowType
<1>3. e \in found(Tier[r])
  BY <1>1 DEF Matching, Shares
<1> HIDE DEF found
<1>4. \E k \in 1..4 : found(k) # {} /\ \A j \in 1..(k - 1) : found(j) = {}
  <2>1. found(1) # {} \/ found(2) # {} \/ found(3) # {} \/ found(4) # {}
    BY <1>2, <1>3
  <2>2. CASE found(1) # {}
    BY <2>2
  <2>3. CASE found(1) = {} /\ found(2) # {}
    BY <2>3
  <2>4. CASE found(1) = {} /\ found(2) = {} /\ found(3) # {}
    BY <2>4
  <2>5. CASE found(1) = {} /\ found(2) = {} /\ found(3) = {} /\ found(4) # {}
    BY <2>5
  <2> QED BY <2>1, <2>2, <2>3, <2>4, <2>5
<1>5. PICK k \in 1..4 : found(k) # {} /\ \A j \in 1..(k - 1) : found(j) = {}
  BY <1>4
<1>6. found(k) \subseteq Hits(a, rec)
  BY <1>5 DEF Hits, found
<1> QED BY <1>5, <1>6

LEMMA SerialStep ==
  ASSUME RowsInv, SerialInv, NEW a \in Artifacts, Persist(a), ~overlapped'
  PROVE  SerialInv'
<1>0. /\ tx[a] \in TxStates /\ tx \in [Artifacts -> TxStates] /\ TxGood(a, tx[a]) /\ SerialTx(a)
      /\ \A b \in Artifacts : b # a => tx'[b] = tx[b]
  BY DEF RowsInv, SerialInv, Persist, Begins, Matches, Inserts, Updates, Queues, NextRecord,
     WritesEdge, Joins, Commits, Aborts
<1>1. Len(Plan(a)) \in Nat
  BY PlanFacts
<1>2. CASE Begins(a)
  <2>1. /\ \A b \in Artifacts : ~Active(b) /\ a \notin sources
        /\ UNCHANGED tables /\ tx'[a] = [Idle EXCEPT !.pc = NextPc(a, 1)]
    BY <1>0, <1>2 DEF Begins
  <2>2. tx'[a].pc = NextPc(a, 1) /\ tx'[a].at = 1 /\ \A e \in Ids : tx'[a].rows[e] = None
    BY <2>1 DEF Idle
  <2>3. Written(a)' = {} /\ tx'[a].pc \in {"match", "edges"}
    BY <1>1, <2>2 DEF Written, NextPc
  <2>4. SerialTx(a)'
    BY <2>1, <2>2, <2>3 DEF SerialTx, Row, Has, tables
  <2>5. \A b \in Artifacts : b # a => SerialTx(b)'
    BY <1>0, <2>1 DEF SerialInv, SerialTx, Active, Written, Findable, Has, Row, tables
  <2> QED BY <1>0, <2>1, <2>4, <2>5 DEF SerialInv, Active, LandedFindable, Live, tables
<1>3. CASE Matches(a)
  <2>1. PICK e \in Hits(a, Rec(a)) :
          tx' = [tx EXCEPT ![a].pc = "update", ![a].hit = e, ![a].seen = Row(a, e)]
    BY <1>3 DEF Matches
  <2>2. /\ tx'[a].pc = "update" /\ tx'[a].hit = e /\ tx'[a].seen = Row(a, e)
        /\ tx'[a].at = tx[a].at /\ tx'[a].rows = tx[a].rows
    BY <1>0, <2>1 DEF TxStates
  <2>3. UNCHANGED tables /\ tx[a].pc = "match" /\ Active(a) /\ Active(a)'
    BY <1>3, <2>2 DEF Matches, Active
  <2>4. \A x : Row(a, x)' = Row(a, x)
    BY <2>2, <2>3 DEF Row, tables
  <2>5. Written(a)' = Written(a)
    BY <2>2, <2>3 DEF Written
  <2>6. (tx[a].pc = "update" => tx[a].seen = Row(a, tx[a].hit))'
    BY <2>2, <2>4 DEF Row
  <2>7. RowsGrow(a)
    BY <2>4 DEF RowsGrow, Has
  <2> QED BY <1>0, <2>2, <2>3, <2>5, <2>6, <2>7, SerialKept
<1>4. CASE Inserts(a)
  <2>1. /\ UNCHANGED tables /\ tx[a].pc = "match" /\ tx[a].at \in 1..Len(Plan(a))
        /\ <<a, tx[a].at>> \in Ids /\ Rec(a) \in Records /\ Rec(a) = Plan(a)[tx[a].at]
    BY <1>0, <1>4, PlanFacts DEF Inserts, TxGood, Rec
  <2>2. PICK id \in Ids : id = <<a, tx[a].at>>
    BY <2>1
  <2>3. /\ tx'[a].pc \in {"scan", "next"} /\ tx'[a].at = tx[a].at
        /\ tx'[a].rows = [tx[a].rows EXCEPT ![id] = Rec(a)]
    <3>1. Scans(a) \in {"scan", "next"}
      BY DEF Scans
    <3> QED BY <1>0, <1>4, <2>2, <3>1 DEF Inserts, TxStates
  <2>4. Active(a) /\ Active(a)'
    BY <2>1, <2>3 DEF Active
  <2>5. Written(a) = 1..(tx[a].at - 1) /\ Written(a)' = 1..tx[a].at
    BY <2>1, <2>3 DEF Written
  <2>6. Row(a, id) = None
    BY <1>0, <2>1, <2>2, <2>4, <2>5 DEF SerialInv, SerialTx, Row
  <2>7. Rec(a) # None
    BY <2>1, GraphAssumption
  <2>8. tx'[a].rows[id] = Rec(a) /\ \A x \in Ids : x # id => tx'[a].rows[x] = tx[a].rows[x]
    BY <1>0, <2>3 DEF TxStates
  <2>9. Row(a, id)' = Plan(a)[tx[a].at] /\ \A x \in Ids : x # id => Row(a, x)' = Row(a, x)
    BY <2>1, <2>7, <2>8 DEF Row, tables
  <2>10. RowsGrow(a)
    BY <2>6, <2>9 DEF RowsGrow, Has
  <2> PICK at \in Nat : at = tx[a].at
    BY <1>0 DEF TxStates
  <2>11. Findable(a, Plan(a)[at])'
    BY <2>1, <2>2, <2>7, <2>9 DEF Findable, Has
  <2>12. \A n \in Written(a)' \ Written(a) : n = tx[a].at
    BY <2>1, <2>5
  <2>13. (tx[a].pc = "update" => tx[a].seen = Row(a, tx[a].hit))'
    BY <2>3
  <2>14. \A n \in Written(a)' \ Written(a) : Findable(a, Plan(a)[n])'
    BY <2>11, <2>12
  <2>15. Written(a) \subseteq Written(a)' /\ tx[a].at \in Written(a)'
    BY <2>1, <2>5
  <2>16. \A e \in Ids : tx'[a].rows[e] # None =>
           tx[a].rows[e] # None \/ entities[e] # None \/ (e[1] = a /\ e[2] \in Written(a)')
    BY <2>2, <2>8, <2>15
  <2> QED BY <1>0, <2>1, <2>4, <2>10, <2>13, <2>14, <2>15, <2>16, SerialKept
<1>5. CASE Updates(a)
  <2>1. /\ UNCHANGED tables /\ tx[a].pc = "update" /\ tx[a].at \in 1..Len(Plan(a))
        /\ Rec(a) \in Records /\ Rec(a) = Plan(a)[tx[a].at]
    BY <1>0, <1>5, PlanFacts DEF Updates, TxGood, Rec
  <2>2. PICK id \in Ids : id = tx[a].hit
    BY <1>0, <2>1 DEF TxGood
  <2>3. PICK row \in RowType : row = tx[a].seen /\ TiedRow(row) /\ Shares(row, Rec(a)) /\ row = Row(a, id)
    BY <1>0, <2>1, <2>2 DEF TxGood, SerialTx, TiedRow, Rec
  <2>4. TiedRow(Merged(row, Rec(a)))
    BY <2>1, <2>3, TiedGrows
  <2>5. PICK new \in RowType : new = Merged(row, Rec(a)) /\ Has(new, row) /\ Has(new, Rec(a)) /\ new # None
    <3>1. Merged(row, Rec(a)) \in RowType /\ None \notin RowType
      BY <2>4, GraphAssumption DEF TiedRow
    <3>2. /\ Merged(row, Rec(a)).type = row.type
          /\ Merged(row, Rec(a)).refs = row.refs \cup Rec(a).refs
      BY <2>3 DEF Merged, RowType
    <3> QED BY <2>3, <3>1, <3>2 DEF Has, Shares
  <2>6. /\ tx'[a].pc \in {"scan", "next"} /\ tx'[a].at = tx[a].at
        /\ tx'[a].rows = [tx[a].rows EXCEPT ![id] = new]
    <3>1. Scans(a) \in {"scan", "next"}
      BY DEF Scans
    <3> QED BY <1>0, <1>5, <2>2, <2>3, <2>5, <3>1 DEF Updates, TxStates
  <2>7. Active(a) /\ Active(a)'
    BY <2>1, <2>6 DEF Active
  <2>8. Written(a) = 1..(tx[a].at - 1) /\ Written(a)' = 1..tx[a].at
    BY <2>1, <2>6 DEF Written
  <2>9. tx'[a].rows[id] = new /\ \A x \in Ids : x # id => tx'[a].rows[x] = tx[a].rows[x]
    BY <1>0, <2>6 DEF TxStates
  <2>10. Row(a, id)' = new /\ \A x \in Ids : x # id => Row(a, x)' = Row(a, x)
    BY <2>1, <2>5, <2>9 DEF Row, tables
  <2>11. RowsGrow(a)
    BY <2>3, <2>5, <2>10 DEF RowsGrow, Has
  <2> PICK at \in Nat : at = tx[a].at
    BY <1>0 DEF TxStates
  <2>12. Findable(a, Plan(a)[at])'
    BY <2>1, <2>5, <2>10 DEF Findable
  <2>13. \A n \in Written(a)' \ Written(a) : n = tx[a].at
    BY <2>1, <2>8
  <2>14. \A n \in Written(a)' \ Written(a) : Findable(a, Plan(a)[n])'
    BY <2>12, <2>13
  <2>15. (tx[a].pc = "update" => tx[a].seen = Row(a, tx[a].hit))'
    BY <2>6
  <2>16. Written(a) \subseteq Written(a)'
    BY <2>1, <2>8
  <2>17. \A e \in Ids : tx'[a].rows[e] # None => tx[a].rows[e] # None \/ entities[e] # None
    <3>1. tx[a].rows[id] # None \/ entities[id] # None
      BY <2>3, GraphAssumption DEF Row
    <3> QED BY <2>9, <3>1
  <2> QED BY <1>0, <2>1, <2>7, <2>11, <2>14, <2>15, <2>16, <2>17, SerialKept
<1>6. CASE Queues(a) \/ NextRecord(a) \/ WritesEdge(a)
  <2>1. UNCHANGED tables /\ tx'[a].rows = tx[a].rows /\ Active(a) /\ tx'[a].pc \notin {"idle", "update"}
    <3>1. CASE Queues(a)
      BY <1>0, <3>1 DEF Queues, TxStates, Active
    <3>2. CASE NextRecord(a)
      BY <1>0, <3>2 DEF NextRecord, NextPc, TxStates, Active
    <3>3. CASE WritesEdge(a)
      BY <1>0, <3>3 DEF WritesEdge, Joins, TxStates, Active
    <3> QED BY <1>6, <3>1, <3>2, <3>3
  <2>2. \A x : Row(a, x)' = Row(a, x)
    BY <2>1 DEF Row, tables
  <2>3. Written(a)' = Written(a)
    <3>1. CASE Queues(a)
      <4>1. tx[a].pc = "scan" /\ tx'[a].pc = "next" /\ tx'[a].at = tx[a].at
        BY <1>0, <3>1 DEF Queues, TxStates
      <4> QED BY <4>1 DEF Written
    <3>2. CASE NextRecord(a)
      <4>1. /\ tx[a].pc = "next" /\ tx'[a].pc = NextPc(a, tx[a].at + 1) /\ tx[a].at \in 1..Len(Plan(a))
            /\ tx'[a].at = IF tx[a].at < Len(Plan(a)) THEN tx[a].at + 1 ELSE 1
        BY <1>0, <3>2 DEF NextRecord, TxStates, TxGood
      <4>2. CASE tx[a].at < Len(Plan(a))
        <5>1. tx'[a].pc = "match" /\ tx'[a].at = tx[a].at + 1
          BY <1>1, <4>1, <4>2 DEF NextPc
        <5> QED BY <4>1, <5>1 DEF Written
      <4>3. CASE tx[a].at = Len(Plan(a))
        <5>1. tx'[a].pc = "edges"
          BY <1>1, <4>1, <4>3 DEF NextPc
        <5> QED BY <4>1, <4>3, <5>1 DEF Written
      <4> QED BY <1>1, <4>1, <4>2, <4>3
    <3>3. CASE WritesEdge(a)
      <4>1. tx[a].pc = "edges" /\ tx'[a].pc = "edges"
        BY <1>0, <3>3 DEF WritesEdge, Joins, TxStates
      <4> QED BY <4>1 DEF Written
    <3> QED BY <1>6, <3>1, <3>2, <3>3
  <2>4. RowsGrow(a)
    BY <2>2 DEF RowsGrow, Has
  <2>5. Active(a)' /\ (tx[a].pc = "update" => tx[a].seen = Row(a, tx[a].hit))'
    BY <2>1 DEF Active
  <2> QED BY <1>0, <2>1, <2>3, <2>4, <2>5, SerialKept
<1>7. CASE Commits(a)
  <2>1. /\ entities' = [e \in Ids |-> Row(a, e)] /\ sources' = sources \cup {a} /\ tx'[a] = Idle
        /\ tx[a].pc = "edges"
    BY <1>0, <1>7 DEF Commits
  <2>2. \A b \in Artifacts : b # a => ~Active(b)
    BY <2>1 DEF SerialInv, Active
  <2>3. \A b \in Artifacts : ~Active(b)' /\ \A e \in Ids : tx'[b].rows[e] = None
    BY <1>0, <2>1, <2>2 DEF SerialInv, SerialTx, Active, Idle
  <2>4. \A b \in Artifacts : SerialTx(b)'
    BY <2>3, IdleIsSerial
  <2>5. \A e \in Ids : entities'[e] # None => e[1] \in sources'
    BY <1>0, <2>1 DEF SerialInv, SerialTx, Row
  <2>6. \A c \in sources' : \A n \in 1..Len(Plan(c)) : \E e \in Ids : Has(entities'[e], Plan(c)[n])
    <3>1. ASSUME NEW n \in 1..Len(Plan(a)) PROVE \E e \in Ids : Has(entities'[e], Plan(a)[n])
      <4>1. Findable(a, Plan(a)[n])
        BY <1>0, <2>1, <3>1 DEF SerialTx, Written
      <4> QED BY <2>1, <4>1 DEF Findable
    <3>2. ASSUME NEW c \in sources, NEW n \in 1..Len(Plan(c))
          PROVE  \E e \in Ids : Has(entities'[e], Plan(c)[n])
      <4>1. PICK e \in Ids : entities[e] # None /\ Has(entities[e], Plan(c)[n])
        BY <3>2 DEF SerialInv, LandedFindable, Live, Has
      <4>2. Has(Row(a, e), entities[e])
        BY <1>0, <4>1 DEF SerialTx
      <4> QED BY <2>1, <4>1, <4>2, HasIsTransitive
    <3> QED BY <2>1, <3>1, <3>2
  <2>7. LandedFindable'
    BY <2>6 DEF LandedFindable, Live, Has
  <2> QED BY <2>3, <2>4, <2>5, <2>7 DEF SerialInv
<1>8. CASE Aborts(a)
  <2>1. UNCHANGED tables /\ tx'[a] = Idle /\ Active(a)
    BY <1>0, <1>8 DEF Aborts
  <2>2. SerialTx(a)'
    <3>1. ~Active(a)' /\ \A e \in Ids : tx'[a].rows[e] = None
      BY <2>1 DEF Active, Idle
    <3> QED BY <3>1, IdleIsSerial
  <2>3. \A b \in Artifacts : b # a => SerialTx(b)'
    BY <1>0, <2>1 DEF SerialInv, SerialTx, Active, Written, Findable, Has, Row, tables
  <2> QED BY <1>0, <2>1, <2>2, <2>3 DEF SerialInv, Active, LandedFindable, Live, tables, Idle
<1> QED BY <1>2, <1>3, <1>4, <1>5, <1>6, <1>7, <1>8 DEF Persist

(* In what a transaction sees, one row of a work item. *)
OneRowIn(a) ==
  \A e, f \in Visible(a) :
    Row(a, e).type = "work_item" /\ Row(a, e).refs \cap Row(a, f).refs # {} => e = f

ItemsInv == OneRowPerItem /\ \A a \in Artifacts : OneRowIn(a)

(* What shares a ref with a work item is one, and the ref is a key of both. *)
LEMMA ItemsShareWithItems ==
  ASSUME NEW row, TiedRow(row), row.type = "work_item", NEW other, TiedRow(other),
         row.refs \cap other.refs # {}
  PROVE  other.type = "work_item"
<1>1. PICK r \in row.refs : r \in other.refs
  OBVIOUS
<1>2. PICK rec \in Records : rec.type = "work_item" /\ r \in rec.refs
  BY <1>1 DEF TiedRow, OfRecords
<1>3. PICK rec2 \in Records : rec2.type = other.type /\ r \in rec2.refs
  BY <1>1 DEF TiedRow, OfRecords
<1> QED BY <1>2, <1>3, ItemsKnownByOneRef

(* A row that is new, or is as it was but for its state and its refs, which a
   work item keeps: no second row of one. *)
LEMMA ItemsKept ==
  ASSUME RowsInv, SerialInv, ItemsInv, NEW a \in Artifacts, UNCHANGED tables,
         \A b \in Artifacts : b # a => tx'[b] = tx[b], OneRowIn(a)'
  PROVE  ItemsInv'
<1>1. \A b \in Artifacts : b # a => OneRowIn(b)'
  BY DEF ItemsInv, OneRowIn, Visible, Row, tables
<1> QED BY <1>1 DEF ItemsInv, OneRowPerItem, Live, tables

LEMMA ItemsStep ==
  ASSUME RowsInv, SerialInv, ItemsInv, NEW a \in Artifacts, Persist(a), ~overlapped'
  PROVE  ItemsInv'
<1>0. /\ tx[a] \in TxStates /\ tx \in [Artifacts -> TxStates] /\ TxGood(a, tx[a]) /\ SerialTx(a)
      /\ \A b \in Artifacts : b # a => tx'[b] = tx[b]
      /\ OneRowIn(a)
  BY DEF RowsInv, SerialInv, ItemsInv, Persist, Begins, Matches, Inserts, Updates, Queues, NextRecord,
     WritesEdge, Joins, Commits, Aborts
<1>1. CASE Begins(a) \/ Aborts(a)
  <2>1. UNCHANGED tables /\ \A e \in Ids : tx'[a].rows[e] = None
    BY <1>0, <1>1 DEF Begins, Aborts, Idle
  <2>2. OneRowIn(a)'
    BY <2>1 DEF OneRowIn, Visible, Row, tables, ItemsInv, OneRowPerItem, Live
  <2> QED BY <1>0, <2>1, <2>2, ItemsKept
<1>2. CASE Matches(a) \/ Queues(a) \/ NextRecord(a) \/ WritesEdge(a)
  <2>1. UNCHANGED tables /\ tx'[a].rows = tx[a].rows
    <3>1. CASE Matches(a)
      BY <1>0, <3>1 DEF Matches, TxStates
    <3>2. CASE Queues(a)
      BY <1>0, <3>2 DEF Queues, TxStates
    <3>3. CASE NextRecord(a)
      BY <1>0, <3>3 DEF NextRecord, TxStates
    <3>4. CASE WritesEdge(a)
      BY <1>0, <3>4 DEF WritesEdge, Joins, TxStates
    <3> QED BY <1>2, <3>1, <3>2, <3>3, <3>4
  <2>2. OneRowIn(a)'
    BY <1>0, <2>1 DEF OneRowIn, Visible, Row, tables
  <2> QED BY <1>0, <2>1, <2>2, ItemsKept
<1>3. CASE Inserts(a)
  <2>1. /\ UNCHANGED tables /\ tx[a].pc = "match" /\ Hits(a, Rec(a)) = {}
        /\ <<a, tx[a].at>> \in Ids /\ Rec(a) \in Records
    BY <1>0, <1>3, PlanFacts DEF Inserts, TxGood, Rec
  <2>2. PICK id \in Ids : id = <<a, tx[a].at>>
    BY <2>1
  <2>3. PICK rec \in Records : rec = Rec(a) /\ rec # None
    BY <2>1, GraphAssumption
  <2>4. tx'[a].rows = [tx[a].rows EXCEPT ![id] = rec]
    BY <1>0, <1>3, <2>2, <2>3 DEF Inserts, TxStates
  <2>5. Row(a, id)' = rec /\ \A x \in Ids : x # id => Row(a, x)' = Row(a, x)
    BY <1>0, <2>1, <2>3, <2>4 DEF Row, tables, TxStates
  <2>6. TiedRow(rec)
    BY RecordsAreTied
  <2>7. ASSUME NEW f \in Visible(a), Row(a, f).refs \cap rec.refs # {},
               Row(a, f).type = "work_item" \/ rec.type = "work_item"
        PROVE  FALSE
    <3>1. TiedRow(Row(a, f))
      BY SeenRowsAreTied
    <3>2. Row(a, f).type = "work_item" /\ rec.type = "work_item"
      BY <2>6, <2>7, <3>1, ItemsShareWithItems
    <3>3. Shares(Row(a, f), rec)
      BY <2>7, <3>2 DEF Shares, Keys
    <3> QED BY <2>1, <2>3, <3>3, SharedKeyHits
  <2>8. OneRowIn(a)'
    BY <1>0, <2>5, <2>7 DEF OneRowIn, Visible
  <2> QED BY <1>0, <2>1, <2>8, ItemsKept
<1>4. CASE Updates(a)
  <2>1. /\ UNCHANGED tables /\ tx[a].pc = "update" /\ tx[a].at \in 1..Len(Plan(a))
        /\ Rec(a) \in Records /\ Rec(a) = Plan(a)[tx[a].at]
    BY <1>0, <1>4, PlanFacts DEF Updates, TxGood, Rec
  <2>2. PICK id \in Ids : id = tx[a].hit
    BY <1>0, <2>1 DEF TxGood
  <2>3. PICK row \in RowType : row = tx[a].seen /\ TiedRow(row) /\ Shares(row, Rec(a)) /\ row = Row(a, id)
    BY <1>0, <2>1, <2>2 DEF TxGood, SerialTx, TiedRow, Rec
  <2>4. TiedRow(Merged(row, Rec(a)))
    BY <2>1, <2>3, TiedGrows
  <2>5. PICK new \in RowType : /\ new = Merged(row, Rec(a)) /\ new # None /\ new.type = row.type
                               /\ new.refs = row.refs \cup Rec(a).refs
    BY <2>3, <2>4, GraphAssumption DEF Merged, RowType, TiedRow
  <2>6. tx'[a].rows = [tx[a].rows EXCEPT ![id] = new]
    BY <1>0, <1>4, <2>2, <2>3, <2>5 DEF Updates, TxStates
  <2>7. Row(a, id)' = new /\ \A x \in Ids : x # id => Row(a, x)' = Row(a, x)
    BY <1>0, <2>1, <2>5, <2>6 DEF Row, tables, TxStates
  <2>8. row.type = "work_item" => new.refs = row.refs
    BY <2>1, <2>3, <2>5, ItemsKnownByOneRef DEF Shares, Keys
  <2>9. row # None /\ id \in Visible(a)
    BY <2>3, GraphAssumption DEF Visible
  <2>10. ASSUME NEW e \in Visible(a), e # id, Row(a, e).refs \cap new.refs # {},
                Row(a, e).type = "work_item" \/ new.type = "work_item"
         PROVE  FALSE
    <3>1. TiedRow(Row(a, e)) /\ TiedRow(new)
      BY <2>4, <2>5, SeenRowsAreTied
    <3>2. new.type = "work_item"
      BY <2>10, <3>1, ItemsShareWithItems
    <3>3. row.type = "work_item" /\ row.refs \cap Row(a, e).refs # {}
      BY <2>5, <2>8, <2>10, <3>2
    <3> QED BY <1>0, <2>3, <2>9, <2>10, <3>3 DEF OneRowIn
  <2>11. OneRowIn(a)'
    BY <1>0, <2>7, <2>10 DEF OneRowIn, Visible
  <2> QED BY <1>0, <2>1, <2>11, ItemsKept
<1>5. CASE Commits(a)
  <2>1. /\ entities' = [e \in Ids |-> Row(a, e)] /\ tx'[a] = Idle /\ Active(a)
    BY <1>0, <1>5 DEF Commits, Active
  <2>2. \A b \in Artifacts : \A e \in Ids : tx'[b].rows[e] = None
    BY <1>0, <2>1 DEF SerialInv, SerialTx, Idle
  <2>3. \A b \in Artifacts : \A e \in Ids : Row(b, e)' = Row(a, e)
    BY <2>1, <2>2 DEF Row
  <2>4. OneRowPerItem'
    BY <1>0, <2>1 DEF OneRowPerItem, Live, OneRowIn, Visible
  <2>5. \A b \in Artifacts : OneRowIn(b)'
    BY <1>0, <2>3 DEF OneRowIn, Visible
  <2> QED BY <2>4, <2>5 DEF ItemsInv
<1> QED BY <1>1, <1>2, <1>3, <1>4, <1>5 DEF Persist

(* Deliveries that do not overlap converge: whatever rolls back between them,
   every artifact that landed is found by each ref it brought, and a work item
   has one row.  (When they overlap, an update computed from a row read before
   the wait loses refs.) *)
THEOREM SerialConverges == Spec => []SerialWritesConverge
<1> DEFINE I == overlapped \/ (SerialInv /\ ItemsInv)
<1>1. Init => I
  <2> SUFFICES ASSUME Init PROVE SerialInv /\ ItemsInv
    OBVIOUS
  <2>1. \A a \in Artifacts : ~Active(a) /\ \A e \in Ids : tx[a].rows[e] = None /\ entities[e] = None
    BY DEF Init, Active, Idle
  <2>2. \A a \in Artifacts : SerialTx(a) /\ OneRowIn(a)
    BY <2>1 DEF SerialTx, OneRowIn, Visible, Row, Written, Active
  <2> QED BY <2>1, <2>2 DEF Init, SerialInv, ItemsInv, LandedFindable, OneRowPerItem, Live
<1>2. RowsInv /\ I /\ [Next]_vars => I'
  <2> SUFFICES ASSUME RowsInv, I, [Next]_vars, ~overlapped' PROVE SerialInv' /\ ItemsInv'
    OBVIOUS
  <2>1. CASE UNCHANGED vars
    <3>1. \A a \in Artifacts : SerialTx(a) => SerialTx(a)'
      BY <2>1 DEF vars, SerialTx, Active, Row, Written, Findable, Has
    <3>2. \A a \in Artifacts : OneRowIn(a) => OneRowIn(a)'
      BY <2>1 DEF vars, OneRowIn, Visible, Row
    <3>3. LandedFindable' = LandedFindable /\ OneRowPerItem' = OneRowPerItem
      BY <2>1 DEF vars, LandedFindable, OneRowPerItem, Live
    <3>4. overlapped' = overlapped /\ \A a \in Artifacts : Active(a)' = Active(a)
      BY <2>1 DEF vars, Active
    <3>5. entities' = entities /\ sources' = sources
      BY <2>1 DEF vars
    <3> QED BY <3>1, <3>2, <3>3, <3>4, <3>5 DEF SerialInv, ItemsInv
  <2>2. CASE \E a \in Artifacts : Persist(a)
    <3>1. PICK a \in Artifacts : Persist(a)
      BY <2>2
    <3>2. ~overlapped
      BY <3>1 DEF Persist, Begins, Matches, Inserts, Updates, Queues, NextRecord, WritesEdge,
         Commits, Aborts
    <3> QED BY <3>1, <3>2, SerialStep, ItemsStep
  <2> QED BY <2>1, <2>2 DEF Next, AllLanded
<1>3. I => SerialWritesConverge
  BY DEF SerialInv, ItemsInv, SerialWritesConverge
<1> QED BY <1>1, <1>2, <1>3, RowsInvariant, PTL DEF Spec

-----------------------------------------------------------------------------
(***************************************************************************)
(* applyMatchDecision.  What a merge will write is read and computed over  *)
(* several statements; as long as no other decision is under way, it is    *)
(* still so when it commits.                                               *)
(***************************************************************************)
AllRefs == UNION {RefsOf[p] : p \in People}
Ends    == People \cup {e.from : e \in InitialEdges} \cup {e.to : e \in InitialEdges}
Ties    == [from : Ends, to : Ends]

DecisionStates ==
  [pc : {"idle", "read", "rejecting", "sides", "kept", "moved", "stamped", "dropped", "committed",
         "failed"},
   refs : SUBSET AllRefs, kept : BOOLEAN, added : SUBSET Ties, removed : SUBSET Ties]

ReviewTypes ==
  /\ DOMAIN people \subseteq People /\ \A p \in DOMAIN people : people[p] \subseteq AllRefs
  /\ ties \subseteq Ties
  /\ decision \in [Decisions -> DecisionStates]

Touching(d) == {e \in ties : Drop(d) \in {e.from, e.to}}

(* How far a decision is, and what the tables it has read still hold. *)
StillRead(d) ==
  LET pc == decision[d].pc IN
  /\ pc \in {"read", "rejecting", "sides", "kept", "moved", "stamped", "dropped"} =>
       d.pair \in DOMAIN review
  /\ pc \in {"sides", "kept", "moved", "stamped", "dropped"} =>
       /\ d.what = "merge" /\ d.pair \subseteq DOMAIN people
       /\ decision[d].refs = UNION {people[p] : p \in d.pair}
  /\ pc \in {"kept", "moved", "stamped", "dropped"} => decision[d].kept
  /\ pc \in {"moved", "stamped", "dropped"} =>
       /\ decision[d].removed = Touching(d)
       /\ decision[d].added =
            {e \in {Repointed(f, Drop(d), d.keep) : f \in Touching(d)} : e.from # e.to}

(* A negative leaves the queue only with one of its sides. *)
NegativesStay == \A p \in negatives : p \in DOMAIN review \/ ~(p \subseteq DOMAIN people)

SerialReview ==
  /\ \A d, other \in Decisions : Deciding(d) /\ Deciding(other) => d = other
  /\ \A d \in Decisions : StillRead(d)
  /\ MergesFold /\ NoEdgeLeftBehind /\ NegativesKept /\ NegativesStay

LEMMA PairIsKeepAndDrop ==
  ASSUME NEW d \in Decisions, d.what = "merge"
  PROVE  d.pair = {d.keep, Drop(d)} /\ d.keep # Drop(d) /\ d.pair \subseteq People
<1>1. PICK p, q \in People : p # q /\ d.pair = {p, q}
  BY ReviewAssumption
<1>2. d.keep \in d.pair
  BY ReviewAssumption
<1>3. \E r \in d.pair : r # d.keep
  BY <1>1, <1>2
<1>4. Drop(d) \in d.pair /\ Drop(d) # d.keep
  BY <1>3 DEF Drop
<1> QED BY <1>1, <1>2, <1>4

(* A merge that has read its sides folds the dropped one into the kept one. *)
LEMMA RepointedTies ==
  ASSUME NEW e \in Ties, NEW from, NEW to \in People
  PROVE  LET r == Repointed(e, from, to)
         IN /\ r \in Ties
            /\ r.from = IF e.from = from THEN to ELSE e.from
            /\ r.to = IF e.to = from THEN to ELSE e.to
BY DEF Repointed, Ties, Ends

(* A decision moves within its transaction: the tables stay. *)
LEMMA DecisionMoves ==
  ASSUME ReviewTypes, SerialReview, NEW d \in Decisions, NEW t \in DecisionStates,
         decision' = [decision EXCEPT ![d] = t], TablesStay,
         Deciding(d)' => \A other \in Decisions \ {d} : ~Deciding(other),
         StillRead(d)'
  PROVE  ReviewTypes' /\ SerialReview'
<1>1. ReviewTypes'
  BY DEF ReviewTypes, TablesStay
<1>2. \A other \in Decisions : other # d => decision'[other] = decision[other]
  BY DEF ReviewTypes
<1>3. \A other \in Decisions : other # d => StillRead(other)'
  BY <1>2 DEF SerialReview, StillRead, Touching, TablesStay
<1>4. \A c, other \in Decisions : Deciding(c)' /\ Deciding(other)' => c = other
  BY <1>2 DEF SerialReview, Deciding
<1>5. (MergesFold /\ NoEdgeLeftBehind /\ NegativesKept /\ NegativesStay)'
  BY DEF SerialReview, MergesFold, NoEdgeLeftBehind, NegativesKept, NegativesStay, TablesStay
<1> QED BY <1>1, <1>3, <1>4, <1>5 DEF SerialReview

LEMMA ReviewStep ==
  ASSUME ReviewTypes, SerialReview, ReviewNext, ~concurrent'
  PROVE  ReviewTypes' /\ SerialReview'
<1>1. ASSUME NEW d \in Decisions, ReadsPair(d)
      PROVE  ReviewTypes' /\ SerialReview'
  <2>1. PICK pc \in {"read", "failed"} :
          /\ decision' = [decision EXCEPT ![d].pc = pc] /\ TablesStay
          /\ pc = "read" => d.pair \in DOMAIN review
    BY <1>1 DEF ReadsPair, Becomes
  <2> DEFINE t == [decision[d] EXCEPT !.pc = pc]
  <2>2. t \in DecisionStates /\ t.pc = pc /\ decision' = [decision EXCEPT ![d] = t]
    BY <2>1 DEF ReviewTypes, DecisionStates
  <2> HIDE DEF t
  <2>3. \A other \in Decisions \ {d} : ~Deciding(other)
    BY <1>1 DEF ReadsPair
  <2>4. decision'[d] = t
    BY <2>2 DEF ReviewTypes
  <2>5. StillRead(d)'
    BY <2>1, <2>2, <2>4 DEF StillRead, TablesStay
  <2> QED BY <2>1, <2>2, <2>3, <2>5, DecisionMoves
<1>2. ASSUME NEW d \in Decisions, Deciding(d), NEW t \in DecisionStates,
             decision' = [decision EXCEPT ![d] = t], TablesStay, StillRead(d)'
      PROVE  ReviewTypes' /\ SerialReview'
  BY <1>2, DecisionMoves DEF SerialReview
<1>3. ASSUME NEW d \in Decisions, Rejects(d)
      PROVE  ReviewTypes' /\ SerialReview'
  <2> DEFINE t == [decision[d] EXCEPT !.pc = "rejecting"]
  <2>1. /\ t \in DecisionStates /\ t.pc = "rejecting" /\ decision' = [decision EXCEPT ![d] = t]
        /\ TablesStay /\ decision[d].pc = "read" /\ Deciding(d)
    BY <1>3 DEF Rejects, Becomes, ReviewTypes, DecisionStates, Deciding
  <2> HIDE DEF t
  <2>2. decision'[d] = t
    BY <2>1 DEF ReviewTypes
  <2>3. StillRead(d)'
    BY <2>1, <2>2 DEF SerialReview, StillRead, TablesStay
  <2> QED BY <1>2, <2>1, <2>3
<1>4. ASSUME NEW d \in Decisions, ReadsSides(d)
      PROVE  ReviewTypes' /\ SerialReview'
  <2>1. decision[d].pc = "read" /\ Deciding(d) /\ d.what = "merge" /\ TablesStay
    BY <1>4 DEF ReadsSides, Deciding
  <2>2. CASE d.pair \subseteq DOMAIN people
    <3> DEFINE refs == UNION {people[p] : p \in d.pair}
               t == [decision[d] EXCEPT !.pc = "sides", !.refs = refs]
    <3>1. refs \subseteq AllRefs
      BY <2>2 DEF ReviewTypes
    <3> HIDE DEF refs
    <3>2. /\ t \in DecisionStates /\ t.pc = "sides" /\ t.refs = refs
      BY <3>1 DEF ReviewTypes, DecisionStates
    <3>3. decision' = [decision EXCEPT ![d] = t]
      BY <1>4, <2>2 DEF ReadsSides, refs
    <3> HIDE DEF t
    <3>4. decision'[d] = t
      BY <3>3 DEF ReviewTypes
    <3>5. StillRead(d)'
      BY <2>1, <2>2, <3>2, <3>4 DEF SerialReview, StillRead, TablesStay, refs
    <3> QED BY <1>2, <2>1, <3>2, <3>3, <3>5
  <2>3. CASE ~(d.pair \subseteq DOMAIN people)
    <3> DEFINE t == [decision[d] EXCEPT !.pc = "failed"]
    <3>1. t \in DecisionStates /\ t.pc = "failed" /\ decision' = [decision EXCEPT ![d] = t]
      BY <1>4, <2>3 DEF ReadsSides, ReviewTypes, DecisionStates
    <3> HIDE DEF t
    <3>2. decision'[d] = t
      BY <3>1 DEF ReviewTypes
    <3>3. StillRead(d)'
      BY <3>1, <3>2 DEF StillRead
    <3> QED BY <1>2, <2>1, <3>1, <3>3
  <2> QED BY <2>2, <2>3
<1>5. ASSUME NEW d \in Decisions, UpdatesKept(d)
      PROVE  ReviewTypes' /\ SerialReview'
  <2>1. decision[d].pc = "sides" /\ Deciding(d) /\ TablesStay
    BY <1>5 DEF UpdatesKept, Deciding
  <2>2. d.keep \in DOMAIN people
    BY <2>1, PairIsKeepAndDrop DEF SerialReview, StillRead
  <2> DEFINE t == [decision[d] EXCEPT !.pc = "kept", !.kept = TRUE]
  <2>3. t \in DecisionStates /\ t.pc = "kept" /\ t.kept /\ t.refs = decision[d].refs
    BY DEF ReviewTypes, DecisionStates
  <2>4. decision' = [decision EXCEPT ![d] = t]
    BY <1>5, <2>2 DEF UpdatesKept
  <2> HIDE DEF t
  <2>5. decision'[d] = t
    BY <2>4 DEF ReviewTypes
  <2>6. StillRead(d)'
    BY <2>1, <2>3, <2>5 DEF SerialReview, StillRead, TablesStay
  <2> QED BY <1>2, <2>1, <2>3, <2>4, <2>6
<1>6. ASSUME NEW d \in Decisions, MovesEdges(d)
      PROVE  ReviewTypes' /\ SerialReview'
  <2>1. decision[d].pc = "kept" /\ Deciding(d) /\ TablesStay
    BY <1>6 DEF MovesEdges, Deciding
  <2> DEFINE moved == {Repointed(f, Drop(d), d.keep) : f \in Touching(d)}
             added == {e \in moved : e.from # e.to}
             t == [decision[d] EXCEPT !.pc = "moved", !.removed = Touching(d), !.added = added]
  <2>2. d.keep \in People
    BY <2>1, PairIsKeepAndDrop DEF SerialReview, StillRead
  <2>3. Touching(d) \subseteq Ties
    BY DEF Touching, ReviewTypes
  <2>4. added \subseteq Ties
    BY <2>2, <2>3, RepointedTies
  <2>5. decision' = [decision EXCEPT ![d] = t]
    BY <1>6 DEF MovesEdges, Touching
  <2>6. /\ t \in DecisionStates /\ t.pc = "moved" /\ t.removed = Touching(d) /\ t.added = added
        /\ t.refs = decision[d].refs /\ t.kept = decision[d].kept
    <3> HIDE DEF added
    <3> QED BY <2>3, <2>4 DEF ReviewTypes, DecisionStates
  <2> HIDE DEF t
  <2>7. decision'[d] = t
    BY <2>5 DEF ReviewTypes
  <2>8. Touching(d)' = Touching(d)
    BY <2>1 DEF Touching, TablesStay
  <2>9. StillRead(d)'
    BY <2>1, <2>6, <2>7, <2>8 DEF SerialReview, StillRead, TablesStay
  <2> QED BY <1>2, <2>1, <2>5, <2>6, <2>9
<1>7. ASSUME NEW d \in Decisions, StampsPair(d) \/ DeletesDropped(d)
      PROVE  ReviewTypes' /\ SerialReview'
  <2>1. PICK pc \in {"stamped", "dropped"} :
          decision' = [decision EXCEPT ![d].pc = pc] /\ decision[d].pc \in {"moved", "stamped"}
    BY <1>7 DEF StampsPair, DeletesDropped, Becomes
  <2>2. TablesStay /\ Deciding(d)
    BY <1>7 DEF StampsPair, DeletesDropped, Deciding
  <2> DEFINE t == [decision[d] EXCEPT !.pc = pc]
  <2>3. /\ t \in DecisionStates /\ t.pc = pc /\ decision' = [decision EXCEPT ![d] = t]
        /\ t.refs = decision[d].refs /\ t.kept = decision[d].kept
        /\ t.added = decision[d].added /\ t.removed = decision[d].removed
    BY <2>1 DEF ReviewTypes, DecisionStates
  <2> HIDE DEF t
  <2>4. decision'[d] = t
    BY <2>3 DEF ReviewTypes
  <2>5. Touching(d)' = Touching(d)
    BY <2>2 DEF Touching, TablesStay
  <2>6. StillRead(d)'
    BY <2>1, <2>2, <2>3, <2>4, <2>5 DEF SerialReview, StillRead, TablesStay
  <2> QED BY <1>2, <2>2, <2>3, <2>6
<1>8. ASSUME NEW d \in Decisions, RollsBack(d)
      PROVE  ReviewTypes' /\ SerialReview'
  <2> DEFINE t == [decision[d] EXCEPT !.pc = "failed"]
  <2>1. /\ t \in DecisionStates /\ t.pc = "failed" /\ decision' = [decision EXCEPT ![d] = t]
        /\ TablesStay /\ Deciding(d)
    BY <1>8 DEF RollsBack, Becomes, ReviewTypes, DecisionStates
  <2> HIDE DEF t
  <2>2. decision'[d] = t
    BY <2>1 DEF ReviewTypes
  <2>3. StillRead(d)'
    BY <2>1, <2>2 DEF StillRead
  <2> QED BY <1>2, <2>1, <2>3
(* A commit: no other decision is under way. *)
<1>9. ASSUME NEW d \in Decisions, Deciding(d), decision' = [decision EXCEPT ![d].pc = "committed"]
      PROVE  /\ decision' \in [Decisions -> DecisionStates]
             /\ \A other \in Decisions : ~Deciding(other)' /\ StillRead(other)'
  <2>1. decision' \in [Decisions -> DecisionStates] /\ decision'[d].pc = "committed"
        /\ \A other \in Decisions : other # d => decision'[other] = decision[other]
    BY <1>9 DEF ReviewTypes, DecisionStates
  <2>2. \A other \in Decisions : decision'[other].pc \in {"idle", "committed", "failed"}
    BY <1>9, <2>1 DEF SerialReview, Deciding
  <2> QED BY <2>1, <2>2 DEF Deciding, StillRead
<1>10. ASSUME NEW d \in Decisions, CommitsReject(d)
       PROVE  ReviewTypes' /\ SerialReview'
  <2>1. /\ decision[d].pc = "rejecting" /\ Deciding(d) /\ d.pair \in DOMAIN review
        /\ decision' = [decision EXCEPT ![d].pc = "committed"]
        /\ review' = [p \in DOMAIN review |-> IF p = d.pair THEN "rejected" ELSE review[p]]
        /\ negatives' = negatives \cup {d.pair} /\ UNCHANGED <<people, ties>>
    BY <1>10 DEF CommitsReject, Deciding, Becomes, SerialReview, StillRead
  <2>2. (NegativesKept /\ NegativesStay)'
    BY <2>1 DEF SerialReview, NegativesKept, NegativesStay
  <2>3. (MergesFold /\ NoEdgeLeftBehind)'
    BY <2>1 DEF SerialReview, MergesFold, NoEdgeLeftBehind
  <2> QED BY <1>9, <2>1, <2>2, <2>3 DEF ReviewTypes, SerialReview
<1>11. ASSUME NEW d \in Decisions, CommitsMerge(d)
       PROVE  ReviewTypes' /\ SerialReview'
  <2>1. /\ decision[d].pc = "dropped" /\ Deciding(d) /\ StillRead(d)
        /\ decision' = [decision EXCEPT ![d].pc = "committed"]
    BY <1>11 DEF CommitsMerge, Deciding, Becomes, SerialReview
  <2>2. /\ d.what = "merge" /\ d.pair \subseteq DOMAIN people /\ decision[d].kept
        /\ decision[d].refs = UNION {people[p] : p \in d.pair}
        /\ decision[d].removed = Touching(d)
        /\ decision[d].added =
             {e \in {Repointed(f, Drop(d), d.keep) : f \in Touching(d)} : e.from # e.to}
    BY <2>1 DEF StillRead
  <2> PICK keep, drop \in People : keep = d.keep /\ drop = Drop(d)
    BY <2>2, PairIsKeepAndDrop
  <2>3. d.pair = {keep, drop} /\ keep # drop /\ {keep, drop} \subseteq DOMAIN people
    BY <2>2, PairIsKeepAndDrop
  <2>4. /\ people' = [p \in DOMAIN people \ {drop} |->
                        IF p = keep THEN people[keep] \cup people[drop] ELSE people[p]]
        /\ review' = [p \in {q \in DOMAIN review : drop \notin q} |-> review[p]]
        /\ ties' = (ties \ decision[d].removed) \cup decision[d].added
        /\ negatives' = negatives
    <3>1. decision[d].refs = people[keep] \cup people[drop]
      BY <2>2, <2>3
    <3>2. people' = [p \in DOMAIN people \ {drop} |-> IF p = keep THEN decision[d].refs ELSE people[p]]
      BY <1>11, <2>2 DEF CommitsMerge
    <3>3. review' = [p \in {q \in DOMAIN review : drop \notin q} |-> review[p]]
      BY <1>11 DEF CommitsMerge
    <3> QED BY <1>11, <3>1, <3>2, <3>3 DEF CommitsMerge
  <2>5. DOMAIN people' = DOMAIN people \ {drop}
    BY <2>4
  <2>6. MergesFold'
    <3>1. UNION {people'[p] : p \in DOMAIN people'} = UNION {people[p] : p \in DOMAIN people}
      BY <2>3, <2>4, <2>5
    <3> QED BY <3>1 DEF SerialReview, MergesFold
  <2>7. \A e \in Touching(d) : Repointed(e, drop, keep) \in Ties
    BY RepointedTies DEF Touching, ReviewTypes
  <2>8. ties' \subseteq Ties
    BY <2>2, <2>4, <2>7 DEF ReviewTypes
  <2>9. NoEdgeLeftBehind'
    <3>1. ASSUME NEW e \in ties, e \notin Touching(d)
          PROVE  {e.from, e.to} \cap People \subseteq DOMAIN people \ {drop}
      BY <3>1 DEF SerialReview, NoEdgeLeftBehind, Touching
    <3>2. ASSUME NEW e \in Touching(d), NEW r, r = Repointed(e, drop, keep)
          PROVE  {r.from, r.to} \cap People \subseteq DOMAIN people \ {drop}
      <4>1. e \in Ties /\ {e.from, e.to} \cap People \subseteq DOMAIN people
        BY DEF Touching, ReviewTypes, SerialReview, NoEdgeLeftBehind
      <4>2. /\ r.from = IF e.from = drop THEN keep ELSE e.from
            /\ r.to = IF e.to = drop THEN keep ELSE e.to
        BY <3>2, <4>1, RepointedTies
      <4> QED BY <2>3, <4>1, <4>2
    <3> QED BY <2>2, <2>4, <2>5, <3>1, <3>2 DEF NoEdgeLeftBehind
  <2>10. (NegativesKept /\ NegativesStay)'
    BY <2>4, <2>5 DEF SerialReview, NegativesKept, NegativesStay
  <2>11. \A p \in DOMAIN people' : people'[p] \subseteq AllRefs
    BY <2>3, <2>4 DEF ReviewTypes
  <2> QED BY <1>9, <2>1, <2>5, <2>6, <2>8, <2>9, <2>10, <2>11 DEF ReviewTypes, SerialReview
<1>12. ASSUME NEW pair, QueuesAgain(pair)
       PROVE  ReviewTypes' /\ SerialReview'
  <2>1. /\ pair \subseteq DOMAIN people /\ pair \notin DOMAIN review
        /\ review' = [p \in DOMAIN review \cup {pair} |-> IF p = pair THEN "pending" ELSE review[p]]
        /\ UNCHANGED <<people, ties, decision, negatives>>
    BY <1>12 DEF QueuesAgain, MayQueue
  <2>2. (NegativesKept /\ NegativesStay)'
    BY <2>1 DEF SerialReview, NegativesKept, NegativesStay
  <2>3. \A d \in Decisions : StillRead(d)' /\ Deciding(d)' = Deciding(d)
    BY <2>1 DEF SerialReview, StillRead, Touching, Deciding
  <2> QED BY <2>1, <2>2, <2>3 DEF ReviewTypes, SerialReview, MergesFold, NoEdgeLeftBehind
<1> QED BY <1>1, <1>3, <1>4, <1>5, <1>6, <1>7, <1>8, <1>10, <1>11, <1>12 DEF ReviewNext

(* Reviewers who decide one at a time, in any order, over pairs that overlap and
   merges that chain, with any of them rolled back, lose no external ref, leave
   no relationship on an entity that a merge deleted and undo no rejection.  (Two
   at once do: a merge unites refs it read before another merge committed.) *)
THEOREM SerialReviewHolds == ReviewSpec => []SerialDecisionsHold
<1> DEFINE I == concurrent \/ (ReviewTypes /\ SerialReview)
<1>1. ReviewInit => I
  <2> SUFFICES ASSUME ReviewInit PROVE ReviewTypes /\ SerialReview
    OBVIOUS
  <2>1. NotBegun \in DecisionStates
    BY DEF NotBegun, DecisionStates
  <2>2. ReviewTypes
    BY <2>1, ReviewAssumption DEF ReviewInit, ReviewTypes, AllRefs, Ties, Ends, People
  <2>3. \A d \in Decisions : ~Deciding(d) /\ StillRead(d)
    BY DEF ReviewInit, NotBegun, Deciding, StillRead
  <2> QED BY <2>2, <2>3 DEF ReviewInit, SerialReview, MergesFold, NoEdgeLeftBehind, NegativesKept,
       NegativesStay, People
<1>2. I /\ [ReviewNext]_reviewVars => I'
  <2> SUFFICES ASSUME I, [ReviewNext]_reviewVars, ~concurrent' PROVE ReviewTypes' /\ SerialReview'
    OBVIOUS
  <2>1. CASE UNCHANGED reviewVars
    <3>1. UNCHANGED <<people, ties, review, decision, concurrent, negatives>>
      BY <2>1 DEF reviewVars
    <3>2. \A d \in Decisions : StillRead(d)' = StillRead(d) /\ Deciding(d)' = Deciding(d)
      BY <3>1 DEF StillRead, Touching, Deciding
    <3> QED BY <3>1, <3>2 DEF ReviewTypes, SerialReview, MergesFold, NoEdgeLeftBehind, NegativesKept,
         NegativesStay
  <2>2. CASE ReviewNext
    <3>1. ~concurrent
      BY <2>2 DEF ReviewNext, ReadsPair, Rejects, CommitsReject, ReadsSides, UpdatesKept, MovesEdges,
         StampsPair, DeletesDropped, CommitsMerge, RollsBack, QueuesAgain
    <3> QED BY <2>2, <3>1, ReviewStep
  <2> QED BY <2>1, <2>2
<1>3. I => SerialDecisionsHold
  BY DEF SerialReview, SerialDecisionsHold
<1> QED BY <1>1, <1>2, <1>3, PTL DEF ReviewSpec

-----------------------------------------------------------------------------
(***************************************************************************)
(* chunkTranscript.  The next chunk starts past the start of the last one; *)
(* it ends no sooner because a line break that would cut it sooner would,  *)
(* lying half a window past the later start, have cut the last one too.    *)
(***************************************************************************)
Spans == [offset : Nat, end : Nat]

TextTypes ==
  /\ text.length \in Nat /\ text.breaks \subseteq 0..(text.length - 1)
  /\ window.maxChars \in Nat \ {0} /\ window.overlapChars \in 0..(window.maxChars - 1)
  /\ chunks \in Seq(Spans) /\ cutFrom \in 0..text.length

(* A chunk is cut where the text and the window cut it, and is not empty. *)
WellCut(c) == c.offset < c.end /\ c.end <= c.offset + window.maxChars + 1 /\ c.end <= text.length

FollowsOn(c, next) ==
  /\ c.offset < next.offset /\ c.end <= next.end
  /\ next.offset >= c.end - window.overlapChars /\ next.offset <= c.end

ChunksInv ==
  /\ TextTypes
  /\ \A i \in 1..Len(chunks) : WellCut(chunks[i])
  /\ \A i \in 1..(Len(chunks) - 1) : FollowsOn(chunks[i], chunks[i + 1])
  /\ chunks # <<>> => chunks[1].offset = 0
  /\ chunks = <<>> => cutFrom = 0
  /\ chunks # <<>> /\ cutFrom < text.length =>
       LET last == chunks[Len(chunks)]
       IN last.end < text.length /\ last.end = CutAt(last.offset) /\ cutFrom = NextStart(last.offset, last.end)
  /\ chunks # <<>> /\ cutFrom = text.length => chunks[Len(chunks)].end = text.length

(* The last line break at or before a position, or -1. *)
LEMMA LastBreak ==
  ASSUME TextTypes, NEW end \in Nat
  PROVE  LET nl == Max({-1} \cup {b \in text.breaks : b <= end})
         IN /\ nl \in Int /\ nl <= end /\ (nl # -1 => nl \in text.breaks)
            /\ \A b \in text.breaks : b <= end => b <= nl
<1> DEFINE S == {-1} \cup {b \in text.breaks : b <= end}
<1>1. S \subseteq (-1)..text.length /\ S # {} /\ S \in SUBSET Int /\ \A b \in S : b <= end
  BY DEF TextTypes
<1>2. IsFiniteSet((-1)..text.length)
  <2>1. -1 \in Int /\ text.length \in Int
    BY DEF TextTypes
  <2> QED BY <2>1, FS_Interval
<1>3. IsFiniteSet(S)
  BY <1>1, <1>2, FS_Subset
<1>4. \E m \in S : \A y \in S : m >= y
  BY <1>1, <1>3, GreatestElement
<1>5. Max(S) \in S /\ \A y \in S : Max(S) >= y
  BY <1>4 DEF Max
<1> QED BY <1>1, <1>5

LEMMA CutFacts ==
  ASSUME TextTypes, NEW start \in Nat
  PROVE  \E end \in Nat, nl \in Int :
           /\ end = IF start + window.maxChars < text.length THEN start + window.maxChars ELSE text.length
           /\ nl <= end /\ nl < text.length
           /\ nl # -1 => nl \in text.breaks
           /\ \A b \in text.breaks : b <= end => b <= nl
           /\ CutAt(start) = IF end < text.length /\ nl > start /\ 2 * (nl - start) >= window.maxChars
                             THEN nl + 1 ELSE end
<1> DEFINE end == Sooner(start + window.maxChars, text.length)
           nl == Max({-1} \cup {b \in text.breaks : b <= end})
<1>1. end \in Nat /\ end = IF start + window.maxChars < text.length THEN start + window.maxChars ELSE text.length
  BY DEF TextTypes, Sooner
<1>2. CutAt(start) = IF end < text.length /\ nl > start /\ 2 * (nl - start) >= window.maxChars
                     THEN nl + 1 ELSE end
  BY DEF CutAt
<1>3. nl \in Int /\ nl <= end /\ (nl # -1 => nl \in text.breaks) /\ \A b \in text.breaks : b <= end => b <= nl
  BY <1>1, LastBreak
<1>4. nl < text.length
  BY <1>3 DEF TextTypes
<1> HIDE DEF end, nl
<1> QED BY <1>1, <1>2, <1>3, <1>4

(* What is cut is not empty, and is at most a window and a character. *)
LEMMA CutsForward ==
  ASSUME TextTypes, NEW start \in Nat, start < text.length
  PROVE  CutAt(start) \in Nat /\ WellCut([offset |-> start, end |-> CutAt(start)])
<1>1. PICK end \in Nat, nl \in Int :
        /\ end = IF start + window.maxChars < text.length THEN start + window.maxChars ELSE text.length
        /\ nl <= end /\ nl < text.length
        /\ CutAt(start) = IF end < text.length /\ nl > start /\ 2 * (nl - start) >= window.maxChars
                          THEN nl + 1 ELSE end
  BY CutFacts
<1> PICK size \in Nat, most \in Nat : size = text.length /\ most = window.maxChars /\ most > 0
  BY DEF TextTypes
<1>2. /\ end = IF start + most < size THEN start + most ELSE size
      /\ nl <= end /\ nl < size /\ start < size
      /\ CutAt(start) = IF end < size /\ nl > start /\ 2 * (nl - start) >= most THEN nl + 1 ELSE end
  BY <1>1
<1>3. CutAt(start) \in Nat /\ start < CutAt(start) /\ CutAt(start) <= start + most + 1 /\ CutAt(start) <= size
  <2>1. CASE end < size /\ nl > start /\ 2 * (nl - start) >= most
    BY <1>2, <2>1
  <2>2. CASE ~(end < size /\ nl > start /\ 2 * (nl - start) >= most)
    BY <1>2, <2>2
  <2> QED BY <2>1, <2>2
<1> QED BY <1>3 DEF WellCut

(* A later chunk ends no sooner. *)
LEMMA CutsInOrder ==
  ASSUME TextTypes, NEW start \in Nat, NEW later \in Nat, start < later, later < text.length,
         CutAt(start) < text.length
  PROVE  CutAt(start) <= CutAt(later)
<1> PICK size \in Nat, most \in Nat : size = text.length /\ most = window.maxChars
  BY DEF TextTypes
<1>1. PICK end1 \in Nat, nl1 \in Int :
        /\ end1 = IF start + most < size THEN start + most ELSE size
        /\ nl1 <= end1 /\ (nl1 # -1 => nl1 \in text.breaks)
        /\ \A b \in text.breaks : b <= end1 => b <= nl1
        /\ CutAt(start) = IF end1 < size /\ nl1 > start /\ 2 * (nl1 - start) >= most
                          THEN nl1 + 1 ELSE end1
  BY CutFacts
<1>2. PICK end2 \in Nat, nl2 \in Int :
        /\ end2 = IF later + most < size THEN later + most ELSE size
        /\ nl2 # -1 => nl2 \in text.breaks
        /\ \A b \in text.breaks : b <= end2 => b <= nl2
        /\ CutAt(later) = IF end2 < size /\ nl2 > later /\ 2 * (nl2 - later) >= most
                          THEN nl2 + 1 ELSE end2
  BY CutFacts
<1>3. CASE CutAt(later) = end2
  <2>1. end1 < size => end1 + 1 <= end2
    BY <1>1, <1>2
  <2>2. CutAt(start) <= end1 + 1 /\ (end1 >= size => CutAt(start) = end1 /\ end1 = size)
    BY <1>1
  <2>3. CutAt(start) < size
    OBVIOUS
  <2> QED BY <1>1, <1>3, <2>1, <2>2, <2>3
<1>4. CASE /\ CutAt(later) = nl2 + 1 /\ end2 < size /\ nl2 > later /\ 2 * (nl2 - later) >= most
  <2>1. nl2 \in text.breaks /\ end1 < end2 /\ end1 < size
    BY <1>1, <1>2, <1>4
  <2>2. CASE nl2 <= end1
    <3>1. nl2 <= nl1
      BY <1>1, <2>1, <2>2
    <3>2. nl1 \in text.breaks /\ nl1 <= end2
      BY <1>1, <1>4, <2>1, <3>1
    <3>3. nl1 = nl2
      BY <1>2, <3>1, <3>2
    <3>4. nl1 > start /\ 2 * (nl1 - start) >= most
      BY <1>4, <3>3
    <3> QED BY <1>1, <1>4, <2>1, <3>3, <3>4
  <2>3. CASE nl2 > end1
    BY <1>1, <1>4, <2>3
  <2> QED BY <2>2, <2>3
<1> QED BY <1>2, <1>3, <1>4

LEMMA ChunksStep ==
  ASSUME ChunksInv, Cuts
  PROVE  ChunksInv'
<1> DEFINE end == CutAt(cutFrom)
           new == [offset |-> cutFrom, end |-> end]
           n == Len(chunks)
<1>1. /\ cutFrom \in Nat /\ cutFrom < text.length /\ UNCHANGED <<text, window>> /\ text.length \in Nat
      /\ chunks' = Append(chunks, new)
      /\ cutFrom' = IF end >= text.length THEN text.length ELSE NextStart(cutFrom, end)
  BY DEF Cuts, ChunksInv, TextTypes
<1>2. end \in Nat /\ WellCut(new) /\ cutFrom < end /\ end <= text.length
  BY <1>1, CutsForward DEF ChunksInv, WellCut
<1>3. /\ chunks' \in Seq(Spans) /\ Len(chunks') = n + 1 /\ chunks'[n + 1] = new /\ n \in Nat
      /\ chunks' # <<>> /\ \A i \in 1..n : chunks'[i] = chunks[i] /\ chunks[i] \in Spans
  <2>1. chunks \in Seq(Spans) /\ new \in Spans
    BY <1>1, <1>2 DEF ChunksInv, TextTypes, Spans
  <2> HIDE DEF new
  <2> QED BY <1>1, <2>1
<1>4. cutFrom' \in 0..text.length
  BY <1>1, <1>2 DEF ChunksInv, TextTypes, NextStart, Later
<1>5. TextTypes'
  BY <1>1, <1>3, <1>4 DEF ChunksInv, TextTypes
<1>6. ASSUME n # 0 PROVE FollowsOn(chunks[n], new)
  <2>1. n \in 1..n /\ chunks # <<>>
    BY <1>3, <1>6
  <2>2. PICK c \in Spans : c = chunks[n]
    BY <1>3, <2>1
  <2>3. c.end < text.length /\ c.end = CutAt(c.offset) /\ cutFrom = NextStart(c.offset, c.end)
        /\ c.offset < c.end
    BY <1>1, <2>1, <2>2 DEF ChunksInv, WellCut
  <2>4. c.offset \in Nat /\ c.end \in Nat
    BY <2>2 DEF Spans
  <2>5. /\ c.offset < cutFrom /\ cutFrom <= c.end /\ cutFrom >= c.end - window.overlapChars
    BY <2>3, <2>4 DEF NextStart, Later, ChunksInv, TextTypes
  <2>6. c.end <= end
    BY <1>1, <2>3, <2>4, <2>5, CutsInOrder DEF ChunksInv
  <2> QED BY <2>2, <2>5, <2>6 DEF FollowsOn
<1>7. \A c, next : /\ WellCut(c)' = WellCut(c) /\ FollowsOn(c, next)' = FollowsOn(c, next)
  BY <1>1 DEF WellCut, FollowsOn
<1>8. (\A i \in 1..Len(chunks) : WellCut(chunks[i]))'
  <2>1. \A i \in 1..n : WellCut(chunks[i])
    BY DEF ChunksInv
  <2>2. \A i \in 1..(n + 1) : WellCut(chunks'[i])
    BY <1>2, <1>3, <2>1
  <2> QED BY <1>1, <1>3, <2>2 DEF WellCut
<1>9. (\A i \in 1..(Len(chunks) - 1) : FollowsOn(chunks[i], chunks[i + 1]))'
  <2>1. \A i \in 1..(n - 1) : FollowsOn(chunks[i], chunks[i + 1])
    BY DEF ChunksInv
  <2>2. ASSUME NEW i \in 1..n PROVE FollowsOn(chunks'[i], chunks'[i + 1])
    <3>1. CASE i = n
      BY <1>3, <1>6, <3>1
    <3>2. CASE i < n
      BY <1>3, <2>1, <3>2
    <3> QED BY <1>3, <3>1, <3>2
  <2> QED BY <1>1, <1>3, <2>2 DEF FollowsOn
<1>10. chunks'[1].offset = 0
  <2>1. CASE n = 0
    BY <1>3, <2>1 DEF ChunksInv
  <2>2. CASE n # 0
    BY <1>3, <2>2 DEF ChunksInv
  <2> QED BY <2>1, <2>2
<1>11. \A s : CutAt(s)' = CutAt(s) /\ \A e : NextStart(s, e)' = NextStart(s, e)
  BY <1>1 DEF CutAt, NextStart
<1>12. cutFrom' < text.length =>
         /\ end < text.length /\ cutFrom' = NextStart(cutFrom, end)
  BY <1>1, <1>2
<1>13. cutFrom' = text.length => end = text.length
  <2>1. CASE end < text.length
    BY <1>1, <1>2, <2>1 DEF NextStart, Later, ChunksInv, TextTypes
  <2> QED BY <1>1, <1>2, <2>1
<1> HIDE DEF end, new, n
<1> QED BY <1>1, <1>3, <1>5, <1>8, <1>9, <1>10, <1>11, <1>12, <1>13 DEF ChunksInv, new, end

(* Wherever the line breaks fall, whatever the window and the overlap, the
   chunks leave no character out and repeat none beyond the overlap, and none is
   more than one character over the window. *)
THEOREM ChunksCoverTheText == ChunksSpec => []ChunksCover
<1>1. ChunksInit => ChunksInv
  <2> SUFFICES ASSUME ChunksInit PROVE ChunksInv
    OBVIOUS
  <2>1. text.length \in Nat /\ text.breaks \subseteq 0..(text.length - 1)
    BY ChunksAssumption DEF ChunksInit, Texts
  <2>2. window.maxChars \in Nat \ {0} /\ window.overlapChars \in 0..(window.maxChars - 1)
    BY ChunksAssumption DEF ChunksInit, Windows
  <2>3. CASE text.length \in 1..window.maxChars
    <3> DEFINE c == [offset |-> 0, end |-> text.length]
    <3>1. chunks = <<c>> /\ cutFrom = text.length /\ c \in Spans
      BY <2>1, <2>2, <2>3 DEF ChunksInit, Spans
    <3>2. chunks \in Seq(Spans) /\ Len(chunks) = 1 /\ chunks[1] = c
      BY <3>1
    <3>3. c.offset = 0 /\ c.end = text.length /\ WellCut(c)
      BY <2>1, <2>2, <2>3 DEF WellCut
    <3>4. TextTypes
      BY <2>1, <2>2, <3>1, <3>2 DEF TextTypes
    <3> HIDE DEF c
    <3> QED BY <3>1, <3>2, <3>3, <3>4, <2>1 DEF ChunksInv
  <2>4. CASE text.length \notin 1..window.maxChars
    <3>1. chunks = <<>> /\ cutFrom = 0
      BY <2>1, <2>2, <2>4 DEF ChunksInit
    <3> QED BY <2>1, <2>2, <3>1 DEF ChunksInv, TextTypes
  <2> QED BY <2>3, <2>4
<1>2. ChunksInv /\ [Cuts]_chunkVars => ChunksInv'
  <2> SUFFICES ASSUME ChunksInv, UNCHANGED chunkVars PROVE ChunksInv'
    BY ChunksStep
  <2> QED BY DEF chunkVars, ChunksInv, TextTypes, WellCut, FollowsOn, CutAt, NextStart
<1>3. ChunksInv => ChunksCover
  <2> SUFFICES ASSUME ChunksInv PROVE ChunksCover
    OBVIOUS
  <2>1. chunks \in Seq(Spans) /\ window.overlapChars \in Nat /\ text.length \in Nat
    BY DEF ChunksInv, TextTypes
  <2>2. ASSUME NEW i \in 1..(Len(chunks) - 1)
        PROVE  /\ chunks[i].offset < chunks[i + 1].offset
               /\ chunks[i + 1].offset \in (chunks[i].end - window.overlapChars)..chunks[i].end
               /\ chunks[i].end <= chunks[i + 1].end
    <3>1. FollowsOn(chunks[i], chunks[i + 1])
      BY DEF ChunksInv
    <3>2. i \in 1..Len(chunks) /\ i + 1 \in 1..Len(chunks)
      BY <2>1
    <3>3. PICK c, next \in Spans : c = chunks[i] /\ next = chunks[i + 1]
      BY <2>1, <3>2
    <3>4. c.offset \in Nat /\ c.end \in Nat /\ next.offset \in Nat
      BY <3>3 DEF Spans
    <3> QED BY <2>1, <3>1, <3>3, <3>4 DEF FollowsOn
  <2>3. \A i \in DOMAIN chunks : WellCut(chunks[i])
    BY <2>1 DEF ChunksInv
  <2>4. cutFrom = text.length /\ text.length > 0 => chunks # <<>>
    BY <2>1 DEF ChunksInv
  <2> QED BY <2>2, <2>3, <2>4 DEF ChunksInv, ChunksCover, WellCut
<1> QED BY <1>1, <1>2, <1>3, PTL DEF ChunksSpec

-----------------------------------------------------------------------------
(***************************************************************************)
(* agenticLinkSource.  What an attempt found in the text stays with it     *)
(* whatever becomes of the judgment, and an attempt that failed starts     *)
(* over: what it forgets is scanned again.                                 *)
(***************************************************************************)
FlowStates ==
  [pc : {"none", "queued", "loading", "gathering", "judging", "writing", "retry", "done", "failed"},
   attempts : Nat, matches : SUBSET Items, offered : SUBSET AllNodes, chosen : SUBSET AllNodes]

DeliveryStates == [pc : {"idle", "verified", "landing", "failed", "answered"}, at : Nat \ {0}, tries : Nat]

LinkingTypes ==
  /\ created \in Seq(Items) /\ notes \subseteq Notes
  /\ delivery \in [DOMAIN Deliveries -> DeliveryStates]
  /\ flow \in [Items -> FlowStates]
  /\ present \in [Items -> SUBSET Items]

ScanReaches == Len(created) <= ScanLimit + 1

(* The items that the text of i names and a completed workflow has linked. *)
Owed(i) == (Mentions[i] \cap present[i]) \ {i}

FlowInv(i) ==
  /\ present[i] \subseteq Landed
  /\ flow[i].pc # "none" => i \in Landed
  /\ ScanReaches /\ flow[i].pc \in {"gathering", "judging", "writing"} => Owed(i) \subseteq flow[i].matches
  /\ ScanReaches /\ flow[i].pc = "done" => \A j \in Owed(i) : Linked(i, EntityNode(j))

LinkingInv == LinkingTypes /\ \A i \in Items : FlowInv(i)

(* A scan of no more than ScanLimit other items finds them all. *)
LEMMA ScanFindsAll ==
  ASSUME LinkingTypes, NEW i \in Items, i \in Landed, ScanReaches
  PROVE  Landed \ {i} \subseteq Scanned(i)
<1> PICK n \in Nat : n = Len(created)
  BY DEF LinkingTypes
<1>1. DOMAIN created = 1..n
  BY DEF LinkingTypes
<1>2. PICK k \in 1..n : created[k] = i
  BY <1>1 DEF Landed, Range
<1>3. ASSUME NEW m \in 1..n, created[m] # i
      PROVE  Cardinality(Younger(i, m)) < ScanLimit
  <2>1. IsFiniteSet(1..n) /\ Cardinality(1..n) = n
    <3>1. 1 \in Int /\ n \in Int
      OBVIOUS
    <3>2. IsFiniteSet(1..n) /\ Cardinality(1..n) = IF 1 > n THEN 0 ELSE n - 1 + 1
      BY <3>1, FS_Interval
    <3>3. ~(1 > n) /\ n - 1 + 1 = n
      BY <1>3
    <3> QED BY <3>2, <3>3
  <2>2. /\ IsFiniteSet((1..n) \ {k}) /\ Cardinality((1..n) \ {k}) = n - 1
        /\ m \in (1..n) \ {k}
    BY <1>2, <1>3, <2>1, FS_RemoveElement, ZenonT(30)
  <2> DEFINE rest == ((1..n) \ {k}) \ {m}
  <2>3. IsFiniteSet(rest) /\ Cardinality(rest) = n - 2
    <3>1. IsFiniteSet(rest) /\ Cardinality(rest) = Cardinality((1..n) \ {k}) - 1
      BY <2>2, FS_RemoveElement
    <3> QED BY <2>2, <3>1
  <2>4. Younger(i, m) \subseteq rest
    BY <1>2 DEF Younger
  <2>5. Cardinality(Younger(i, m)) <= n - 2 /\ Cardinality(Younger(i, m)) \in Nat
    BY <2>3, <2>4, FS_Subset, FS_CardinalityType
  <2>6. n <= ScanLimit + 1 /\ ScanLimit \in Nat
    BY LinkingAssumption DEF ScanReaches
  <2> QED BY <2>5, <2>6
<1> QED BY <1>1, <1>3 DEF Scanned, Landed, Range

(* A workflow moves, and what has landed stays as it is. *)
LEMMA FlowMoves ==
  ASSUME LinkingInv, NEW i \in Items, NEW t \in FlowStates, flow' = [flow EXCEPT ![i] = t],
         links \subseteq links', notes' \subseteq Notes, UNCHANGED <<created, delivery, present>>,
         flow[i].pc # "none",
         ScanReaches /\ t.pc \in {"gathering", "judging", "writing"} => Owed(i) \subseteq t.matches,
         ScanReaches /\ t.pc = "done" => \A j \in Owed(i) : Linked(i, EntityNode(j))'
  PROVE  LinkingInv'
<1>1. flow' \in [Items -> FlowStates] /\ flow'[i] = t /\ \A j \in Items : j # i => flow'[j] = flow[j]
  BY DEF LinkingInv, LinkingTypes
<1>2. \A j, node : Linked(j, node) => Linked(j, node)'
  BY DEF Linked
<1>3. ScanReaches' = ScanReaches /\ Landed' = Landed /\ \A j : Owed(j)' = Owed(j)
  BY DEF ScanReaches, Landed, Owed
<1>4. ASSUME NEW j \in Items PROVE FlowInv(j)'
  <2>1. CASE j = i
    BY <1>1, <1>3, <2>1 DEF LinkingInv, FlowInv
  <2>2. CASE j # i
    BY <1>1, <1>2, <1>3, <2>2 DEF LinkingInv, FlowInv
  <2> QED BY <2>1, <2>2
<1> QED BY <1>1, <1>4 DEF LinkingInv, LinkingTypes

(* A request moves. *)
LEMMA DeliveryMoves ==
  ASSUME LinkingInv, NEW d \in DOMAIN Deliveries, NEW t \in DeliveryStates,
         delivery' = [delivery EXCEPT ![d] = t], UNCHANGED <<created, notes, links, flow, present>>
  PROVE  LinkingInv'
<1>1. delivery' \in [DOMAIN Deliveries -> DeliveryStates]
  BY DEF LinkingInv, LinkingTypes
<1> QED BY <1>1 DEF LinkingInv, LinkingTypes, FlowInv, ScanReaches, Landed, Owed, Linked

LEMMA LinkingStep ==
  ASSUME LinkingInv, LinkingNext
  PROVE  LinkingInv'
<1>1. ASSUME NEW d \in DOMAIN Deliveries,
             Receives(d) \/ Routes(d) \/ DeliveryFails(d) \/ Answers(d)
      PROVE  LinkingInv'
  <2>1. delivery[d] \in DeliveryStates /\ Answered \in DeliveryStates
    BY DEF LinkingInv, LinkingTypes, Answered, NoRequest, DeliveryStates
  <2>2. PICK t \in DeliveryStates : delivery' = [delivery EXCEPT ![d] = t]
    <3>1. CASE delivery' = [delivery EXCEPT ![d] = Answered]
      BY <2>1, <3>1
    <3>2. ASSUME NEW pc \in {"landing", "failed"}, delivery' = [delivery EXCEPT ![d].pc = pc]
          PROVE  \E t \in DeliveryStates : delivery' = [delivery EXCEPT ![d] = t]
      BY <2>1, <3>2 DEF DeliveryStates
    <3>3. CASE delivery' = [delivery EXCEPT ![d] = [pc |-> "verified", at |-> 1, tries |-> @.tries + 1]]
      <4>1. [pc |-> "verified", at |-> 1, tries |-> delivery[d].tries + 1] \in DeliveryStates
        BY <2>1 DEF DeliveryStates
      <4> QED BY <3>3, <4>1
    <3> QED BY <1>1, <3>1, <3>2, <3>3 DEF Receives, Routes, DeliveryFails, Answers
  <2>3. UNCHANGED <<created, notes, links, flow, present>>
    BY <1>1 DEF Receives, Routes, DeliveryFails, Answers
  <2> QED BY <2>2, <2>3, DeliveryMoves
<1>2. ASSUME NEW d \in DOMAIN Deliveries, LandsNext(d)
      PROVE  LinkingInv'
  <2>1. delivery[d] \in DeliveryStates /\ delivery[d].at \in 1..Len(Deliveries[d])
    BY <1>2, LinkingAssumption DEF LandsNext, LinkingInv, LinkingTypes, DeliveryStates
  <2> DEFINE t == [delivery[d] EXCEPT !.at = delivery[d].at + 1]
  <2>2. t \in DeliveryStates /\ delivery' = [delivery EXCEPT ![d] = t]
    <3>1. delivery' = [delivery EXCEPT ![d].at = delivery[d].at + 1]
      BY <1>2 DEF LandsNext
    <3>2. delivery[d].at + 1 \in Nat \ {0}
      BY <2>1 DEF DeliveryStates
    <3> QED BY <2>1, <3>1, <3>2 DEF DeliveryStates
  <2> HIDE DEF t
  <2>3. delivery' \in [DOMAIN Deliveries -> DeliveryStates]
    BY <2>2 DEF LinkingInv, LinkingTypes
  <2>4. PICK i \in Items : i = Deliveries[d][delivery[d].at]
    BY <2>1, LinkingAssumption
  <2>5. CASE i \in Landed
    <3>1. UNCHANGED <<created, notes, links, flow, present>>
      BY <1>2, <2>4, <2>5 DEF LandsNext
    <3> QED BY <2>2, <3>1, DeliveryMoves
  <2>6. CASE i \notin Landed
    <3>1. created' = Append(created, i) /\ present' = [present EXCEPT ![i] = Landed]
          /\ UNCHANGED <<notes, links>>
      BY <1>2, <2>4, <2>6 DEF LandsNext
    <3>2. PICK f \in {flow[i], [NoFlow EXCEPT !.pc = "queued"]} : flow' = [flow EXCEPT ![i] = f]
      <4>1. CASE UNCHANGED flow
        BY <4>1 DEF LinkingInv, LinkingTypes
      <4> QED BY <1>2, <2>4, <2>6, <4>1 DEF LandsNext
    <3>3. flow[i].pc = "none" /\ f \in FlowStates /\ f.pc \in {"none", "queued"}
      <4>1. flow[i].pc = "none" /\ flow[i] \in FlowStates
        BY <2>6 DEF LinkingInv, LinkingTypes, FlowInv
      <4>2. [NoFlow EXCEPT !.pc = "queued"] \in FlowStates /\ [NoFlow EXCEPT !.pc = "queued"].pc = "queued"
        BY DEF NoFlow, FlowStates
      <4> QED BY <4>1, <4>2
    <3>4. /\ created' \in Seq(Items) /\ Landed' = Landed \cup {i} /\ Landed \subseteq Items
          /\ ScanReaches' => ScanReaches
      <4> PICK n \in Nat : n = Len(created) /\ DOMAIN created = 1..n /\ created \in Seq(Items)
        BY DEF LinkingInv, LinkingTypes
      <4>1. created' \in Seq(Items) /\ Len(created') = n + 1 /\ created'[n + 1] = i
            /\ \A m \in 1..n : created'[m] = created[m]
        BY <3>1
      <4>2. DOMAIN created' = (1..n) \cup {n + 1}
        BY <4>1
      <4>3. Landed' = Landed \cup {i}
        BY <4>1, <4>2 DEF Landed, Range
      <4>4. Landed \subseteq Items
        BY DEF Landed, Range
      <4> QED BY <4>1, <4>3, <4>4, LinkingAssumption DEF ScanReaches
    <3>5. flow' \in [Items -> FlowStates] /\ present' \in [Items -> SUBSET Items]
      BY <3>1, <3>2, <3>3, <3>4 DEF LinkingInv, LinkingTypes
    <3>6. ASSUME NEW j \in Items PROVE FlowInv(j)'
      <4>1. CASE j = i
        <5>1. flow'[i].pc \in {"none", "queued"} /\ present'[i] = Landed
          BY <3>1, <3>2, <3>3 DEF LinkingInv, LinkingTypes
        <5> QED BY <3>4, <4>1, <5>1 DEF FlowInv
      <4>2. CASE j # i
        <5>1. flow'[j] = flow[j] /\ present'[j] = present[j]
          BY <3>1, <3>2, <4>2 DEF LinkingInv, LinkingTypes
        <5> QED BY <3>1, <3>4, <5>1 DEF LinkingInv, FlowInv, Owed, Linked
      <4> QED BY <4>1, <4>2
    <3> QED BY <2>3, <3>1, <3>4, <3>5, <3>6 DEF LinkingInv, LinkingTypes
  <2> QED BY <2>5, <2>6
<1>3. ASSUME NEW i \in Items, Extracts(i)
      PROVE  LinkingInv'
  BY <1>3 DEF Extracts, LinkingInv, LinkingTypes, FlowInv, ScanReaches, Landed, Owed, Linked
<1>4. ASSUME NEW i \in Items
      PROVE  flow[i] \in FlowStates /\ NoFlow \in FlowStates /\ FlowInv(i)
  BY DEF LinkingInv, LinkingTypes, NoFlow, FlowStates
<1>5. ASSUME NEW i \in Items, Attempt(i)
      PROVE  LinkingInv'
  <2> DEFINE t == [NoFlow EXCEPT !.pc = "loading", !.attempts = flow[i].attempts + 1]
  <2>1. t \in FlowStates /\ t.pc = "loading"
    <3>1. flow[i].attempts + 1 \in Nat
      BY <1>4 DEF FlowStates
    <3> QED BY <3>1 DEF FlowStates, NoFlow
  <2>2. /\ flow' = [flow EXCEPT ![i] = t] /\ flow[i].pc # "none"
        /\ UNCHANGED <<created, notes, links, delivery, present>>
    BY <1>5 DEF Attempt, At
  <2> HIDE DEF t
  <2> QED BY <2>1, <2>2, FlowMoves DEF LinkingInv, LinkingTypes
<1>6. ASSUME NEW i \in Items, Loads(i)
      PROVE  LinkingInv'
  <2> DEFINE t == [flow[i] EXCEPT !.pc = "gathering", !.matches = Scanned(i) \cap Mentions[i]]
  <2>1. Scanned(i) \cap Mentions[i] \subseteq Items
    BY LinkingAssumption
  <2>2. t \in FlowStates /\ t.pc = "gathering" /\ t.matches = Scanned(i) \cap Mentions[i]
    <3>1. flow[i] \in FlowStates
      BY <1>4
    <3> QED BY <3>1, <2>1 DEF FlowStates
  <2>3. /\ flow' = [flow EXCEPT ![i] = t] /\ flow[i].pc = "loading"
        /\ UNCHANGED <<created, notes, links, delivery, present>>
    BY <1>6 DEF Loads, At
  <2> HIDE DEF t
  <2>4. ScanReaches => Owed(i) \subseteq t.matches
    BY <1>4, <2>2, <2>3, ScanFindsAll DEF LinkingInv, FlowInv, Owed
  <2> QED BY <2>2, <2>3, <2>4, FlowMoves DEF LinkingInv, LinkingTypes
<1>7. ASSUME NEW i \in Items, NEW pc \in {"judging", "writing"}, NEW t \in FlowStates, t.pc = pc,
             t.matches = flow[i].matches, flow[i].pc \in {"gathering", "judging"},
             flow' = [flow EXCEPT ![i] = t], UNCHANGED <<created, notes, links, delivery, present>>
      PROVE  LinkingInv'
  BY <1>4, <1>7, FlowMoves DEF LinkingInv, LinkingTypes, FlowInv
<1>8. ASSUME NEW i \in Items, Gathers(i)
      PROVE  LinkingInv'
  <2> DEFINE nodes(near) == {FactNode(f) : f \in {g \in notes : g.source \in near}}
                            \cup {EntityNode(j) : j \in near}
  <2> PICK near \in SUBSET (Landed \ {i}) :
        \E offered \in SUBSET nodes(near) :
          flow' = [flow EXCEPT ![i].offered = offered,
                               ![i].pc = IF offered = {} THEN "writing" ELSE "judging"]
    BY <1>8 DEF Gathers
  <2> PICK offered \in SUBSET nodes(near) :
        flow' = [flow EXCEPT ![i].offered = offered,
                             ![i].pc = IF offered = {} THEN "writing" ELSE "judging"]
    OBVIOUS
  <2>1. offered \subseteq AllNodes
    <3>1. Landed \subseteq Items /\ notes \subseteq Notes
      BY DEF LinkingInv, LinkingTypes, Landed, Range
    <3> QED BY <3>1 DEF AllNodes
  <2> DEFINE pc == IF offered = {} THEN "writing" ELSE "judging"
  <2> DEFINE t == [flow[i] EXCEPT !.offered = offered, !.pc = pc]
  <2>2. t \in FlowStates /\ t.pc = pc /\ t.matches = flow[i].matches
    <3>1. flow[i] \in FlowStates
      BY <1>4
    <3>2. pc \in {"judging", "writing"}
      OBVIOUS
    <3> HIDE DEF pc
    <3> QED BY <3>1, <3>2, <2>1 DEF FlowStates
  <2>3. flow' = [flow EXCEPT ![i] = t]
    OBVIOUS
  <2>4. flow[i].pc = "gathering" /\ UNCHANGED <<created, notes, links, delivery, present>>
    BY <1>8 DEF Gathers, At
  <2> HIDE DEF t
  <2> QED BY <1>7, <2>2, <2>3, <2>4
<1>9. ASSUME NEW i \in Items, Judges(i)
      PROVE  LinkingInv'
  <2> PICK chosen \in SUBSET AllNodes : flow' = [flow EXCEPT ![i].pc = "writing", ![i].chosen = chosen]
    BY <1>9 DEF Judges
  <2> DEFINE t == [flow[i] EXCEPT !.pc = "writing", !.chosen = chosen]
  <2>1. t \in FlowStates /\ t.pc = "writing" /\ t.matches = flow[i].matches
    <3>1. flow[i] \in FlowStates
      BY <1>4
    <3> QED BY <3>1 DEF FlowStates
  <2>2. flow' = [flow EXCEPT ![i] = t]
    OBVIOUS
  <2>3. flow[i].pc = "judging" /\ UNCHANGED <<created, notes, links, delivery, present>>
    BY <1>9 DEF Judges, At
  <2> HIDE DEF t
  <2> QED BY <1>7, <2>1, <2>2, <2>3
<1>10. ASSUME NEW i \in Items, JudgmentFails(i)
       PROVE  LinkingInv'
  <2> DEFINE t == [flow[i] EXCEPT !.pc = "writing"]
  <2>1. t \in FlowStates /\ t.pc = "writing" /\ t.matches = flow[i].matches
    BY <1>4 DEF FlowStates
  <2>2. /\ flow' = [flow EXCEPT ![i] = t] /\ flow[i].pc = "judging"
        /\ UNCHANGED <<created, notes, links, delivery, present>>
    BY <1>10 DEF JudgmentFails, WithoutJudgment, At
  <2> HIDE DEF t
  <2> QED BY <1>7, <2>1, <2>2
<1>11. ASSUME NEW i \in Items, Writes(i)
       PROVE  LinkingInv'
  <2> PICK pc \in {"done", "retry"} :
        flow' = [flow EXCEPT ![i] = [NoFlow EXCEPT !.pc = pc, !.attempts = flow[i].attempts]]
    BY <1>11 DEF Writes
  <2> DEFINE t == [NoFlow EXCEPT !.pc = pc, !.attempts = flow[i].attempts]
  <2>1. t \in FlowStates /\ t.pc = pc
    BY <1>4 DEF FlowStates, NoFlow
  <2>2. flow' = [flow EXCEPT ![i] = t]
    OBVIOUS
  <2> HIDE DEF t
  <2>3. links \subseteq links' /\ \A j \in flow[i].matches : Linked(i, EntityNode(j))'
    <3>1. links \subseteq links'
      BY <1>11 DEF Writes
    <3>2. ASSUME NEW j \in flow[i].matches, ~Linked(i, EntityNode(j))
          PROVE  [from |-> i, to |-> EntityNode(j), confidence |-> "none"] \in links'
      BY <1>11, <3>2 DEF Writes
    <3>3. ASSUME NEW j \in flow[i].matches PROVE \E e \in links' : e.from = i /\ e.to = EntityNode(j)
      <4>1. CASE Linked(i, EntityNode(j))
        BY <3>1, <4>1 DEF Linked
      <4>2. CASE ~Linked(i, EntityNode(j))
        BY <3>2, <4>2
      <4> QED BY <4>1, <4>2
    <3> QED BY <3>1, <3>3 DEF Linked
  <2>4. ScanReaches => \A j \in Owed(i) : Linked(i, EntityNode(j))'
    BY <1>4, <1>11, <2>3 DEF Writes, At, FlowInv
  <2>5. flow[i].pc = "writing" /\ UNCHANGED <<created, notes, delivery, present>>
    BY <1>11 DEF Writes, At
  <2> QED BY <2>1, <2>2, <2>3, <2>4, <2>5, FlowMoves DEF LinkingInv, LinkingTypes
<1>12. ASSUME NEW i \in Items, AttemptFails(i)
       PROVE  LinkingInv'
  <2> PICK pc \in {"queued", "failed"} :
        pc = IF flow[i].attempts < MaxAttempts THEN "queued" ELSE "failed"
    OBVIOUS
  <2> DEFINE t == [NoFlow EXCEPT !.attempts = flow[i].attempts, !.pc = pc]
  <2>1. t \in FlowStates /\ t.pc = pc
    BY <1>4 DEF FlowStates, NoFlow
  <2>2. /\ flow' = [flow EXCEPT ![i] = t] /\ flow[i].pc # "none"
        /\ UNCHANGED <<created, notes, links, delivery, present>>
    BY <1>12 DEF AttemptFails
  <2> HIDE DEF t
  <2> QED BY <2>1, <2>2, FlowMoves DEF LinkingInv, LinkingTypes
<1> QED BY <1>1, <1>2, <1>3, <1>5, <1>6, <1>8, <1>9, <1>10, <1>11, <1>12 DEF LinkingNext

LEMMA LinkingInvariant == LinkingSpec => []LinkingInv
<1>1. LinkingInit => LinkingInv
  <2> SUFFICES ASSUME LinkingInit PROVE LinkingInv
    OBVIOUS
  <2>1. NoFlow \in FlowStates /\ NoRequest \in DeliveryStates /\ NoFlow.pc = "none"
    BY DEF NoFlow, FlowStates, NoRequest, DeliveryStates
  <2>2. created \in Seq(Items) /\ \A i \in Items : present[i] = {}
    BY DEF LinkingInit
  <2> QED BY <2>1, <2>2 DEF LinkingInit, LinkingInv, LinkingTypes, FlowInv
<1>2. LinkingInv /\ [LinkingNext]_linkingVars => LinkingInv'
  <2> SUFFICES ASSUME LinkingInv, UNCHANGED linkingVars PROVE LinkingInv'
    BY LinkingStep
  <2> QED BY DEF linkingVars, LinkingInv, LinkingTypes, FlowInv, ScanReaches, Landed, Owed, Linked
<1> QED BY <1>1, <1>2, PTL DEF LinkingSpec

(* A workflow that completed has linked every work item that its text names and
   that was there before its own, as long as the scan reaches that far back:
   whatever attempts died, deliveries were repeated, starts were lost and
   judgments failed. *)
THEOREM CompletedLinked == LinkingSpec => []CompletedLinksMentions
<1>1. LinkingInv => CompletedLinksMentions
  BY DEF LinkingInv, FlowInv, CompletedLinksMentions, ScanReaches, Owed
<1> QED BY <1>1, LinkingInvariant, PTL

(* What an attempt is about to write is named by the text of its item, or was
   approved for it. *)
GroundedInv ==
  /\ EdgesJustified
  /\ \A i \in Items : /\ flow[i].matches \subseteq Mentions[i] \ {i}
                      /\ \A node \in flow[i].chosen : <<i, node>> \in approved

(* An agentic edge rests on an identifier in the text of its item, or on a judgment
   that approved its node after it was offered. *)
THEOREM EdgesAreJustified == LinkingSpec => []EdgesJustified
<1>1. LinkingInit => GroundedInv
  BY DEF LinkingInit, GroundedInv, EdgesJustified, NoFlow
<1>2. LinkingInv /\ GroundedInv /\ [LinkingNext]_linkingVars => GroundedInv'
  <2> SUFFICES ASSUME LinkingInv, GroundedInv, [LinkingNext]_linkingVars
               PROVE  GroundedInv'
    OBVIOUS
  <2>1. flow \in [Items -> FlowStates] /\ \A i \in Items : flow[i] \in FlowStates
    BY DEF LinkingInv, LinkingTypes
  <2>2. ASSUME UNCHANGED <<links, flow, approved>> PROVE GroundedInv'
    BY <2>2 DEF GroundedInv, EdgesJustified
  <2>3. ASSUME NEW i \in Items, NEW t \in FlowStates, flow' = [flow EXCEPT ![i] = t],
               UNCHANGED links, approved \subseteq approved', t.matches \subseteq Mentions[i] \ {i},
               \A node \in t.chosen : <<i, node>> \in approved'
        PROVE  GroundedInv'
    <3>1. \A j \in Items : flow'[j] = IF j = i THEN t ELSE flow[j]
      BY <2>1, <2>3
    <3>2. EdgesJustified'
      BY <2>3 DEF GroundedInv, EdgesJustified
    <3> QED BY <2>3, <3>1, <3>2 DEF GroundedInv
  <2>5. ASSUME NEW d \in DOMAIN Deliveries, LandsNext(d) PROVE GroundedInv'
    <3>1. CASE UNCHANGED flow
      BY <2>2, <2>5, <3>1 DEF LandsNext
    <3>2. CASE ~UNCHANGED flow
      <4>1. PICK i \in Items : flow' = [flow EXCEPT ![i] = [NoFlow EXCEPT !.pc = "queued"]]
        <5>1. Deliveries[d][delivery[d].at] \in Items
          <6>1. delivery[d].at \in Nat \ {0} /\ Deliveries[d] \in Seq(Items)
            BY LinkingAssumption DEF LinkingInv, LinkingTypes, DeliveryStates
          <6> QED BY <2>5, <6>1 DEF LandsNext
        <5> QED BY <2>5, <3>2, <5>1 DEF LandsNext
      <4>2. [NoFlow EXCEPT !.pc = "queued"] = [pc |-> "queued", attempts |-> 0, matches |-> {}, offered |-> {}, chosen |-> {}]
        BY DEF NoFlow
      <4>3. [NoFlow EXCEPT !.pc = "queued"] \in FlowStates
        BY <4>2 DEF FlowStates
      <4> QED BY <2>3, <2>5, <4>1, <4>2, <4>3 DEF LandsNext
    <3> QED BY <3>1, <3>2
  <2>6. ASSUME NEW i \in Items, NEW pc \in {"queued", "loading", "done", "retry", "failed"}, NEW n \in Nat,
               NEW t, t = [NoFlow EXCEPT !.pc = pc, !.attempts = n]
        PROVE  t \in FlowStates /\ t.matches = {} /\ t.chosen = {}
    BY <2>6 DEF NoFlow, FlowStates
  <2>7. ASSUME NEW i \in Items, Attempt(i) PROVE GroundedInv'
    <3> DEFINE t == [NoFlow EXCEPT !.pc = "loading", !.attempts = flow[i].attempts + 1]
    <3>1. flow[i].attempts + 1 \in Nat
      BY <2>1 DEF FlowStates
    <3>2. t \in FlowStates /\ t.matches = {} /\ t.chosen = {}
      BY <2>6, <3>1
    <3>3. flow' = [flow EXCEPT ![i] = t] /\ UNCHANGED <<links, approved>>
      BY <2>7 DEF Attempt
    <3> HIDE DEF t
    <3> QED BY <2>3, <3>2, <3>3
  <2>8. ASSUME NEW i \in Items, Loads(i) PROVE GroundedInv'
    <3> DEFINE t == [flow[i] EXCEPT !.pc = "gathering", !.matches = Scanned(i) \cap Mentions[i]]
    <3>1. Mentions[i] \subseteq Items /\ Scanned(i) \cap Mentions[i] \subseteq Mentions[i] \ {i}
      BY LinkingAssumption DEF Scanned
    <3>2. t \in FlowStates /\ t.matches = Scanned(i) \cap Mentions[i] /\ t.chosen = flow[i].chosen
      <4>1. flow[i] \in FlowStates
        BY <2>1
      <4> QED BY <3>1, <4>1 DEF FlowStates
    <3>3. flow' = [flow EXCEPT ![i] = t] /\ UNCHANGED <<links, approved>>
      BY <2>8 DEF Loads
    <3> HIDE DEF t
    <3> QED BY <2>3, <3>1, <3>2, <3>3 DEF GroundedInv
  <2>9. ASSUME NEW i \in Items, Gathers(i) \/ JudgmentFails(i) PROVE GroundedInv'
    <3>1. /\ flow'[i].matches = flow[i].matches /\ flow'[i].chosen = flow[i].chosen
          /\ \A j \in Items : j # i => flow'[j] = flow[j]
          /\ UNCHANGED <<links, approved>>
      <4>1. CASE JudgmentFails(i)
        BY <2>1, <4>1 DEF JudgmentFails, WithoutJudgment, FlowStates
      <4>2. CASE Gathers(i)
        <5>1. PICK offered, pc : flow' = [flow EXCEPT ![i].offered = offered, ![i].pc = pc]
          BY <4>2 DEF Gathers
        <5> QED BY <2>1, <4>2, <5>1 DEF Gathers, FlowStates
      <4> QED BY <2>9, <4>1, <4>2
    <3>2. EdgesJustified'
      BY <3>1 DEF GroundedInv, EdgesJustified
    <3> QED BY <3>1, <3>2 DEF GroundedInv
  <2>10. ASSUME NEW i \in Items, Judges(i) PROVE GroundedInv'
    <3> PICK likely \in SUBSET AllNodes :
          /\ flow' = [flow EXCEPT ![i].pc = "writing", ![i].chosen = {n \in likely : WasOffered(i, n)}]
          /\ approved' = approved \cup {<<i, n>> : n \in likely \cap flow[i].offered}
      BY <2>10 DEF Judges
    <3> DEFINE chosen == {n \in likely : WasOffered(i, n)}
    <3> DEFINE t == [flow[i] EXCEPT !.pc = "writing", !.chosen = chosen]
    <3>1. chosen \subseteq AllNodes /\ \A node \in chosen : <<i, node>> \in approved'
      BY DEF WasOffered
    <3>2. t \in FlowStates /\ t.matches = flow[i].matches /\ t.chosen = chosen
      <4> HIDE DEF chosen
      <4>1. flow[i] \in FlowStates
        BY <2>1
      <4> QED BY <3>1, <4>1 DEF FlowStates
    <3>3. flow' = [flow EXCEPT ![i] = t] /\ approved \subseteq approved' /\ UNCHANGED links
      BY <2>10 DEF Judges
    <3> HIDE DEF t, chosen
    <3> QED BY <2>3, <3>1, <3>2, <3>3 DEF GroundedInv
  <2>11. ASSUME NEW i \in Items, Writes(i) PROVE GroundedInv'
    <3> PICK pc \in {"done", "retry"} :
          flow' = [flow EXCEPT ![i] = [NoFlow EXCEPT !.pc = pc, !.attempts = flow[i].attempts]]
      BY <2>11 DEF Writes
    <3> DEFINE t == [NoFlow EXCEPT !.pc = pc, !.attempts = flow[i].attempts]
    <3>1. flow[i].attempts \in Nat
      BY <2>1 DEF FlowStates
    <3>2. t \in FlowStates /\ t.matches = {} /\ t.chosen = {} /\ flow' = [flow EXCEPT ![i] = t]
      BY <2>6, <3>1
    <3> HIDE DEF t
    <3>3. \A j \in Items : flow'[j] = IF j = i THEN t ELSE flow[j]
      BY <2>1, <3>2
    <3>4. EdgesJustified'
      <4> SUFFICES ASSUME NEW e \in links'
                   PROVE  (IF e.confidence = "none" THEN e.to \in {EntityNode(j) : j \in Mentions[e.from] \ {e.from}}
                           ELSE <<e.from, e.to>> \in approved)'
        BY DEF EdgesJustified
      <4>1. CASE e \in links
        BY <2>11, <4>1 DEF Writes, GroundedInv, EdgesJustified
      <4>2. CASE \E n \in {EntityNode(j) : j \in flow[i].matches} : e = [from |-> i, to |-> n, confidence |-> "none"]
        BY <4>2 DEF GroundedInv
      <4>3. CASE \E n \in flow[i].chosen : e = [from |-> i, to |-> n, confidence |-> "high"]
        BY <2>11, <4>3 DEF Writes, GroundedInv
      <4> QED BY <2>11, <4>1, <4>2, <4>3 DEF Writes
    <3> QED BY <2>11, <3>2, <3>3, <3>4 DEF Writes, GroundedInv
  <2>12. ASSUME NEW i \in Items, AttemptFails(i) PROVE GroundedInv'
    <3> PICK pc \in {"queued", "failed"} : pc = IF flow[i].attempts < MaxAttempts THEN "queued" ELSE "failed"
      OBVIOUS
    <3> DEFINE t == [NoFlow EXCEPT !.pc = pc, !.attempts = flow[i].attempts]
    <3>1. flow[i].attempts \in Nat
      BY <2>1 DEF FlowStates
    <3>2. t \in FlowStates /\ t.matches = {} /\ t.chosen = {}
      BY <2>6, <3>1
    <3>3. t = [NoFlow EXCEPT !.attempts = flow[i].attempts, !.pc = pc]
      BY DEF NoFlow
    <3>4. flow' = [flow EXCEPT ![i] = t] /\ UNCHANGED <<links, approved>>
      BY <2>12, <3>3 DEF AttemptFails
    <3> HIDE DEF t
    <3> QED BY <2>3, <3>2, <3>4
  <2>13. ASSUME NEW d \in DOMAIN Deliveries, Receives(d) \/ Routes(d) \/ DeliveryFails(d) \/ Answers(d)
         PROVE  GroundedInv'
    BY <2>2, <2>13 DEF Receives, Routes, DeliveryFails, Answers
  <2>14. ASSUME NEW i \in Items, Extracts(i) PROVE GroundedInv'
    BY <2>2, <2>14 DEF Extracts
  <2>15. CASE UNCHANGED linkingVars
    BY <2>2, <2>15 DEF linkingVars
  <2> QED BY <2>5, <2>7, <2>8, <2>9, <2>10, <2>11, <2>12, <2>13, <2>14, <2>15 DEF LinkingNext
<1>3. GroundedInv => EdgesJustified
  BY DEF GroundedInv
<1> QED BY <1>1, <1>2, <1>3, LinkingInvariant, PTL DEF LinkingSpec

(***************************************************************************)
(* findMatchCandidates.  The matching that one name's letters take greedily*)
(* in the other is stable: every like pair within the window has a letter  *)
(* that took one no later.  There is one such matching, and it is the same *)
(* seen from either name, which is why the similarity is symmetric.        *)
(***************************************************************************)
PositionPairs(a, b) == (1..Len(a)) \X (1..Len(b))
Like(a, b, i, j) == a[i] = b[j] /\ i - Window(a, b) <= j /\ j <= i + Window(a, b)
Beaten(taken, i, j) == \E p \in taken : (p[1] = i /\ p[2] <= j) \/ (p[2] = j /\ p[1] <= i)

(* What k letters of a have taken. *)
StableUpTo(a, b, k, taken) ==
  /\ taken \in SUBSET PositionPairs(a, b)
  /\ \A p \in taken : p[1] <= k /\ Like(a, b, p[1], p[2])
  /\ \A p, q \in taken : p[1] = q[1] \/ p[2] = q[2] => p = q
  /\ \A i \in 1..Len(a), j \in 1..Len(b) : i <= k /\ Like(a, b, i, j) => Beaten(taken, i, j)
Stable(a, b, taken) == StableUpTo(a, b, Len(a), taken)

LEMMA WindowIsNat ==
  ASSUME NEW a \in Seq(Letters), NEW b \in Seq(Letters)
  PROVE  Window(a, b) \in Nat /\ Window(a, b) = Window(b, a)
<1> DEFINE m == Larger(Len(a), Len(b))
<1>1. Len(a) \in Nat /\ Len(b) \in Nat
  OBVIOUS
<1>2. m \in Nat /\ m = Larger(Len(b), Len(a))
  BY <1>1 DEF Larger
<1> HIDE DEF m
<1>3. m \div 2 \in Nat
  BY <1>2
<1>4. Larger(0, m \div 2 - 1) \in Nat
  BY <1>3 DEF Larger
<1> QED BY <1>2, <1>4 DEF Window, m

LEMMA FreeFacts ==
  ASSUME NEW a \in Seq(Letters), NEW b \in Seq(Letters), NEW i, NEW taken
  PROVE  /\ Free(a, b, i, taken) \subseteq 1..Len(b)
         /\ Free(a, b, i, taken) # {} =>
              /\ Min(Free(a, b, i, taken)) \in Free(a, b, i, taken)
              /\ \A j \in Free(a, b, i, taken) : Min(Free(a, b, i, taken)) <= j
<1> DEFINE free == Free(a, b, i, taken)
<1>1. free \subseteq 1..Len(b) /\ Len(b) \in Nat
  BY DEF Free
<1>2. IsFiniteSet(1..Len(b))
  BY <1>1, FS_Interval
<1> HIDE DEF free
<1>3. IsFiniteSet(free)
  BY <1>1, <1>2, FS_Subset
<1>5. free \in SUBSET Int
  BY <1>1
<1>4. ASSUME free # {} PROVE Min(free) \in free /\ \A j \in free : Min(free) <= j
  <2>1. PICK m \in free : \A j \in free : m <= j
    BY <1>3, <1>4, <1>5, LeastElement
  <2> QED BY <2>1 DEF Min
<1> QED BY <1>1, <1>4 DEF free

LEMMA TakesOne ==
  ASSUME NEW a \in Seq(Letters), NEW b \in Seq(Letters), NEW k \in 0..Len(a), k # Len(a),
         NEW taken, StableUpTo(a, b, k, taken)
  PROVE  StableUpTo(a, b, k + 1, Takes(a, b, k + 1, taken))
<1> DEFINE i == k + 1
           free == Free(a, b, i, taken)
<1>1. Len(a) \in Nat /\ Len(b) \in Nat /\ DOMAIN b = 1..Len(b) /\ i \in 1..Len(a)
  OBVIOUS
<1>2. Window(a, b) \in Nat
  BY WindowIsNat
<1>3. /\ free \subseteq 1..Len(b)
      /\ \A j \in 1..Len(b) : j \in free <=> Like(a, b, i, j) /\ \A p \in taken : p[2] # j
  BY <1>1 DEF Free, Like
<1>4. \A p \in taken : p \in PositionPairs(a, b) /\ p[1] \in 1..Len(a) /\ p[2] \in 1..Len(b) /\ p = <<p[1], p[2]>>
  BY DEF StableUpTo, PositionPairs
<1>5. CASE free = {}
  <2>1. Takes(a, b, i, taken) = taken
    BY <1>5 DEF Takes
  <2>2. ASSUME NEW j \in 1..Len(b), Like(a, b, i, j) PROVE Beaten(taken, i, j)
    <3>1. PICK p \in taken : p[2] = j
      BY <1>3, <1>5, <2>2
    <3>2. p[1] <= i
      BY <1>1, <1>4 DEF StableUpTo
    <3> QED BY <3>1, <3>2 DEF Beaten
  <2>3. ASSUME NEW x \in 1..Len(a), NEW j \in 1..Len(b), x <= i, Like(a, b, x, j) PROVE Beaten(taken, x, j)
    <3>1. CASE x = i
      BY <2>2, <2>3, <3>1
    <3>2. CASE x <= k
      BY <2>3, <3>2 DEF StableUpTo
    <3> QED BY <1>1, <2>3, <3>1, <3>2
  <2>4. \A p \in taken : p[1] <= i
    BY <1>1, <1>4 DEF StableUpTo
  <2> HIDE DEF free, i
  <2> QED BY <2>1, <2>3, <2>4 DEF StableUpTo, i
<1>6. CASE free # {}
  <2>3. Min(free) \in free /\ \A j \in free : Min(free) <= j
    BY <1>6, FreeFacts
  <2> DEFINE n == Min(free)
             now == taken \cup {<<i, n>>}
  <2>4. Takes(a, b, i, taken) = now
    BY <1>6 DEF Takes
  <2> HIDE DEF n
  <2>5. n \in 1..Len(b) /\ Like(a, b, i, n) /\ (\A p \in taken : p[2] # n) /\ \A j \in free : n <= j
    BY <1>3, <2>3 DEF n
  <2>6. \A p \in taken : p[1] <= k /\ p[1] # i
    BY <1>1, <1>4 DEF StableUpTo
  <2> HIDE DEF free, i
  <2>7. now \in SUBSET PositionPairs(a, b)
    BY <1>1, <1>4, <2>5 DEF PositionPairs
  <2>8. \A p \in now : p[1] <= i /\ Like(a, b, p[1], p[2])
    BY <1>1, <1>4, <2>5, <2>6 DEF StableUpTo, i
  <2>9. \A p, q \in now : p[1] = q[1] \/ p[2] = q[2] => p = q
    BY <2>5, <2>6 DEF StableUpTo
  <2>10. ASSUME NEW x \in 1..Len(a), NEW j \in 1..Len(b), x <= i, Like(a, b, x, j) PROVE Beaten(now, x, j)
    <3>1. CASE x = i
      <4>1. CASE j \in free
        <5>1. n <= j /\ <<i, n>> \in now
          BY <2>5, <4>1
        <5> QED BY <3>1, <5>1 DEF Beaten
      <4>2. CASE j \notin free
        <5>1. PICK p \in taken : p[2] = j
          BY <1>3, <2>10, <3>1, <4>2
        <5>2. p[1] <= i
          BY <1>1, <1>4, <2>6 DEF i
        <5> QED BY <3>1, <5>1, <5>2 DEF Beaten
      <4> QED BY <4>1, <4>2
    <3>2. CASE x <= k
      <4>1. Beaten(taken, x, j)
        BY <2>10, <3>2 DEF StableUpTo
      <4> QED BY <4>1 DEF Beaten
    <3> QED BY <1>1, <2>10, <3>1, <3>2 DEF i
  <2> HIDE DEF now
  <2> QED BY <2>4, <2>7, <2>8, <2>9, <2>10 DEF StableUpTo, i
<1> QED BY <1>5, <1>6

LEMMA MatchedIsStable ==
  ASSUME NEW a \in Seq(Letters), NEW b \in Seq(Letters)
  PROVE  Stable(a, b, Matched(a, b))
<1> DEFINE n == Len(a)
           X == SUBSET PositionPairs(a, b)
           Grow(i, s) == Takes(a, b, i, s)
           step == [i \in 1..n |-> [s \in X |-> Grow(i, s)]]
           Iterated(f) == f = [i \in 0..Len(a) |-> IF i = 0 THEN {} ELSE Grow(i, f[i - 1])]
<1>1. n \in Nat
  OBVIOUS
<1>2. ASSUME NEW i \in 1..n, NEW s \in X PROVE Grow(i, s) \in X
  <2>1. CASE Free(a, b, i, s) = {}
    BY <2>1 DEF Takes
  <2>2. CASE Free(a, b, i, s) # {}
    <3>1. Min(Free(a, b, i, s)) \in 1..Len(b)
      BY <2>2, FreeFacts
    <3>2. <<i, Min(Free(a, b, i, s))>> \in PositionPairs(a, b)
      BY <3>1 DEF PositionPairs
    <3>3. Grow(i, s) = s \cup {<<i, Min(Free(a, b, i, s))>>}
      BY <2>2 DEF Takes
    <3> QED BY <3>2, <3>3
  <2> QED BY <2>1, <2>2
<1>3. \E f : Iterated(f)
  <2> HIDE DEF Grow
  <2>1. step \in [1..n -> [X -> X]] /\ {} \in X
    BY <1>2
  <2>2. \A i \in 1..n : \A s \in X : step[i][s] = Grow(i, s)
    OBVIOUS
  <2> HIDE DEF step, X, n
  <2>3. PICK f \in [0..n -> X] : f[0] = {} /\ \A i \in 1..n : f[i] = step[i][f[i - 1]]
    <3>1. Iterable(X, {}, n, step)
      BY <1>1, <2>1, Iterates, Zenon
    <3> QED BY <3>1 DEF Iterable
  <2>4. ASSUME NEW i \in 0..n PROVE f[i] = IF i = 0 THEN {} ELSE Grow(i, f[i - 1])
    <3>1. CASE i = 0
      BY <2>3, <3>1
    <3>2. CASE i # 0
      <4>1. i \in 1..n /\ i - 1 \in 0..n /\ f[i - 1] \in X
        BY <1>1, <3>2
      <4> QED BY <2>2, <2>3, <3>2, <4>1
    <3> QED BY <3>1, <3>2
  <2>5. f = [i \in 0..n |-> IF i = 0 THEN {} ELSE Grow(i, f[i - 1])]
    BY <2>4
  <2> QED BY <2>5 DEF n
<1> DEFINE upTo == CHOOSE f : Iterated(f)
<1>4. Matched(a, b) = upTo[n]
  BY DEF Matched
<1>5. Iterated(upTo)
  <2> HIDE DEF Iterated
  <2> QED BY <1>3
<1> HIDE DEF upTo
<1>6. upTo[0] = {} /\ \A i \in 1..n : upTo[i] = Takes(a, b, i, upTo[i - 1])
  BY <1>1, <1>5
<1> DEFINE S == {k \in 0..n : StableUpTo(a, b, k, upTo[k])}
<1>7. 0 \in S
  BY <1>1, <1>6 DEF StableUpTo
<1>8. ASSUME NEW k \in 0..(n - 1), k \in S PROVE k + 1 \in S
  <2>1. k \in 0..Len(a) /\ k # Len(a) /\ k + 1 \in 1..n /\ (k + 1) - 1 = k
    BY <1>1
  <2>2. StableUpTo(a, b, k + 1, Takes(a, b, k + 1, upTo[k]))
    BY <1>8, <2>1, TakesOne
  <2> QED BY <1>6, <2>1, <2>2
<1>9. n \in S
  <2> HIDE DEF S, n
  <2>1. \A k \in 0..n : k \in S
    BY <1>1, <1>7, <1>8, UpTo
  <2> QED BY <1>1, <2>1
<1> QED BY <1>4, <1>9 DEF Stable

(* Of two stable matchings, the pair with the least sum that only one has would be
   beaten in the other by one with a lesser sum. *)
LEMMA StableIsUnique ==
  ASSUME NEW a \in Seq(Letters), NEW b \in Seq(Letters), NEW M, NEW N,
         Stable(a, b, M), Stable(a, b, N)
  PROVE  M = N
<1> DEFINE Odd == (M \ N) \cup (N \ M)
           S == {p[1] + p[2] : p \in Odd}
<1>1. \A p \in M \cup N : /\ p[1] \in 1..Len(a) /\ p[2] \in 1..Len(b) /\ p = <<p[1], p[2]>>
                         /\ Like(a, b, p[1], p[2])
  BY DEF Stable, StableUpTo, PositionPairs
<1>2. Len(a) \in Nat /\ Len(b) \in Nat
  OBVIOUS
<1>3. ASSUME NEW K, NEW L, Stable(a, b, K), Stable(a, b, L),
             NEW p \in K, p \notin L, p[1] \in 1..Len(a), p[2] \in 1..Len(b), Like(a, b, p[1], p[2]),
             \A q \in L : q[1] \in 1..Len(a) /\ q[2] \in 1..Len(b) /\ q = <<q[1], q[2]>>,
             p = <<p[1], p[2]>>
      PROVE  \E q \in L \ K : q[1] + q[2] < p[1] + p[2]
  <2>1. PICK q \in L : (q[1] = p[1] /\ q[2] <= p[2]) \/ (q[2] = p[2] /\ q[1] <= p[1])
    BY <1>2, <1>3 DEF Stable, StableUpTo, Beaten
  <2>2. q # p
    BY <1>3
  <2>3. q \notin K
    BY <1>3, <2>1, <2>2 DEF Stable, StableUpTo
  <2>4. q[1] # p[1] \/ q[2] # p[2]
    BY <1>3, <2>2
  <2>5. q[1] \in Nat /\ q[2] \in Nat /\ p[1] \in Nat /\ p[2] \in Nat
    BY <1>2, <1>3
  <2> QED BY <2>1, <2>3, <2>4, <2>5
<1> SUFFICES ASSUME Odd # {} PROVE FALSE
  OBVIOUS
<1>4. S \in SUBSET Nat /\ S # {}
  BY <1>1, <1>2
<1>5. PICK n \in S : \A m \in S : n <= m
  <2> HIDE DEF S
  <2> QED BY <1>4, LeastNatural
<1>6. PICK p \in Odd : n = p[1] + p[2]
  OBVIOUS
<1>7. \E q \in Odd : q[1] + q[2] < n
  <2>1. CASE p \in M
    <3>1. \E q \in N \ M : q[1] + q[2] < p[1] + p[2]
      BY <1>1, <1>3, <1>6, <2>1
    <3> QED BY <1>6, <3>1
  <2>2. CASE p \in N
    <3>1. \E q \in M \ N : q[1] + q[2] < p[1] + p[2]
      BY <1>1, <1>3, <1>6, <2>2
    <3> QED BY <1>6, <3>1
  <2> QED BY <2>1, <2>2
<1>8. PICK q \in Odd : q[1] + q[2] < n
  BY <1>7
<1>9. q[1] + q[2] \in S
  OBVIOUS
<1>10. n \in Nat /\ q[1] + q[2] \in Nat /\ n <= q[1] + q[2]
  <2> HIDE DEF S, Odd
  <2> QED BY <1>4, <1>5, <1>9
<1> DEFINE m == q[1] + q[2]
<1>11. m < n /\ m \in Nat /\ n \in Nat /\ n <= m
  BY <1>8, <1>10
<1> HIDE DEF m
<1> QED BY <1>11

Turned(taken) == {<<p[2], p[1]>> : p \in taken}

LEMMA TurnedIsStable ==
  ASSUME NEW a \in Seq(Letters), NEW b \in Seq(Letters), NEW M, Stable(a, b, M)
  PROVE  Stable(b, a, Turned(M))
<1>1. \A p \in M : /\ p[1] \in 1..Len(a) /\ p[2] \in 1..Len(b) /\ p = <<p[1], p[2]>>
                  /\ Like(a, b, p[1], p[2])
  BY DEF Stable, StableUpTo, PositionPairs
<1>2. Len(a) \in Nat /\ Len(b) \in Nat /\ Window(a, b) \in Nat /\ Window(a, b) = Window(b, a)
  BY WindowIsNat
<1>3. \A i \in 1..Len(a), j \in 1..Len(b) : Like(a, b, i, j) <=> Like(b, a, j, i)
  BY <1>2 DEF Like
<1>4. ASSUME NEW q \in Turned(M)
      PROVE  /\ <<q[2], q[1]>> \in M /\ q = <<q[1], q[2]>>
             /\ q[1] \in 1..Len(b) /\ q[2] \in 1..Len(a) /\ Like(b, a, q[1], q[2])
  <2>1. PICK p \in M : q = <<p[2], p[1]>>
    BY DEF Turned
  <2> QED BY <1>1, <1>3, <2>1
<1>5. Turned(M) \in SUBSET PositionPairs(b, a) /\ \A q \in Turned(M) : q[1] <= Len(b)
  <2>1. ASSUME NEW q \in Turned(M) PROVE q \in PositionPairs(b, a) /\ q[1] <= Len(b)
    <3>1. q[1] <= Len(b)
      <4> DEFINE j == q[1]
                 n == Len(b)
      <4>1. j \in 1..n /\ n \in Nat
        BY <1>2, <1>4
      <4> HIDE DEF j, n
      <4>2. j <= n
        BY <4>1
      <4> QED BY <4>2 DEF j, n
    <3>2. <<q[1], q[2]>> \in PositionPairs(b, a)
      BY <1>4 DEF PositionPairs
    <3>3. q = <<q[1], q[2]>>
      BY <1>4
    <3> QED BY <3>1, <3>2, <3>3, Zenon
  <2> QED BY <2>1
<1>6. ASSUME NEW p \in Turned(M), NEW q \in Turned(M), p[1] = q[1] \/ p[2] = q[2] PROVE p = q
  <2>1. <<p[2], p[1]>> = <<q[2], q[1]>>
    BY <1>4, <1>6 DEF Stable, StableUpTo
  <2> QED BY <1>4, <2>1
<1>7. ASSUME NEW i \in 1..Len(b), NEW j \in 1..Len(a), Like(b, a, i, j) PROVE Beaten(Turned(M), i, j)
  <2>1. j <= Len(a) /\ Like(a, b, j, i)
    BY <1>2, <1>3, <1>7
  <2>2. PICK p \in M : (p[1] = j /\ p[2] <= i) \/ (p[2] = i /\ p[1] <= j)
    BY <2>1 DEF Stable, StableUpTo, Beaten
  <2>3. <<p[2], p[1]>> \in Turned(M)
    BY DEF Turned
  <2> QED BY <2>2, <2>3 DEF Beaten
<1> QED BY <1>4, <1>5, <1>6, <1>7 DEF Stable, StableUpTo

LEMMA MatchedTurns ==
  ASSUME NEW a \in Seq(Letters), NEW b \in Seq(Letters)
  PROVE  Matched(b, a) = Turned(Matched(a, b))
<1>1. Stable(b, a, Matched(b, a)) /\ Stable(b, a, Turned(Matched(a, b)))
  BY MatchedIsStable, TurnedIsStable
<1> QED BY <1>1, StableIsUnique

LEMMA TurnedHasAsMany ==
  ASSUME NEW M, IsFiniteSet(M), \A p \in M : p = <<p[1], p[2]>>
  PROVE  Cardinality(Turned(M)) = Cardinality(M) /\ IsFiniteSet(Turned(M))
<1> DEFINE f == [p \in M |-> <<p[2], p[1]>>]
           g == [p \in Turned(M) |-> <<p[2], p[1]>>]
<1>1. f \in Surjection(M, Turned(M))
  BY DEF Turned, Surjection
<1>2. IsFiniteSet(Turned(M)) /\ Cardinality(Turned(M)) <= Cardinality(M)
  <2> HIDE DEF f
  <2> QED BY <1>1, FS_Surjection
<1>3. g \in Surjection(Turned(M), M)
  <2>1. ASSUME NEW q \in Turned(M) PROVE g[q] \in M
    <3>1. PICK p \in M : q = <<p[2], p[1]>>
      BY DEF Turned
    <3>2. g[q] = <<p[1], p[2]>>
      BY <3>1
    <3> QED BY <3>2
  <2>2. ASSUME NEW p \in M PROVE \E q \in Turned(M) : g[q] = p
    <3>1. <<p[2], p[1]>> \in Turned(M)
      BY DEF Turned
    <3>2. g[<<p[2], p[1]>>] = <<p[1], p[2]>>
      BY <3>1
    <3> QED BY <3>1, <3>2
  <2>3. g \in [Turned(M) -> M]
    BY <2>1
  <2> HIDE DEF g
  <2> QED BY <2>2, <2>3 DEF Surjection
<1>4. Cardinality(M) <= Cardinality(Turned(M))
  <2> HIDE DEF g
  <2> QED BY <1>2, <1>3, FS_Surjection
<1>5. Cardinality(M) \in Nat /\ Cardinality(Turned(M)) \in Nat
  BY <1>2, FS_CardinalityType
<1> QED BY <1>2, <1>4, <1>5

LEMMA MatchedTyped ==
  ASSUME NEW a \in Seq(Letters), NEW b \in Seq(Letters)
  PROVE  /\ IsFiniteSet(Matched(a, b)) /\ Cardinality(Matched(a, b)) \in Nat
         /\ \A p \in Matched(a, b) : p = <<p[1], p[2]>>
         /\ Cardinality(Matched(a, b)) # 0 => Len(a) > 0 /\ Len(b) > 0
<1>1. Matched(a, b) \subseteq PositionPairs(a, b)
  BY MatchedIsStable DEF Stable, StableUpTo
<1>2. Len(a) \in Nat /\ Len(b) \in Nat
  OBVIOUS
<1>3. IsFiniteSet(1..Len(a)) /\ IsFiniteSet(1..Len(b))
  BY <1>2, FS_Interval
<1>4. IsFiniteSet(PositionPairs(a, b))
  BY <1>3, FS_Product DEF PositionPairs
<1>5. IsFiniteSet(Matched(a, b))
  BY <1>1, <1>4, FS_Subset
<1>6. Cardinality(Matched(a, b)) # 0 => \E p \in Matched(a, b) : TRUE
  BY <1>5, FS_EmptySet
<1>7. \A p \in PositionPairs(a, b) : p = <<p[1], p[2]>> /\ Len(a) > 0 /\ Len(b) > 0
  BY <1>2 DEF PositionPairs
<1> QED BY <1>1, <1>5, <1>6, <1>7, FS_CardinalityType

LEMMA PrefixTyped ==
  ASSUME NEW a \in Seq(Letters), NEW b \in Seq(Letters)
  PROVE  CommonPrefix(a, b) \in 0..4 /\ CommonPrefix(a, b) = CommonPrefix(b, a)
<1> DEFINE S(x, y) == {n \in 0..4 : n <= Len(x) /\ n <= Len(y) /\ SubSeq(x, 1, n) = SubSeq(y, 1, n)}
<1>1. S(a, b) = S(b, a)
  OBVIOUS
<1>2. 0 \in S(a, b)
  <2>1. Len(a) \in Nat /\ Len(b) \in Nat
    OBVIOUS
  <2>2. SubSeq(a, 1, 0) = <<>> /\ SubSeq(b, 1, 0) = <<>>
    OBVIOUS
  <2> QED BY <2>1, <2>2
<1>3. S(a, b) \subseteq 0..4
  OBVIOUS
<1>4. CommonPrefix(a, b) = Max(S(a, b)) /\ CommonPrefix(b, a) = Max(S(b, a))
  BY DEF CommonPrefix
<1> HIDE DEF S
<1>5. IsFiniteSet(0..4)
  <2>1. \A k \in Nat : IsFiniteSet(0..k)
    BY FS_Interval
  <2> QED BY <2>1
<1>6. IsFiniteSet(S(a, b))
  BY <1>3, <1>5, FS_Subset
<1>7. S(a, b) \in SUBSET Int
  BY <1>3
<1>8. PICK n \in S(a, b) : \A m \in S(a, b) : n >= m
  BY <1>2, <1>6, <1>7, GreatestElement
<1>9. Max(S(a, b)) \in S(a, b)
  BY <1>8 DEF Max
<1> QED BY <1>1, <1>3, <1>4, <1>9

LEMMA MisplacedTyped ==
  ASSUME NEW a, NEW b, NEW M, Cardinality(M) \in Nat
  PROVE  Misplaced(a, b, M) \in Nat
<1> DEFINE S == {n \in 1..Cardinality(M) : a[Nth(Left(M), n)] # b[Nth(Right(M), n)]}
<1>1. S \subseteq 1..Cardinality(M)
  OBVIOUS
<1>2. IsFiniteSet(1..Cardinality(M))
  <2> DEFINE k == Cardinality(M)
  <2>1. 1 \in Int /\ k \in Int
    OBVIOUS
  <2> HIDE DEF k
  <2>2. IsFiniteSet(1..k)
    BY <2>1, FS_Interval
  <2> QED BY <2>2 DEF k
<1> HIDE DEF S
<1>3. Cardinality(S) \in Nat
  BY <1>1, <1>2, FS_Subset, FS_CardinalityType
<1> QED BY <1>3 DEF S, Misplaced

(* The similarity is a fraction, and the same from either name. *)
LEMMA SimilaritySymmetric ==
  ASSUME NEW a \in Seq(Letters), NEW b \in Seq(Letters)
  PROVE  JaroWinkler(a, b) = JaroWinkler(b, a)
<1> DEFINE M == Matched(a, b)
<1>1. Matched(b, a) = Turned(M)
  BY MatchedTurns
<1>2. /\ IsFiniteSet(M) /\ Cardinality(M) \in Nat /\ \A p \in M : p = <<p[1], p[2]>>
  BY MatchedTyped
<1> HIDE DEF M
<1>3. Cardinality(Turned(M)) = Cardinality(M)
  BY <1>2, TurnedHasAsMany
<1>4. Left(Turned(M)) = Right(M) /\ Right(Turned(M)) = Left(M)
  <2>1. ASSUME NEW p \in M
        PROVE  /\ <<p[2], p[1]>> \in Turned(M)
               /\ p[2] \in Left(Turned(M)) /\ p[1] \in Right(Turned(M))
    <3>1. <<p[2], p[1]>> \in Turned(M) /\ <<p[2], p[1]>>[1] = p[2] /\ <<p[2], p[1]>>[2] = p[1]
      BY DEF Turned
    <3> QED BY <3>1 DEF Left, Right
  <2>2. ASSUME NEW q \in Turned(M) PROVE q[1] \in Right(M) /\ q[2] \in Left(M)
    <3>1. PICK p \in M : q = <<p[2], p[1]>>
      BY DEF Turned
    <3>2. q[1] = p[2] /\ q[2] = p[1]
      BY <3>1
    <3> QED BY <3>2 DEF Left, Right
  <2>3. Left(Turned(M)) \subseteq Right(M) /\ Right(Turned(M)) \subseteq Left(M)
    BY <2>2 DEF Left, Right
  <2>4. Right(M) \subseteq Left(Turned(M)) /\ Left(M) \subseteq Right(Turned(M))
    BY <2>1 DEF Left, Right
  <2> QED BY <2>3, <2>4
<1>5. Misplaced(b, a, Turned(M)) = Misplaced(a, b, M)
  <2>1. {n \in 1..Cardinality(M) : b[Nth(Right(M), n)] # a[Nth(Left(M), n)]}
          = {n \in 1..Cardinality(M) : a[Nth(Left(M), n)] # b[Nth(Right(M), n)]}
    OBVIOUS
  <2> QED BY <1>3, <1>4, <2>1 DEF Misplaced
<1>6. CommonPrefix(a, b) = CommonPrefix(b, a)
  BY PrefixTyped
<1> DEFINE x == Len(a)
           y == Len(b)
           m == Cardinality(M)
           t == Misplaced(a, b, M)
           c == CommonPrefix(a, b)
           den(v, w) == 6 * v * w * m
           num(v, w) == 2 * m * m * (v + w) + v * w * (2 * m - t)
           Score(v, w) == IF a = b THEN [num |-> 1, den |-> 1]
                          ELSE IF m = 0 THEN [num |-> 0, den |-> 1]
                          ELSE [num |-> 10 * num(v, w) + c * (den(v, w) - num(v, w)), den |-> 10 * den(v, w)]
<1>7. JaroWinkler(a, b) = Score(x, y) /\ JaroWinkler(b, a) = Score(y, x)
  <2>1. JaroWinkler(a, b) = Score(x, y)
    BY DEF JaroWinkler, M
  <2>2. Cardinality(Turned(M)) = m /\ Misplaced(b, a, Turned(M)) = t /\ CommonPrefix(b, a) = c
    BY <1>3, <1>5, <1>6
  <2>3. JaroWinkler(b, a) = Score(y, x)
    <3> HIDE DEF x, y, m, t, c
    <3> QED BY <1>1, <2>2, Zenon DEF JaroWinkler, x, y
  <2> QED BY <2>1, <2>3
<1>8. x \in Nat /\ y \in Nat /\ m \in Nat /\ t \in Nat
  BY <1>2, MisplacedTyped
<1> HIDE DEF x, y, m, t, c
<1>9. x * y = y * x /\ x + y = y + x
  BY <1>8
<1>10. den(x, y) = den(y, x)
  BY <1>8
<1>11. num(x, y) = num(y, x)
  BY <1>8, <1>9
<1> HIDE DEF den, num
<1> QED BY <1>7, <1>10, <1>11

LEMMA SimilarityTyped ==
  ASSUME NEW a \in Seq(Letters), NEW b \in Seq(Letters)
  PROVE  JaroWinkler(a, b).num \in Int /\ JaroWinkler(a, b).den \in Nat \ {0}
<1> DEFINE m == Cardinality(Matched(a, b))
           t == Misplaced(a, b, Matched(a, b))
           c == CommonPrefix(a, b)
           x == Len(a)
           y == Len(b)
           den == 6 * x * y * m
           num == 2 * m * m * (x + y) + x * y * (2 * m - t)
<1>1. m \in Nat /\ t \in Nat /\ c \in Int /\ x \in Nat /\ y \in Nat /\ (m # 0 => x > 0 /\ y > 0)
  BY MatchedTyped, MisplacedTyped, PrefixTyped
<1>2. JaroWinkler(a, b) = IF a = b THEN [num |-> 1, den |-> 1]
                          ELSE IF m = 0 THEN [num |-> 0, den |-> 1]
                          ELSE [num |-> 10 * num + c * (den - num), den |-> 10 * den]
  BY DEF JaroWinkler
<1> HIDE DEF m, t, c, x, y
<1>3. num \in Int /\ den \in Int /\ 10 * num + c * (den - num) \in Int
  <2>1. m * m \in Int /\ x * y \in Int
    BY <1>1
  <2>2. 2 * m * m \in Int /\ 6 * x * y \in Int
    BY <1>1
  <2>3. 2 * m * m * (x + y) \in Int /\ x * y * (2 * m - t) \in Int /\ den \in Int
    BY <1>1, <2>1, <2>2
  <2>4. num \in Int
    BY <2>3
  <2> HIDE DEF num, den
  <2> QED BY <1>1, <2>3, <2>4
<1>4. m # 0 => den > 0
  <2> SUFFICES ASSUME m # 0 PROVE den > 0
    OBVIOUS
  <2>1. x * y > 0 /\ x * y \in Int
    BY <1>1
  <2>2. x * y * m > 0
    BY <1>1, <2>1
  <2>3. den = 6 * (x * y * m)
    BY <1>1, <2>1
  <2> QED BY <1>1, <2>1, <2>2, <2>3
<1> HIDE DEF num, den
<1> QED BY <1>2, <1>3, <1>4

PersonRows == [name : Names, domain : Domains \cup {Unknown}, org : Orgs \cup {Unknown}]

(* What ties two people, of whom the organisations O and P are known. *)
TiesOf(p, q, O, P) ==
  {s \in {"domain", "org"} : IF s = "domain" THEN DomainsOf(p) \cap DomainsOf(q) # {} ELSE O \cap P # {}}
Band(p, q, O, P) == ShouldQueue(p.name, q.name, Cardinality(TiesOf(p, q, O, P)))

LEMMA NamesAreSequences == Names \subseteq Seq(Letters)
<1>1. ASSUME NEW n \in 1..MaxLength, NEW a \in [1..n -> Letters] PROVE a \in Seq(Letters)
  <2>1. n \in Nat
    BY NamesAssumption
  <2> QED BY <2>1
<1> QED BY <1>1 DEF Names

(* More signals leave a pair in the band. *)
LEMMA SignalsRaise ==
  ASSUME NEW a \in Names, NEW b \in Names, NEW m \in Nat, NEW n \in Nat, m <= n, ShouldQueue(a, b, m)
  PROVE  ShouldQueue(a, b, n)
<1> DEFINE num == JaroWinkler(a, b).num
           den == JaroWinkler(a, b).den
           sum(k) == [num |-> 100 * num + 5 * k * den, den |-> 100 * den]
<1>1. num \in Int /\ den \in Nat \ {0}
  BY NamesAreSequences, SimilarityTyped
<1>2. \A k \in Nat : ScoreMatch(JaroWinkler(a, b), k) =
        IF 100 * (100 * num + 5 * k * den) >= 99 * (100 * den) THEN [num |-> 99, den |-> 100] ELSE sum(k)
  BY DEF ScoreMatch, AtLeast
<1>3. \A k \in Nat : ShouldQueue(a, b, k) <=>
        /\ ~AtLeast(ScoreMatch(JaroWinkler(a, b), k), 100) /\ AtLeast(ScoreMatch(JaroWinkler(a, b), k), 84)
        /\ 100 * num >= 90 * den \/ k > 0
  BY DEF ShouldQueue, AtLeast
<1> HIDE DEF num, den
<1>4. m * den \in Nat /\ n * den \in Nat /\ m * den <= n * den
  BY <1>1
<1>5. ASSUME NEW k \in Nat, k * den \in Nat
      PROVE  /\ ~AtLeast(ScoreMatch(JaroWinkler(a, b), k), 100)
             /\ AtLeast(ScoreMatch(JaroWinkler(a, b), k), 84) <=>
                  100 * (100 * num + 5 * (k * den)) >= 84 * (100 * den)
  <2>1. 5 * k * den = 5 * (k * den)
    BY <1>1
  <2>2. CASE 100 * (100 * num + 5 * (k * den)) >= 99 * (100 * den)
    <3>1. ScoreMatch(JaroWinkler(a, b), k) = [num |-> 99, den |-> 100]
      BY <1>2, <2>1, <2>2
    <3> QED BY <1>1, <1>5, <2>2, <3>1 DEF AtLeast
  <2>3. CASE ~(100 * (100 * num + 5 * (k * den)) >= 99 * (100 * den))
    <3>1. ScoreMatch(JaroWinkler(a, b), k) = [num |-> 100 * num + 5 * (k * den), den |-> 100 * den]
      BY <1>2, <2>1, <2>3
    <3> QED BY <1>1, <1>5, <2>3, <3>1 DEF AtLeast
  <2> QED BY <2>2, <2>3
<1>6. AtLeast(ScoreMatch(JaroWinkler(a, b), n), 84)
  <2>1. 100 * (100 * num + 5 * (m * den)) >= 84 * (100 * den)
    BY <1>3, <1>4, <1>5
  <2>2. 100 * (100 * num + 5 * (n * den)) >= 84 * (100 * den)
    BY <1>1, <1>4, <2>1
  <2> QED BY <1>4, <1>5, <2>2
<1>7. 100 * num >= 90 * den \/ n > 0
  BY <1>3
<1> QED BY <1>3, <1>4, <1>5, <1>6, <1>7

LEMMA BandFacts ==
  ASSUME NEW p \in PersonRows, NEW q \in PersonRows, NEW O, NEW P
  PROVE  /\ Band(p, q, O, P) <=> Band(q, p, P, O)
         /\ Band(p, q, O, {}) <=> Band(p, q, {}, {})
         /\ Band(p, q, {}, P) <=> Band(p, q, {}, {})
         /\ \A S, T : O \subseteq S /\ P \subseteq T /\ Band(p, q, O, P) => Band(p, q, S, T)
<1>1. TiesOf(p, q, O, P) = TiesOf(q, p, P, O)
  BY DEF TiesOf
<1>2. p.name \in Names /\ q.name \in Names
  BY DEF PersonRows
<1>3. JaroWinkler(p.name, q.name) = JaroWinkler(q.name, p.name)
  BY <1>2, NamesAreSequences, SimilaritySymmetric
<1>4. Band(p, q, O, P) <=> Band(q, p, P, O)
  BY <1>1, <1>3 DEF Band, ShouldQueue
<1>5. TiesOf(p, q, O, {}) = TiesOf(p, q, {}, {}) /\ TiesOf(p, q, {}, P) = TiesOf(p, q, {}, {})
  BY DEF TiesOf
<1>6. ASSUME NEW S, NEW T, O \subseteq S, P \subseteq T, Band(p, q, O, P) PROVE Band(p, q, S, T)
  <2>1. TiesOf(p, q, O, P) \subseteq TiesOf(p, q, S, T)
    BY <1>6 DEF TiesOf
  <2>2. IsFiniteSet({"domain", "org"}) 
    <3>1. {"domain", "org"} = {"domain"} \cup {"org"}
      OBVIOUS
    <3>2. IsFiniteSet({"domain"}) /\ IsFiniteSet({"org"})
      BY FS_Singleton
    <3> QED BY <3>1, <3>2, FS_Union
  <2>3. TiesOf(p, q, S, T) \subseteq {"domain", "org"}
    BY DEF TiesOf
  <2>4. IsFiniteSet(TiesOf(p, q, S, T))
    BY <2>2, <2>3, FS_Subset
  <2>5. /\ IsFiniteSet(TiesOf(p, q, O, P))
        /\ Cardinality(TiesOf(p, q, O, P)) <= Cardinality(TiesOf(p, q, S, T))
    BY <2>1, <2>4, FS_Subset
  <2>6. Cardinality(TiesOf(p, q, O, P)) \in Nat /\ Cardinality(TiesOf(p, q, S, T)) \in Nat
    BY <2>4, <2>5, FS_CardinalityType
  <2> QED BY <1>2, <1>6, <2>5, <2>6, SignalsRaise DEF Band
<1>7. (Band(p, q, O, {}) <=> Band(p, q, {}, {})) /\ (Band(p, q, {}, P) <=> Band(p, q, {}, {}))
  BY <1>5 DEF Band
<1> QED BY <1>4, <1>6, <1>7

LEMMA SignalsAreTies ==
  \A p, O, j : Signals(p, O, j) = Cardinality(TiesOf(p, persons[j], O, MemberOfOrgs(j)))
BY DEF Signals, TiesOf

(* Who is known, and that a pair is queued only of two of them. *)
MatchTypes ==
  /\ persons \in Seq(PersonRows) /\ members \subseteq DOMAIN persons
  /\ \A s \in suggested : s \subseteq DOMAIN persons
MatchInv ==
  /\ MatchTypes
  /\ \A i, j \in DOMAIN persons : i < j =>
       /\ i <= OldestScanned /\ Band(persons[i], persons[j], {}, {}) => {i, j} \in suggested
       /\ {i, j} \in suggested => Band(persons[i], persons[j], MemberOfOrgs(i), MemberOfOrgs(j))

LEMMA CandidatesAre ==
  ASSUME NEW i, NEW p, NEW O
  PROVE  Candidates(i, p, O) =
           {{i, j} : j \in {k \in Compared(i) : Band(p, persons[k], O, MemberOfOrgs(k))}}
BY SignalsAreTies DEF Candidates, Band

LEMMA LandingKeepsPairs ==
  ASSUME MatchInv, NEW p \in PersonRows, LandsNew(p)
  PROVE  MatchInv'
<1> DEFINE n == Len(persons)
           new == n + 1
<1>1. n \in Nat /\ DOMAIN persons = 1..n /\ \A i \in 1..n : persons[i] \in PersonRows
  BY DEF MatchInv, MatchTypes
<1>2. /\ persons' = Append(persons, p) /\ suggested' = suggested \cup Candidates(new, p, {})
      /\ members \subseteq members' /\ members' \subseteq members \cup {new}
  BY DEF LandsNew
<1>3. /\ persons' \in Seq(PersonRows) /\ DOMAIN persons' = 1..new
      /\ persons'[new] = p /\ \A i \in 1..n : persons'[i] = persons[i]
  BY <1>1, <1>2 DEF MatchInv, MatchTypes
<1>4. \A i \in 1..n : MemberOfOrgs(i)' = MemberOfOrgs(i)
  BY <1>1, <1>2, <1>3 DEF MemberOfOrgs
<1>5. ASSUME NEW k \in 1..n PROVE k \in Compared(new) <=> k <= OldestScanned
  <2>1. k \in DOMAIN persons \ {new} /\ (1..k) \ {new} = 1..k
    BY <1>1
  <2>2. Cardinality(1..k) = k
    <3>1. 1 \in Int /\ k \in Int /\ k >= 1
      BY <1>1
    <3> QED BY <3>1, FS_Interval
  <2> QED BY <2>1, <2>2 DEF Compared
<1>6. \A s : s \in Candidates(new, p, {}) <=>
         \E k \in 1..n : s = {new, k} /\ k <= OldestScanned /\ Band(p, persons[k], {}, {})
  <2>1. \A k \in 1..n : Band(p, persons[k], {}, MemberOfOrgs(k)) <=> Band(p, persons[k], {}, {})
    BY <1>1, BandFacts
  <2>2. Compared(new) \subseteq 1..n
    BY <1>1 DEF Compared
  <2> QED BY <1>5, <2>1, <2>2, CandidatesAre
<1> HIDE DEF n
<1>7. MatchTypes'
  <2>1. members' \subseteq DOMAIN persons'
    BY <1>1, <1>2, <1>3 DEF MatchInv, MatchTypes
  <2>2. ASSUME NEW s \in suggested' PROVE s \subseteq 1..new
    <3>1. CASE s \in suggested
      BY <1>1, <3>1 DEF MatchInv, MatchTypes
    <3>2. CASE s \notin suggested
      BY <1>1, <1>2, <1>6, <2>2, <3>2
    <3> QED BY <3>1, <3>2
  <2> QED BY <1>3, <2>1, <2>2 DEF MatchTypes
<1>8. ASSUME NEW i \in 1..new, NEW j \in 1..new, i < j
      PROVE  /\ i <= OldestScanned /\ Band(persons[i], persons[j], {}, {})' => {i, j} \in suggested'
             /\ {i, j} \in suggested' => Band(persons[i], persons[j], MemberOfOrgs(i), MemberOfOrgs(j))'
  <2>1. i \in 1..n
    BY <1>1, <1>8
  <2>2. CASE j = new
    <3>1. {i, j} \notin suggested
      <4>1. new \notin 1..n
        BY <1>1
      <4> QED BY <1>1, <2>2, <4>1 DEF MatchInv, MatchTypes
    <3>2. {i, j} \in suggested' <=> i <= OldestScanned /\ Band(p, persons[i], {}, {})
      <4>1. \A k \in 1..n : {i, j} = {new, k} => k = i
        BY <1>1, <2>1, <2>2
      <4>2. {i, j} = {new, i}
        BY <2>2
      <4> HIDE DEF new
      <4> QED BY <1>2, <1>6, <2>1, <3>1, <4>1, <4>2
    <3>3. /\ Band(p, persons[i], {}, {}) <=> Band(persons[i], p, {}, {})
          /\ \A S, T : Band(persons[i], p, {}, {}) => Band(persons[i], p, S, T)
      BY <1>1, <2>1, BandFacts
    <3>4. persons'[i] = persons[i] /\ persons'[j] = p
      BY <1>3, <2>1, <2>2
    <3> QED BY <3>2, <3>3, <3>4
  <2>3. CASE j # new
    <3>1. j \in 1..n
      BY <1>1, <2>3
    <3>2. {i, j} \in suggested' <=> {i, j} \in suggested
      <4>1. \A k \in 1..n : {i, j} # {new, k}
        BY <1>1, <2>1, <3>1
      <4> HIDE DEF new
      <4> QED BY <1>2, <1>6, <4>1
    <3>3. /\ persons'[i] = persons[i] /\ persons'[j] = persons[j]
          /\ MemberOfOrgs(i)' = MemberOfOrgs(i) /\ MemberOfOrgs(j)' = MemberOfOrgs(j)
      BY <1>3, <1>4, <2>1, <3>1
    <3>4. /\ i <= OldestScanned /\ Band(persons[i], persons[j], {}, {}) => {i, j} \in suggested
          /\ {i, j} \in suggested => Band(persons[i], persons[j], MemberOfOrgs(i), MemberOfOrgs(j))
      BY <1>1, <1>8, <2>1, <3>1 DEF MatchInv
    <3> QED BY <3>2, <3>3, <3>4
  <2> QED BY <2>2, <2>3
<1> QED BY <1>3, <1>7, <1>8 DEF MatchInv

LEMMA SeeingKeepsPairs ==
  ASSUME MatchInv, NEW l \in DOMAIN persons, SeenAgain(l)
  PROVE  MatchInv'
<1>1. /\ UNCHANGED <<persons, members>>
      /\ suggested' = suggested \cup Candidates(l, persons[l], MemberOfOrgs(l))
  BY DEF SeenAgain
<1>2. \A i \in DOMAIN persons : persons[i] \in PersonRows
  BY DEF MatchInv, MatchTypes
<1>3. ASSUME NEW s \in suggested', s \notin suggested
      PROVE  \E k \in DOMAIN persons : s = {l, k} /\ Band(persons[l], persons[k], MemberOfOrgs(l), MemberOfOrgs(k))
  BY <1>1, <1>3, CandidatesAre DEF Compared
<1>4. MatchTypes'
  BY <1>1, <1>3 DEF MatchInv, MatchTypes
<1>5. ASSUME NEW i \in DOMAIN persons, NEW j \in DOMAIN persons, i < j
      PROVE  /\ i <= OldestScanned /\ Band(persons[i], persons[j], {}, {}) => {i, j} \in suggested'
             /\ {i, j} \in suggested' => Band(persons[i], persons[j], MemberOfOrgs(i), MemberOfOrgs(j))
  <2>1. CASE {i, j} \in suggested
    BY <1>1, <1>5, <2>1 DEF MatchInv
  <2>2. CASE {i, j} \notin suggested
    <3>1. ASSUME {i, j} \in suggested' PROVE Band(persons[i], persons[j], MemberOfOrgs(i), MemberOfOrgs(j))
      <4>1. PICK k \in DOMAIN persons :
              {i, j} = {l, k} /\ Band(persons[l], persons[k], MemberOfOrgs(l), MemberOfOrgs(k))
        BY <1>3, <2>2, <3>1
      <4>2. (i = l /\ j = k) \/ (i = k /\ j = l)
        BY <1>5, <4>1
      <4> QED BY <1>2, <4>1, <4>2, BandFacts
    <3> QED BY <1>5, <2>2, <3>1 DEF MatchInv
  <2> QED BY <2>1, <2>2
<1>6. /\ persons' = persons
      /\ \A i \in DOMAIN persons : MemberOfOrgs(i)' = MemberOfOrgs(i)
  BY <1>1 DEF MemberOfOrgs
<1> QED BY <1>4, <1>5, <1>6 DEF MatchInv

LEMMA MatchInvariant == MatchSpec => []MatchInv
<1>1. MatchInit => MatchInv
  BY DEF MatchInit, MatchInv, MatchTypes
<1>2. MatchInv /\ [MatchNext]_matchVars => MatchInv'
  <2> SUFFICES ASSUME MatchInv, [MatchNext]_matchVars PROVE MatchInv'
    OBVIOUS
  <2>1. ASSUME NEW name \in Names, NEW domain \in Domains \cup {Unknown}, NEW org \in Orgs \cup {Unknown},
               LandsNew([name |-> name, domain |-> domain, org |-> org])
        PROVE  MatchInv'
    <3>1. [name |-> name, domain |-> domain, org |-> org] \in PersonRows
      BY DEF PersonRows
    <3> QED BY <2>1, <3>1, LandingKeepsPairs
  <2>2. ASSUME NEW i \in DOMAIN persons, SeenAgain(i) PROVE MatchInv'
    BY <2>2, SeeingKeepsPairs
  <2>3. CASE UNCHANGED matchVars
    BY <2>3 DEF MatchInv, MatchTypes, MemberOfOrgs, matchVars
  <2> QED BY <2>1, <2>2, <2>3 DEF MatchNext
<1> QED BY <1>1, <1>2, PTL DEF MatchSpec

(* Which pairs a reviewer sees does not hang on who landed first, for names of any
   length over any letters: jaroWinkler gives the same from either side, whatever
   its greedy matching takes, and a scan adds what it knows of both. *)
THEOREM SuggestionsAreMutual == MatchSpec => []SuggestedEitherWay
<1>1. MatchInv => SuggestedEitherWay
  <2> SUFFICES ASSUME MatchInv, NEW j \in DOMAIN persons, NEW i \in 1..(j - 1)
               PROVE  /\ i <= OldestScanned /\ InBand(i, j, {}) => {i, j} \in suggested
                      /\ {i, j} \in suggested => InBand(i, j, MemberOfOrgs(i))
    BY DEF SuggestedEitherWay
  <2>1. Len(persons) \in Nat /\ DOMAIN persons = 1..Len(persons) /\ \A k \in DOMAIN persons : persons[k] \in PersonRows
    BY DEF MatchInv, MatchTypes
  <2>2. i \in DOMAIN persons /\ i < j
    BY <2>1
  <2>3. InBand(i, j, {}) <=> Band(persons[i], persons[j], {}, {})
    <3>1. InBand(i, j, {}) <=> Band(persons[i], persons[j], {}, MemberOfOrgs(j))
      BY SignalsAreTies DEF InBand, Band
    <3> QED BY <2>1, <2>2, <3>1, BandFacts
  <2>4. InBand(i, j, MemberOfOrgs(i)) <=> Band(persons[i], persons[j], MemberOfOrgs(i), MemberOfOrgs(j))
    BY SignalsAreTies DEF InBand, Band
  <2> QED BY <2>2, <2>3, <2>4 DEF MatchInv
<1> QED BY <1>1, MatchInvariant, PTL
=============================================================================
