--------------------------- MODULE IdentityReview ---------------------------
(***************************************************************************)
(* applyMatchDecision: what a reviewer decides of a pair of entities in    *)
(* identity_review_queue.  A decision is one transaction at READ COMMITTED *)
(* of several statements: an UPDATE or DELETE waits for the transaction    *)
(* that holds the row, and touches nothing when that one deleted it; what  *)
(* was SELECTed before the wait is not read again.                         *)
(***************************************************************************)
EXTENDS Naturals, FiniteSets

CONSTANTS Decisions,    \* [id, pair, what, keep]; what: "merge" or "reject"
          RefsOf,       \* [entity -> its external refs]
          InitialEdges  \* [from, to]: relationships between entities, or of facts

People == DOMAIN RefsOf
ReviewedPairs  == {d.pair : d \in Decisions}

ASSUME ReviewAssumption ==
  /\ \A d \in Decisions : /\ \E p, q \in People : p # q /\ d.pair = {p, q}
                          /\ d.what = "merge" => d.keep \in d.pair
  /\ InitialEdges \subseteq [from : {e.from : e \in InitialEdges}, to : {e.to : e \in InitialEdges}]

VARIABLES people,      \* [committed entities -> refs]
          ties,        \* committed relationships
          review,      \* [ReviewedPairs with a row in the queue -> "pending", "rejected"]
          decision,    \* [Decisions -> its transaction]
          concurrent,  \* history: two decisions were under way at once
          negatives    \* history: pairs a committed decision rejected

reviewVars == <<people, ties, review, decision, concurrent, negatives>>

Drop(d) == CHOOSE p \in d.pair : p # d.keep

NotBegun == [pc |-> "idle", refs |-> {}, kept |-> FALSE, added |-> {}, removed |-> {}]
Deciding(d) == decision[d].pc \notin {"idle", "committed", "failed"}

ReviewInit ==
  /\ people = RefsOf /\ ties = InitialEdges
  /\ review = [p \in ReviewedPairs |-> "pending"]
  /\ decision = [d \in Decisions |-> NotBegun]
  /\ concurrent = FALSE /\ negatives = {}

(* The locks a transaction holds until it ends. *)
HoldsRow(d, p) ==
  \/ p = d.keep /\ decision[d].pc \in {"kept", "moved", "stamped", "dropped"}
  \/ d.what = "merge" /\ p = Drop(d) /\ decision[d].pc = "dropped"
HoldsPair(d, pair) == d.pair = pair /\ decision[d].pc \in {"stamped", "dropped", "rejecting"}
EntityFree(d, p) == \A other \in Decisions \ {d} : ~HoldsRow(other, p)
PairFree(d)   == \A other \in Decisions \ {d} : ~HoldsPair(other, d.pair)

Becomes(d, pc) == decision' = [decision EXCEPT ![d].pc = pc]
TablesStay == UNCHANGED <<people, ties, review, negatives>>

(* The queue row must exist and be pending. *)
ReadsPair(d) ==
  /\ decision[d].pc = "idle"
  /\ Becomes(d, IF d.pair \in DOMAIN review /\ review[d.pair] = "pending" THEN "read" ELSE "failed")
  /\ concurrent' = (concurrent \/ \E other \in Decisions \ {d} : Deciding(other))
  /\ TablesStay

Rejects(d) ==
  /\ d.what = "reject" /\ decision[d].pc = "read" /\ PairFree(d)
  /\ Becomes(d, "rejecting")
  /\ UNCHANGED concurrent /\ TablesStay

CommitsReject(d) ==
  /\ decision[d].pc = "rejecting"
  /\ review' = [p \in DOMAIN review |-> IF p = d.pair THEN "rejected" ELSE review[p]]
  /\ negatives' = negatives \cup {d.pair}
  /\ Becomes(d, "committed")
  /\ UNCHANGED <<people, ties, concurrent>>

(* Both sides must exist; their refs are read here and united below. *)
ReadsSides(d) ==
  /\ d.what = "merge" /\ decision[d].pc = "read"
  /\ decision' = IF d.pair \subseteq DOMAIN people
                 THEN [decision EXCEPT ![d].pc = "sides", ![d].refs = UNION {people[p] : p \in d.pair}]
                 ELSE [decision EXCEPT ![d].pc = "failed"]
  /\ UNCHANGED concurrent /\ TablesStay

UpdatesKept(d) ==
  /\ decision[d].pc = "sides" /\ EntityFree(d, d.keep)
  /\ decision' = [decision EXCEPT ![d].pc = "kept", ![d].kept = d.keep \in DOMAIN people]
  /\ UNCHANGED concurrent /\ TablesStay

MutMovesFromOnly(e, from, to) == [e EXCEPT !.from = IF @ = from THEN to ELSE @]
Repointed(e, from, to) ==
  [e EXCEPT !.from = IF @ = from THEN to ELSE @, !.to = IF @ = from THEN to ELSE @]

(* repointEntityEdges: recreate on the kept side, a self-edge excepted, then
   delete everything that touches the dropped one. *)
MovesEdges(d) ==
  /\ decision[d].pc = "kept"
  /\ LET touching == {e \in ties : Drop(d) \in {e.from, e.to}}
         moved    == {Repointed(e, Drop(d), d.keep) : e \in touching}
     IN decision' = [decision EXCEPT ![d].pc = "moved", ![d].removed = touching,
                                     ![d].added = {e \in moved : e.from # e.to}]
  /\ UNCHANGED concurrent /\ TablesStay

StampsPair(d) ==
  /\ decision[d].pc = "moved" /\ PairFree(d)
  /\ Becomes(d, "stamped")
  /\ UNCHANGED concurrent /\ TablesStay

DeletesDropped(d) ==
  /\ decision[d].pc = "stamped" /\ EntityFree(d, Drop(d))
  /\ Becomes(d, "dropped")
  /\ UNCHANGED concurrent /\ TablesStay

(* The commit; the cascade removes every queue row of the dropped entity. *)
CommitsMerge(d) ==
  /\ decision[d].pc = "dropped"
  /\ people' = [p \in DOMAIN people \ {Drop(d)} |->
                  IF p = d.keep /\ decision[d].kept THEN decision[d].refs ELSE people[p]]
  /\ ties' = (ties \ decision[d].removed) \cup decision[d].added
  /\ review' = [p \in {q \in DOMAIN review : Drop(d) \notin q} |-> review[p]]
  /\ Becomes(d, "committed")
  /\ UNCHANGED <<concurrent, negatives>>

(* An error or a deadlock Postgres breaks rolls a decision back. *)
RollsBack(d) ==
  /\ Deciding(d)
  /\ Becomes(d, "failed")
  /\ UNCHANGED concurrent /\ TablesStay

(* findMatchCandidates sees the pair again: on conflict it does nothing. *)
MayQueue(pair) == pair \notin DOMAIN review

QueuesAgain(pair) ==
  /\ pair \subseteq DOMAIN people /\ MayQueue(pair)
  /\ review' = [p \in DOMAIN review \cup {pair} |-> IF p = pair THEN "pending" ELSE review[p]]
  /\ UNCHANGED <<people, ties, decision, concurrent, negatives>>

ReviewNext ==
  \/ \E d \in Decisions :
       \/ ReadsPair(d) \/ Rejects(d) \/ CommitsReject(d) \/ ReadsSides(d) \/ UpdatesKept(d)
       \/ MovesEdges(d) \/ StampsPair(d) \/ DeletesDropped(d) \/ CommitsMerge(d) \/ RollsBack(d)
  \/ \E pair \in ReviewedPairs : QueuesAgain(pair)

ReviewSpec == ReviewInit /\ [][ReviewNext]_reviewVars

-----------------------------------------------------------------------------
(* A merge folds the dropped entity into the kept one: no external ref is lost. *)
MergesFold == UNION {people[p] : p \in DOMAIN people} = UNION {RefsOf[p] : p \in People}

(* No relationship is left on an entity that a merge deleted. *)
NoEdgeLeftBehind == \A e \in ties : {e.from, e.to} \cap People \subseteq DOMAIN people

(* A rejected pair is not put to the reviewer again, unless the merge of
   another pair deleted one side. *)
NegativesKept == \A p \in negatives : p \in DOMAIN review => review[p] = "rejected"

(* Reviewers who decide one after the other, in any order, and whatever fails
   in between, lose no ref, leave no edge behind and undo no rejection, across
   pairs that overlap and merges that chain. *)
SerialDecisionsHold == ~concurrent => MergesFold /\ NoEdgeLeftBehind /\ NegativesKept
=============================================================================
