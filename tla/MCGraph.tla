------------------------------ MODULE MCGraph -------------------------------
(* Everything that writes the canonical graph, for TLC.  GraphWrite: a Linear
   issue and a later version of it whose assignee has a new email, a pull
   request seen open and seen merged, and meeting notes, with one person behind
   four refs.  IdentityReview: three people, pairs of them merged either way
   and rejected.  AgenticLinking: two deliveries of a work item each,
   repeated when it fails.  NameMatching: two people with any two short names.
   TranscriptChunks: any short transcript cut by any small window.  The five
   share no state here: a behaviour runs one of them. *)
EXTENDS GraphWrite, IdentityReview, AgenticLinking, NameMatching, TranscriptChunks

VARIABLE side

Ann(refs)         == [type |-> "person", name |-> "ann", refs |-> refs, state |-> "open"]
Item(ref, status) == [type |-> "work_item", name |-> ref, refs |-> {ref}, state |-> status]

MCContent ==
  [issue  |-> [entities |-> <<Item("wi", "open"), Ann({"l1", "e1"})>>, edges |-> <<<<"l1", "wi">>>>],
   open   |-> [entities |-> <<Ann({"g1"}), Item("pr", "open")>>, edges |-> <<<<"pr", "wi">>>>],
   merged |-> [entities |-> <<Item("pr", "merged")>>, edges |-> <<<<"pr", "wi">>>>],
   reply  |-> [entities |-> <<Ann({"l1", "e2"}), Item("wi", "open")>>, edges |-> <<<<"e2", "wi">>>>],
   notes  |-> [entities |-> <<Ann({"e1"})>>, edges |-> <<>>]]

MCTier == [r \in Refs |-> IF r \in {"e1", "e2"} THEN 2 ELSE 1]

Decision(id, what, pair, keep) == [id |-> id, what |-> what, pair |-> pair, keep |-> keep]
MCDecisions ==
  {Decision(1, "merge", {"a", "b"}, "a"), Decision(2, "merge", {"a", "b"}, "b"),
   Decision(3, "merge", {"b", "c"}, "b"), Decision(4, "reject", {"b", "c"}, None),
   Decision(5, "merge", {"a", "c"}, "c")}
MCRefsOf == [a |-> {"l1"}, b |-> {"g1"}, c |-> {"e1"}]
MCTies == {[from |-> "a", to |-> "wi"], [from |-> "b", to |-> "wi"], [from |-> "c", to |-> "b"],
           [from |-> "fact", to |-> "b"]}

MCDeliveries == [first |-> <<"i1">>, second |-> <<"i2">>]
MCMaxTries == [first |-> 1, second |-> 2]
MCMentions == [i1 |-> {"i2"}, i2 |-> {"i1", "i2"}]
MCNotes == {[id |-> 1, source |-> "i1"]}

GraphSideInit ==
  /\ Init /\ ReviewInit /\ LinkingInit /\ MatchInit
  /\ \/ side \in {"graph", "review", "linking", "names"} 
        /\ text = [length |-> 0, breaks |-> {}] /\ window = [maxChars |-> 1, overlapChars |-> 0]
        /\ chunks = <<>> /\ cutFrom = 0
     \/ side = "chunks" /\ ChunksInit
GraphSideNext ==
  /\ UNCHANGED side
  /\ \/ side = "graph" /\ Next /\ UNCHANGED <<reviewVars, linkingVars, matchVars, chunkVars>>
     \/ side = "review" /\ ReviewNext /\ UNCHANGED <<vars, linkingVars, matchVars, chunkVars>>
     \/ side = "linking" /\ LinkingNext /\ UNCHANGED <<vars, reviewVars, matchVars, chunkVars>>
     \/ side = "names" /\ MatchNext /\ UNCHANGED <<vars, reviewVars, linkingVars, chunkVars>>
     \/ side = "chunks" /\ Cuts /\ UNCHANGED <<vars, reviewVars, linkingVars, matchVars>>
MCGraphSpec ==
  GraphSideInit /\ [][GraphSideNext]_<<vars, reviewVars, linkingVars, matchVars, chunkVars, side>>
=============================================================================
