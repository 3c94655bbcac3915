----------------------------- MODULE MCOrigins -----------------------------
(* What meets the services customers' artifacts come from, for TLC; each behaviour
   runs one side.  walk: a walk over three documents on pages of one while they
   are edited (ConnectorPaging).  items: the versions of one item and its webhooks
   as they land (WorkItems).  seed: two runs of the script that seeds a demo
   (SeedDemo).  review: the review tool on one pull request (ReviewTool), with a
   blocking finding of each pass and a minor one close to the first; the pull
   request is new, or comes to its last run after two that went through
   undisturbed, of which one posted the crash and one found it fixed. *)
EXTENDS ConnectorPaging, WorkItems, SeedDemo, ReviewTool

CONSTANT Sides    \* of "walk", "items", "seed" and "review"
VARIABLE side
allVars == <<side, vars, itemVars, seedVars, reviewVars>>

MCMarked == [t |-> {"d"}]
MCMarkerOf == [i1 |-> "m1", p1 |-> "m2"]

MCPassOf == [f \in Findings |-> IF f = "authz" THEN "security" ELSE "review"]
MCLine == [f \in Findings |-> CASE f = "crash" -> 2 [] f = "typo" -> 4 [] OTHER -> 9]
MCRank == [f \in Findings |-> IF f = "typo" THEN 1 ELSE 0]

FixedInit ==
  /\ threads = <<[key |-> "crash", open |-> FALSE, marks |-> {"resolved"}]>>
  /\ summary = [verdict |-> "approve", submitted |-> TRUE]
  /\ review = "approve"
  /\ waved = {} /\ run = NoRun /\ runs = 1

(* All three findings come up on a pull request with one thread; with none or
   two, a run is told of two at most, those of the threads it finds. *)
FewAtWork ==
  run'.at = "withdraw" /\ Len(threads) # 1 =>
    Cardinality(run'.reported \cup {t.key : t \in ToSet(threads)}) <= 2

AllInit ==
  /\ side \in Sides /\ Init /\ ItemsInit /\ SeedInit
  /\ ReviewInit \/ (side = "review" /\ FixedInit)
  /\ side # "items" => /\ connector = CHOOSE c \in Connectors : TRUE
                       /\ policy = CHOOSE p \in Policies : TRUE
                       /\ access = "members"
  /\ side # "walk" => provider = CHOOSE p \in Providers : TRUE
AllNext ==
  /\ UNCHANGED side
  /\ \/ side = "walk" /\ Next /\ UNCHANGED <<itemVars, seedVars, reviewVars>>
     \/ side = "items" /\ ItemsNext /\ UNCHANGED <<vars, seedVars, reviewVars>>
     \/ side = "seed" /\ SeedNext /\ UNCHANGED <<vars, itemVars, reviewVars>>
     \/ side = "review" /\ ReviewNext /\ FewAtWork /\ UNCHANGED <<vars, itemVars, seedVars>>
AllSpec == AllInit /\ [][AllNext]_allVars
=============================================================================
