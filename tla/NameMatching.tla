---------------------------- MODULE NameMatching ----------------------------
(***************************************************************************)
(* Which pairs of people findMatchCandidates shows a reviewer              *)
(* (packages/identity): the Jaro-Winkler similarity of their names, what a *)
(* shared domain or organisation adds, and the band in between.  A person  *)
(* is scanned in the transaction that lands them, before the member_of     *)
(* edge of the same artifact is written, and again whenever they are seen. *)
(*                                                                         *)
(* A name is a sequence of letters, as normalizeName leaves it.  Scores    *)
(* are fractions [num, den] in place of floating point.  One landing is    *)
(* one step: GraphWrite has the interleavings inside it.                   *)
(***************************************************************************)
EXTENDS Integers, Sequences, FiniteSets, FiniteSetsExt

CONSTANTS Letters, MaxLength, MaxPersons,
          Domains,   \* e-mail domains
          Orgs,      \* organisations
          Unknown,
          OldestScanned   \* DEFAULT_SCAN_LIMIT: the others a scan reads, oldest first

ASSUME NamesAssumption == {MaxLength, MaxPersons, OldestScanned} \subseteq Nat

VARIABLES persons,    \* the entities in the order they landed: [name, domain, org]
          members,    \* those whose member_of edge is written
          suggested   \* the pairs queued for review

matchVars == <<persons, members, suggested>>

Names == UNION {[1..n -> Letters] : n \in 1..MaxLength}

---------------------------------------------------------------------------
Larger(m, n) == IF m > n THEN m ELSE n

(* From the left, each letter of a takes the first free one like it in its
   window of b: aMatched and bMatched, as the pairs that were taken together. *)
MutWindow(a, b) == Larger(0, Len(a) \div 2 - 1)
Window(a, b) == Larger(0, Larger(Len(a), Len(b)) \div 2 - 1)
Free(a, b, i, taken) ==
  {j \in DOMAIN b : /\ i - Window(a, b) <= j /\ j <= i + Window(a, b)
                    /\ b[j] = a[i] /\ \A p \in taken : p[2] # j}
Takes(a, b, i, taken) ==
  LET free == Free(a, b, i, taken)
  IN IF free = {} THEN taken ELSE taken \cup {<<i, Min(free)>>}
Matched(a, b) ==
  LET upTo[i \in 0..Len(a)] == IF i = 0 THEN {} ELSE Takes(a, b, i, upTo[i - 1])
  IN upTo[Len(a)]

(* The matched letters that differ when both sides are read from the left. *)
Left(taken)  == {p[1] : p \in taken}
Right(taken) == {p[2] : p \in taken}
Nth(S, n) == CHOOSE i \in S : Cardinality({j \in S : j <= i}) = n
Misplaced(a, b, taken) ==
  Cardinality({n \in 1..Cardinality(taken) : a[Nth(Left(taken), n)] # b[Nth(Right(taken), n)]})

CommonPrefix(a, b) ==
  Max({n \in 0..4 : n <= Len(a) /\ n <= Len(b) /\ SubSeq(a, 1, n) = SubSeq(b, 1, n)})

(* (m/|a| + m/|b| + (m - t/2)/m) / 3, and a tenth of what is missing to 1 for
   each letter of the common prefix. *)
JaroWinkler(a, b) ==
  LET taken == Matched(a, b)
      m     == Cardinality(taken)
      den   == 6 * Len(a) * Len(b) * m
      num   == 2 * m * m * (Len(a) + Len(b)) + Len(a) * Len(b) * (2 * m - Misplaced(a, b, taken))
  IN IF a = b THEN [num |-> 1, den |-> 1]
     ELSE IF m = 0 THEN [num |-> 0, den |-> 1]
     ELSE [num |-> 10 * num + CommonPrefix(a, b) * (den - num), den |-> 10 * den]

(* In hundredths: a signal adds five, the sum stops short of a merge at 99, and
   a pair is queued from 84 on, below 90 only with a signal. *)
AtLeast(q, hundredths) == 100 * q.num >= hundredths * q.den
ScoreMatch(similarity, signals) ==
  LET sum == [num |-> 100 * similarity.num + 5 * signals * similarity.den,
              den |-> 100 * similarity.den]
  IN IF AtLeast(sum, 99) THEN [num |-> 99, den |-> 100] ELSE sum
ShouldQueue(a, b, signals) ==
  LET similarity == JaroWinkler(a, b)
      score      == ScoreMatch(similarity, signals)
  IN ~AtLeast(score, 100) /\ AtLeast(score, 84) /\ (AtLeast(similarity, 90) \/ signals > 0)

---------------------------------------------------------------------------
MatchInit == persons = <<>> /\ members = {} /\ suggested = {}

MemberOfOrgs(i) == IF i \in members THEN {persons[i].org} ELSE {}
DomainsOf(p) == {p.domain} \ {Unknown}
Signals(p, orgs, j) ==
  Cardinality({s \in {"domain", "org"} :
    IF s = "domain" THEN DomainsOf(p) \cap DomainsOf(persons[j]) # {}
    ELSE orgs \cap MemberOfOrgs(j) # {}})

(* findMatchCandidates, from the side of the one that landed: the i-th, p. *)
Compared(i) == {k \in DOMAIN persons \ {i} : Cardinality((1..k) \ {i}) <= OldestScanned}
Candidates(i, p, orgs) ==
  {{i, j} : j \in {k \in Compared(i) :
     ShouldQueue(p.name, persons[k].name, Signals(p, orgs, k))}}

LandsNew(p) ==
  /\ Len(persons) < MaxPersons
  /\ LET i == Len(persons) + 1
     IN /\ persons' = Append(persons, p)
        /\ suggested' = suggested \cup Candidates(i, p, {})
        /\ members' = IF p.org = Unknown THEN members ELSE members \cup {i}

SeenAgain(i) ==
  /\ suggested' = suggested \cup Candidates(i, persons[i], MemberOfOrgs(i))
  /\ UNCHANGED <<persons, members>>

MatchNext ==
  \/ \E name \in Names, domain \in Domains \cup {Unknown}, org \in Orgs \cup {Unknown} :
       LandsNew([name |-> name, domain |-> domain, org |-> org])
  \/ \E i \in DOMAIN persons : SeenAgain(i)

MatchSpec == MatchInit /\ [][MatchNext]_matchVars

---------------------------------------------------------------------------
(* What a pair's names and domains say alone, or with their organisations, from
   the side of the one that landed first. *)
InBand(i, j, orgs) == ShouldQueue(persons[i].name, persons[j].name, Signals(persons[i], orgs, j))

(* Which pairs a reviewer sees does not hang on who landed first: a pair whose
   names and domains put it in the band from one side is queued from the other
   when the scan gets that far, and none is queued that both sides with all they
   know leave out. *)
SuggestedEitherWay ==
  \A j \in DOMAIN persons : \A i \in 1..(j - 1) :
    /\ i <= OldestScanned /\ InBand(i, j, {}) => {i, j} \in suggested
    /\ {i, j} \in suggested => InBand(i, j, MemberOfOrgs(i))

(* What candidates.ts:26-27 says, that every pair in the fuzzy band of the one
   that landed is enqueued.  Broken: a scan reads the oldest OldestScanned others. *)
EveryPairSuggested ==
  \A j \in DOMAIN persons : \A i \in 1..(j - 1) : InBand(i, j, {}) => {i, j} \in suggested

(* What matching.ts:193-194 says of a shared organisation, that it nudges a
   borderline pair over the line: a pair of colleagues is queued as they land.
   Broken: the edge to the organisation is written after the scan.  (No connector
   of this repository writes member_of edges yet; the scan reads them.) *)
ColleaguesSuggested ==
  \A j \in DOMAIN persons : \A i \in 1..(j - 1) :
    InBand(i, j, MemberOfOrgs(i)) => {i, j} \in suggested
=============================================================================
