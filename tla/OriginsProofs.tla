--------------------------- MODULE OriginsProofs ---------------------------
(***************************************************************************)
(* What meets the origins: the items that the connectors make records of,  *)
(* the walks that bring them, the script that seeds a demo through them,   *)
(* the tool that reviews pull requests.  The components share no state;    *)
(* each has its own invariant.                                             *)
(***************************************************************************)
EXTENDS ConnectorPaging, WorkItems, SeedDemo, ReviewTool, FiniteOrders

(***************************************************************************)
(* The seeding script.  A decision that a script has picked is a fact of   *)
(* its own demo, and goes no sooner than the demo does.                    *)
(***************************************************************************)
DecisionFacts == [demo : Seeders, meeting : Meetings, n : 1..2]
SeedItems == Meetings \cup Notes \cup Issues \cup Pulls \cup Payloads

SeedPlaces ==
  {"idle", "tenant", "newTenant", "look", "reset", "create", "exists", "config", "granola", "extract",
   "waiting", "linearMarkers", "linear", "githubMarkers", "github", "pushes", "custom", "summary",
   "seeded", "stopped"}

SeedStates ==
  [pc : SeedPlaces, reset : BOOLEAN, tenant : Seeders \cup {Nothing}, found : Seeders \cup {Nothing},
   todo : SUBSET SeedItems, extracted : SUBSET Meetings,
   picked : [Meetings -> DecisionFacts \cup {Nothing}]]

SeedTypes ==
  /\ seeder \in [Seeders -> SeedStates]
  /\ decided \subseteq DecisionFacts
  /\ extracting \subseteq Seeders \X Meetings
  /\ tenants \subseteq Seeders /\ \A d \in demos : d.by \in Seeders

BeforeDemo == {"idle", "tenant", "newTenant", "look", "reset", "create", "exists", "stopped"}

SeederInv(s) ==
  LET r == seeder[s] IN
  /\ r.pc \in BeforeDemo => \A m \in Meetings : r.picked[m] = Nothing
  /\ \A m \in Meetings : r.picked[m] # Nothing =>
       r.picked[m].demo = s /\ (Alive(s) => r.picked[m] \in decided)
  /\ r.pc = "granola" => r.todo \subseteq Meetings \cup Notes
  /\ r.pc = "linear" => r.todo \subseteq Issues /\ Resolved(s, Issues)
  /\ r.pc = "github" => r.todo \subseteq Pulls /\ Resolved(s, Pulls)
  /\ r.pc = "custom" => r.todo \subseteq Payloads

SeedInv == SeedTypes /\ (\A s \in Seeders : SeederInv(s)) /\ MarkersPoint

(* A step of one script changes no other, nor its demo or decisions. *)
LEMMA SeederMoves ==
  ASSUME SeedInv, NEW s \in Seeders, NEW r \in SeedStates, seeder' = [seeder EXCEPT ![s] = r],
         UNCHANGED <<demos, ingested, decided>>,
         tenants' \subseteq Seeders, extracting' \subseteq Seeders \X Meetings,
         r.pc \in BeforeDemo => \A m \in Meetings : r.picked[m] = Nothing,
         \A m \in Meetings : r.picked[m] # Nothing /\ r.picked[m] # seeder[s].picked[m] =>
           r.picked[m].demo = s /\ r.picked[m] \in decided,
         SeederInv(s)' \/ r.pc \notin {"granola", "linear", "github", "custom"}
  PROVE  SeedInv'
<1>1. seeder'[s] = r /\ \A q \in Seeders \ {s} : seeder'[q] = seeder[q]
  BY DEF SeedInv, SeedTypes
<1>2. SeedTypes'
  BY DEF SeedInv, SeedTypes
<1>3. \A q \in Seeders : Alive(q)' = Alive(q)
  BY DEF Alive
<1>4. SeederInv(s)'
  BY <1>1, <1>3 DEF SeedInv, SeederInv, BeforeDemo
<1>5. ASSUME NEW q \in Seeders \ {s} PROVE SeederInv(q)'
  BY <1>1, <1>3 DEF SeedInv, SeederInv, Resolved, Wanted
<1> QED BY <1>2, <1>4, <1>5 DEF SeedInv, MarkersPoint

LEMMA NewSeed == NoSeed \in SeedStates /\ \A m \in Meetings : NoSeed.picked[m] = Nothing
BY DEF NoSeed, SeedStates, SeedPlaces

LEMMA SeederIsTyped ==
  ASSUME SeedInv, NEW s \in Seeders
  PROVE  seeder[s] \in SeedStates
BY DEF SeedInv, SeedTypes

(* A script that goes on to a step in no sync, with what it holds. *)
LEMMA SeederGoesOn ==
  ASSUME SeedInv, NEW s \in Seeders, NEW pc \in SeedPlaces \ {"granola", "linear", "github", "custom"},
         To(s, pc), pc \in BeforeDemo => seeder[s].pc \in BeforeDemo,
         UNCHANGED <<tenants, demos, ingested, decided, extracting>>
  PROVE  SeedInv'
<1> DEFINE r == [seeder[s] EXCEPT !.pc = pc]
<1>1. r \in SeedStates /\ r.pc = pc /\ r.picked = seeder[s].picked
  BY SeederIsTyped DEF SeedStates
<1>2. seeder' = [seeder EXCEPT ![s] = r]
  BY DEF To, Goes
<1>3. r.pc \in BeforeDemo => \A m \in Meetings : r.picked[m] = Nothing
  BY <1>1 DEF SeedInv, SeederInv
<1>4. tenants' \subseteq Seeders /\ extracting' \subseteq Seeders \X Meetings
  BY DEF SeedInv, SeedTypes
<1> HIDE DEF r
<1> QED BY <1>1, <1>2, <1>3, <1>4, SeederMoves

(* A script that starts over with nothing, or stops. *)
LEMMA SeederClears ==
  ASSUME SeedInv, NEW s \in Seeders, NEW r \in SeedStates, Goes(s, r), r.pc \in BeforeDemo,
         r.picked = NoSeed.picked, UNCHANGED <<demos, ingested, decided>>,
         tenants' \subseteq Seeders, extracting' \subseteq Seeders \X Meetings
  PROVE  SeedInv'
<1>1. \A m \in Meetings : r.picked[m] = Nothing
  BY NewSeed
<1>2. r.pc \notin {"granola", "linear", "github", "custom"}
  BY DEF BeforeDemo
<1>3. r.pc \in BeforeDemo => \A m \in Meetings : r.picked[m] = Nothing
  BY <1>1
<1>4. seeder' = [seeder EXCEPT ![s] = r]
  BY DEF Goes
<1>5. \A m \in Meetings : r.picked[m] # Nothing /\ r.picked[m] # seeder[s].picked[m] =>
        r.picked[m].demo = s /\ r.picked[m] \in decided
  BY <1>1
<1>6. tenants' \subseteq Seeders /\ extracting' \subseteq Seeders \X Meetings
  OBVIOUS
<1> QED BY <1>2, <1>3, <1>4, <1>5, <1>6, SeederMoves

LEMMA BeforeItsDemo ==
  ASSUME SeedInv, NEW s \in Seeders
  PROVE  /\ Stops(s) /\ UNCHANGED <<tenants, demos, ingested, decided>>
              /\ extracting' \subseteq extracting => SeedInv'
         /\ \A reset \in BOOLEAN : SeedStarts(s, reset) => SeedInv'
         /\ LooksForTenant(s) \/ InsertsTenant(s) \/ LooksForDemo(s) => SeedInv'
<1>0. seeder[s] \in SeedStates /\ tenants \subseteq Seeders /\ extracting \subseteq Seeders \X Meetings
  BY DEF SeedInv, SeedTypes
<1>1. ASSUME Stops(s), UNCHANGED <<tenants, demos, ingested, decided>>, extracting' \subseteq extracting
      PROVE  SeedInv'
  <2> DEFINE r == [NoSeed EXCEPT !.pc = "stopped"]
  <2>1. r \in SeedStates /\ r.pc \in BeforeDemo /\ r.picked = NoSeed.picked
    BY NewSeed DEF SeedStates, SeedPlaces, BeforeDemo
  <2>2. Goes(s, r)
    BY <1>1 DEF Stops
  <2> HIDE DEF r
  <2> QED BY <1>0, <1>1, <2>1, <2>2, SeederClears
<1>2. ASSUME NEW reset \in BOOLEAN, SeedStarts(s, reset) PROVE SeedInv'
  <2> DEFINE r == [NoSeed EXCEPT !.pc = "tenant", !.reset = reset]
  <2>1. r \in SeedStates /\ r.pc \in BeforeDemo /\ r.picked = NoSeed.picked
    BY NewSeed DEF SeedStates, SeedPlaces, BeforeDemo
  <2>2. Goes(s, r) /\ UNCHANGED <<tenants, demos, ingested, decided, extracting>>
    BY <1>2 DEF SeedStarts
  <2> HIDE DEF r
  <2> QED BY <1>0, <2>1, <2>2, SeederClears
<1>3. ASSUME NEW r \in SeedStates, Goes(s, r), r.pc \in BeforeDemo, r.picked = seeder[s].picked,
             seeder[s].pc \in BeforeDemo, UNCHANGED <<demos, ingested, decided, extracting>>,
             tenants' \subseteq Seeders
      PROVE  SeedInv'
  <2>1. \A m \in Meetings : r.picked[m] = Nothing
    BY <1>3 DEF SeedInv, SeederInv
  <2>2. r.pc \notin {"granola", "linear", "github", "custom"}
    BY <1>3 DEF BeforeDemo
  <2> QED BY <1>0, <1>3, <2>1, <2>2, SeederMoves DEF Goes
<1>4. CASE LooksForTenant(s)
  <2>1. PICK r : /\ Goes(s, r)
                 /\ \/ r = [seeder[s] EXCEPT !.pc = "newTenant"]
                    \/ \E t \in tenants : r = [seeder[s] EXCEPT !.pc = "look", !.tenant = t]
    BY <1>4 DEF LooksForTenant, To
  <2>2. r \in SeedStates /\ r.pc \in BeforeDemo /\ r.picked = seeder[s].picked
    BY <1>0, <2>1 DEF SeedStates, SeedPlaces, BeforeDemo
  <2> QED BY <1>0, <1>3, <1>4, <2>1, <2>2 DEF LooksForTenant, BeforeDemo
<1>5. CASE InsertsTenant(s)
  <2> DEFINE r == [seeder[s] EXCEPT !.pc = "look", !.tenant = s]
  <2>2. r \in SeedStates /\ r.pc \in BeforeDemo /\ r.picked = seeder[s].picked
    BY <1>0 DEF SeedStates, SeedPlaces, BeforeDemo
  <2>3. Goes(s, r)
    BY <1>5 DEF InsertsTenant
  <2> HIDE DEF r
  <2> QED BY <1>0, <1>3, <1>5, <2>2, <2>3 DEF InsertsTenant, BeforeDemo
<1>6. CASE LooksForDemo(s)
  <2>1. PICK r : /\ Goes(s, r)
                 /\ \/ r = [seeder[s] EXCEPT !.pc = "create"]
                    \/ \E d \in Looks(s) : r = [seeder[s] EXCEPT
                         !.pc = IF seeder[s].reset THEN "reset" ELSE "exists", !.found = d.by]
    BY <1>6 DEF LooksForDemo, To
  <2>2. \A d \in Looks(s) : d.by \in Seeders
    BY DEF SeedInv, SeedTypes, Looks
  <2>3. r \in SeedStates /\ r.pc \in BeforeDemo /\ r.picked = seeder[s].picked
    BY <1>0, <2>1, <2>2 DEF SeedStates, SeedPlaces, BeforeDemo
  <2> QED BY <1>0, <1>3, <1>6, <2>1, <2>3 DEF LooksForDemo, BeforeDemo
<1> QED BY <1>1, <1>2, <1>4, <1>5, <1>6

(* A demo that is deleted takes its tickets and its decisions with it. *)
LEMMA DemoMoves ==
  ASSUME SeedInv, NEW s \in Seeders
  PROVE  Resets(s) \/ CreatesEngagement(s) => SeedInv'
<1>0. seeder[s] \in SeedStates
  BY SeederIsTyped
<1>1. CASE Resets(s)
  <2> DEFINE r == [seeder[s] EXCEPT !.pc = "create", !.found = Nothing]
             d == seeder[s].found
  <2>1. r \in SeedStates /\ r.pc = "create" /\ r.picked = seeder[s].picked
    BY <1>0 DEF SeedStates, SeedPlaces
  <2>2. seeder' = [seeder EXCEPT ![s] = r] /\ seeder[s].pc = "reset"
    BY <1>1 DEF Resets, Goes
  <2> HIDE DEF r
  <2>3. /\ demos' = {x \in demos : x.by # d} /\ ingested' = ingested \ Demo(d)
        /\ decided' = {f \in decided : f.demo # d} /\ UNCHANGED <<tenants, extracting>>
    BY <1>1 DEF Resets
  <2>4. \A q \in Seeders : Alive(q)' => Alive(q) /\ q # d
    BY <2>3 DEF Alive
  <2>5. SeedTypes'
    BY <2>1, <2>2, <2>3 DEF SeedInv, SeedTypes
  <2>6. MarkersPoint'
    BY <2>3 DEF SeedInv, MarkersPoint, Demo
  <2>7. SeederInv(s)'
    BY <2>1, <2>2, <1>0 DEF SeedInv, SeedTypes, SeederInv, BeforeDemo
  <2>8. ASSUME NEW q \in Seeders \ {s} PROVE SeederInv(q)'
    <3>1. seeder'[q] = seeder[q]
      BY <2>2 DEF SeedInv, SeedTypes
    <3>2. \A m \in Meetings : seeder[q].picked[m] # Nothing =>
            seeder[q].picked[m].demo = q /\ (Alive(q)' => seeder[q].picked[m] \in decided')
      BY <2>3, <2>4 DEF SeedInv, SeederInv
    <3> QED BY <3>1, <3>2 DEF SeedInv, SeederInv, Resolved, Wanted
  <2> QED BY <2>5, <2>6, <2>7, <2>8 DEF SeedInv
<1>2. CASE CreatesEngagement(s)
  <2> DEFINE r == [seeder[s] EXCEPT !.pc = "config"]
  <2>1. r \in SeedStates /\ r.pc = "config" /\ r.picked = seeder[s].picked
    BY <1>0 DEF SeedStates, SeedPlaces
  <2>2. seeder' = [seeder EXCEPT ![s] = r] /\ seeder[s].pc = "create"
    BY <1>2 DEF CreatesEngagement, To, Goes
  <2> HIDE DEF r
  <2>3. /\ demos' = demos \cup {[by |-> s, tenant |-> seeder[s].tenant]}
        /\ UNCHANGED <<tenants, ingested, decided, extracting>>
    BY <1>2 DEF CreatesEngagement
  <2>4. \A q \in Seeders \ {s} : Alive(q)' => Alive(q)
    BY <2>3 DEF Alive
  <2>5. SeedTypes'
    BY <2>1, <2>2, <2>3 DEF SeedInv, SeedTypes
  <2>6. \A m \in Meetings : r.picked[m] = Nothing
    BY <2>1, <2>2 DEF SeedInv, SeederInv, BeforeDemo
  <2>7. SeederInv(s)'
    BY <2>1, <2>2, <2>6 DEF SeedInv, SeedTypes, SeederInv
  <2>8. ASSUME NEW q \in Seeders \ {s} PROVE SeederInv(q)'
    <3>1. seeder'[q] = seeder[q]
      BY <2>2 DEF SeedInv, SeedTypes
    <3> QED BY <2>3, <2>4, <3>1 DEF SeedInv, SeederInv, Resolved, Wanted
  <2> QED BY <2>3, <2>5, <2>7, <2>8 DEF SeedInv, MarkersPoint
<1> QED BY <1>1, <1>2

(* A sync is started with what there is of its kind, and its markers resolved. *)
LEMMA SyncStarts ==
  ASSUME SeedInv, NEW s \in Seeders, NEW at \in {"granola", "linear", "github", "custom"},
         StartsSync(s, at), UNCHANGED <<tenants, demos, ingested, decided, extracting>>,
         at = "linear" => Resolved(s, Issues), at = "github" => Resolved(s, Pulls)
  PROVE  SeedInv'
<1> DEFINE r == [seeder[s] EXCEPT !.pc = at, !.todo = Sync[at]]
<1>1. seeder[s] \in SeedStates /\ Sync[at] \subseteq SeedItems
  BY SeederIsTyped DEF Sync, SeedItems
<1>2. r \in SeedStates /\ r.pc = at /\ r.todo = Sync[at] /\ r.picked = seeder[s].picked
  BY <1>1 DEF SeedStates, SeedPlaces
<1>3. seeder' = [seeder EXCEPT ![s] = r]
  BY DEF StartsSync, Goes
<1> HIDE DEF r
<1>4. seeder'[s] = r
  BY <1>3 DEF SeedInv, SeedTypes
<1>5. SeederInv(s)'
  <2>1. Alive(s)' = Alive(s)
    BY DEF Alive
  <2>2. at = "linear" => Resolved(s, Issues)'
    BY <1>2, <1>4 DEF Resolved, Wanted
  <2>3. at = "github" => Resolved(s, Pulls)'
    BY <1>2, <1>4 DEF Resolved, Wanted
  <2> QED BY <1>2, <1>4, <2>1, <2>2, <2>3 DEF SeedInv, SeederInv, BeforeDemo, Sync
<1> QED BY <1>2, <1>3, <1>5, SeederMoves DEF BeforeDemo, SeedInv, SeedTypes

(* What lands with a marker lands with the one that its script resolved. *)
LEMMA SeedIngests ==
  ASSUME SeedInv, NEW s \in Seeders, Ingests(s)
  PROVE  SeedInv'
<1>1. PICK i \in seeder[s].todo :
        /\ ingested' = ingested \cup {[demo |-> s, item |-> i, fact |-> MarkerIn(s, i)]}
        /\ Goes(s, [seeder[s] EXCEPT !.todo = @ \ {i}])
  BY DEF Ingests
<1>2. /\ seeder[s].pc \in {"granola", "linear", "github", "custom"} /\ Alive(s)
      /\ UNCHANGED <<tenants, demos, decided, extracting>>
  BY DEF Ingests, Sync
<1> DEFINE r == [seeder[s] EXCEPT !.todo = @ \ {i}]
<1>3. r \in SeedStates /\ r.pc = seeder[s].pc /\ r.picked = seeder[s].picked
      /\ r.todo = seeder[s].todo \ {i}
  BY SeederIsTyped DEF SeedStates
<1>4. seeder'[s] = r /\ \A q \in Seeders \ {s} : seeder'[q] = seeder[q]
  BY <1>1 DEF SeedInv, SeedTypes, Goes
<1>5. SeedTypes'
  BY <1>1, <1>2, <1>3 DEF SeedInv, SeedTypes, Goes
<1> HIDE DEF r
<1>6. \A q \in Seeders : Alive(q)' = Alive(q)
  BY <1>2 DEF Alive
<1>7. \A q \in Seeders : SeederInv(q)'
  <2>1. SeederInv(s)'
    BY <1>2, <1>3, <1>4, <1>6 DEF SeedInv, SeederInv, Resolved, Wanted
  <2>2. ASSUME NEW q \in Seeders \ {s} PROVE SeederInv(q)'
    BY <1>2, <1>4, <1>6 DEF SeedInv, SeederInv, Resolved, Wanted
  <2> QED BY <2>1, <2>2
<1>8. Bakes(i) => MarkerIn(s, i) \in decided /\ MarkerIn(s, i).demo = s
  <2> SUFFICES ASSUME Bakes(i) PROVE MarkerIn(s, i) \in decided /\ MarkerIn(s, i).demo = s
    OBVIOUS
  <2>1. i \in Issues \cup Pulls /\ MarkerOf[i] \in Meetings
    BY SeedAssumption DEF Bakes
  <2>2. (i \in Issues /\ Resolved(s, Issues)) \/ (i \in Pulls /\ Resolved(s, Pulls))
    BY <1>2, <2>1, SeedAssumption DEF SeedInv, SeederInv
  <2>3. seeder[s].picked[MarkerOf[i]] # Nothing
    BY <2>2 DEF Resolved, Wanted
  <2> QED BY <1>2, <2>1, <2>3 DEF SeedInv, SeederInv, MarkerIn
<1>9. MarkersPoint'
  BY <1>1, <1>2, <1>8 DEF SeedInv, MarkersPoint, Bakes
<1> QED BY <1>5, <1>7, <1>9 DEF SeedInv

(* A decision is picked among the facts of the script's own demo. *)
LEMMA SeedResolves ==
  ASSUME SeedInv, NEW s \in Seeders, NEW pc \in {"linearMarkers", "githubMarkers"},
         NEW items \in {Issues, Pulls}, ResolvesDecision(s, pc, items)
  PROVE  SeedInv'
<1>1. PICK m \in Wanted(s, items) : IF Candidates(s, m) = {} THEN Stops(s)
        ELSE \E f \in Candidates(s, m) : Goes(s, [seeder[s] EXCEPT !.picked[m] = f])
  BY DEF ResolvesDecision
<1>2. seeder[s].pc = pc /\ UNCHANGED <<tenants, demos, ingested, decided, extracting>>
  BY DEF ResolvesDecision
<1>3. CASE Stops(s)
  BY <1>2, <1>3, BeforeItsDemo
<1>4. ASSUME NEW f \in Candidates(s, m), Goes(s, [seeder[s] EXCEPT !.picked[m] = f]) PROVE SeedInv'
  <2> DEFINE r == [seeder[s] EXCEPT !.picked[m] = f]
  <2>1. f \in decided /\ f.demo = s /\ f \in DecisionFacts
    BY DEF Candidates, SeedInv, SeedTypes
  <2>2. /\ r \in SeedStates /\ r.pc = pc /\ r.picked = [seeder[s].picked EXCEPT ![m] = f]
        /\ seeder[s].picked \in [Meetings -> DecisionFacts \cup {Nothing}]
    BY <1>2, <2>1, SeederIsTyped DEF SeedStates
  <2>3. seeder' = [seeder EXCEPT ![s] = r]
    BY <1>4 DEF Goes
  <2> HIDE DEF r
  <2>4. \A x \in Meetings : r.picked[x] # Nothing /\ r.picked[x] # seeder[s].picked[x] =>
          r.picked[x].demo = s /\ r.picked[x] \in decided
    BY <2>1, <2>2
  <2> QED BY <1>2, <2>2, <2>3, <2>4, SeederMoves DEF BeforeDemo, SeedInv, SeedTypes
<1> QED BY <1>1, <1>3, <1>4

(* Extractions only add decisions. *)
LEMMA SeedExtracts ==
  ASSUME SeedInv
  PROVE  /\ \A s \in Seeders : StartsExtraction(s) => SeedInv'
         /\ WorkerExtracts => SeedInv'
<1>1. ASSUME NEW s \in Seeders, StartsExtraction(s) PROVE SeedInv'
  <2>1. PICK m \in Meetings :
          /\ extracting' = extracting \cup {<<s, m>>}
          /\ Goes(s, [seeder[s] EXCEPT !.pc = "waiting", !.extracted = @ \cup {m}])
    BY <1>1 DEF StartsExtraction
  <2> DEFINE r == [seeder[s] EXCEPT !.pc = "waiting", !.extracted = @ \cup {m}]
  <2> DEFINE more == seeder[s].extracted \cup {m}
  <2>2. seeder[s] \in SeedStates /\ more \in SUBSET Meetings /\ "waiting" \in SeedPlaces
    BY SeederIsTyped DEF SeedStates, SeedPlaces
  <2> HIDE DEF more
  <2>3. r \in SeedStates /\ r.pc = "waiting" /\ r.picked = seeder[s].picked
    <3>1. r = [seeder[s] EXCEPT !.pc = "waiting", !.extracted = more]
      BY DEF more
    <3> HIDE DEF r
    <3> QED BY <2>2, <3>1 DEF SeedStates
  <2>4. seeder' = [seeder EXCEPT ![s] = r]
    BY <2>1 DEF Goes
  <2> HIDE DEF r
  <2>5. /\ UNCHANGED <<tenants, demos, ingested, decided>>
        /\ tenants' \subseteq Seeders /\ extracting' \subseteq Seeders \X Meetings
    BY <1>1, <2>1 DEF StartsExtraction, SeedInv, SeedTypes
  <2> QED BY <2>3, <2>4, <2>5, SeederMoves DEF BeforeDemo
<1>2. ASSUME WorkerExtracts PROVE SeedInv'
  <2>1. PICK e \in extracting :
          /\ extracting' = extracting \ {e} /\ UNCHANGED <<tenants, demos, ingested>>
          /\ \/ /\ \E n \in 0..2 :
                     decided' = decided \cup {[demo |-> e[1], meeting |-> e[2], n |-> k] : k \in 1..n}
                /\ IF seeder[e[1]].pc = "waiting" THEN To(e[1], "extract") ELSE UNCHANGED seeder
             \/ /\ IF seeder[e[1]].pc = "waiting" THEN Stops(e[1]) ELSE UNCHANGED seeder
                /\ UNCHANGED decided
    BY <1>2 DEF WorkerExtracts
  <2>2. e[1] \in Seeders /\ e[2] \in Meetings
    BY DEF SeedInv, SeedTypes
  <2>3. CASE Stops(e[1]) /\ UNCHANGED decided
    BY <2>1, <2>2, <2>3, BeforeItsDemo
  <2>4. CASE To(e[1], "extract") \/ UNCHANGED seeder
    <3>0. decided \subseteq decided' /\ decided' \subseteq DecisionFacts
      <4>1. PICK n \in 0..2 : \/ UNCHANGED decided
              \/ decided' = decided \cup {[demo |-> e[1], meeting |-> e[2], n |-> k] : k \in 1..n}
        BY <2>1
      <4>2. \A k \in 1..n : [demo |-> e[1], meeting |-> e[2], n |-> k] \in DecisionFacts
        BY <2>2 DEF DecisionFacts
      <4> QED BY <4>1, <4>2 DEF SeedInv, SeedTypes
    <3>1. \A q \in Seeders :
            /\ seeder'[q] \in SeedStates /\ seeder'[q].picked = seeder[q].picked
            /\ seeder'[q].pc = "extract" \/ seeder'[q] = seeder[q]
      <4>1. CASE UNCHANGED seeder
        BY <4>1, SeederIsTyped
      <4>2. CASE To(e[1], "extract")
        <5>1. [seeder[e[1]] EXCEPT !.pc = "extract"] \in SeedStates
          BY <2>2, SeederIsTyped DEF SeedStates, SeedPlaces
        <5>2. \A q \in Seeders : seeder'[q] =
                IF q = e[1] THEN [seeder[e[1]] EXCEPT !.pc = "extract"] ELSE seeder[q]
          BY <4>2, <2>2 DEF To, Goes, SeedInv, SeedTypes
        <5>3. [seeder[e[1]] EXCEPT !.pc = "extract"].picked = seeder[e[1]].picked
              /\ [seeder[e[1]] EXCEPT !.pc = "extract"].pc = "extract"
          BY <2>2, SeederIsTyped DEF SeedStates
        <5> QED BY <5>1, <5>2, <5>3, SeederIsTyped
      <4> QED BY <2>4, <4>1, <4>2
    <3>2. SeedTypes'
      <4>1. seeder' \in [Seeders -> SeedStates]
        <5>1. \E g : seeder' = [q \in Seeders |-> g[q]]
          BY <2>4, <2>2 DEF To, Goes, SeedInv, SeedTypes
        <5> QED BY <3>1, <5>1
      <4> QED BY <4>1, <2>1, <3>0 DEF SeedInv, SeedTypes
    <3>3. \A q \in Seeders : Alive(q)' = Alive(q)
      BY <2>1 DEF Alive
    <3>4. ASSUME NEW q \in Seeders PROVE SeederInv(q)'
      BY <3>0, <3>1, <3>3 DEF SeedInv, SeederInv, BeforeDemo, Resolved, Wanted
    <3> QED BY <2>1, <3>0, <3>2, <3>4 DEF SeedInv, MarkersPoint
  <2> QED BY <2>1, <2>3, <2>4
<1> QED BY <1>1, <1>2

LEMMA SeedInvNext ==
  ASSUME SeedInv, [SeedNext]_seedVars
  PROVE  SeedInv'
<1>1. CASE UNCHANGED seedVars
  BY <1>1 DEF seedVars, SeedInv, SeedTypes, SeederInv, Alive, Resolved, Wanted, MarkersPoint
<1>2. CASE WorkerExtracts
  BY <1>2, SeedExtracts
<1>3. ASSUME NEW s \in Seeders,
             \/ SyncDrains(s) \/ ExtractionDone(s) \/ PrintsSummary(s)
      PROVE  SeedInv'
  <2>1. PICK pc \in {"extract", "githubMarkers", "pushes", "summary", "linearMarkers", "seeded"} :
          To(s, pc) /\ UNCHANGED <<tenants, demos, ingested, decided, extracting>>
    BY <1>3 DEF SyncDrains, ExtractionDone, PrintsSummary, After, Sync
  <2>2. pc \in SeedPlaces \ {"granola", "linear", "github", "custom"} /\ pc \notin BeforeDemo
    BY DEF SeedPlaces, BeforeDemo
  <2> QED BY <2>1, <2>2, SeederGoesOn
<1>4. ASSUME NEW s \in Seeders,
             \/ ConfiguresConnectors(s) \/ MarkersResolved(s) \/ CreatesIntegration(s)
      PROVE  SeedInv'
  BY <1>4, SyncStarts DEF ConfiguresConnectors, MarkersResolved, CreatesIntegration
<1>5. ASSUME NEW s \in Seeders, SeedStops(s) PROVE SeedInv'
  BY <1>5, BeforeItsDemo DEF SeedStops
<1> QED
  BY <1>1, <1>2, <1>3, <1>4, <1>5, BeforeItsDemo, DemoMoves, SeedIngests, SeedResolves, SeedExtracts
  DEF SeedNext

LEMMA SeedInitInv == SeedInit => SeedInv
<1> SUFFICES ASSUME SeedInit PROVE SeedInv
  OBVIOUS
<1>1. SeedTypes
  BY NewSeed DEF SeedInit, SeedTypes
<1>2. \A s \in Seeders : seeder[s].pc = "idle" /\ \A m \in Meetings : seeder[s].picked[m] = Nothing
  BY NewSeed DEF SeedInit, NoSeed
<1> QED BY <1>1, <1>2 DEF SeedInit, SeedInv, SeederInv, MarkersPoint

(* orchestrate.ts refuses to ingest a ticket whose decision it did not find.  No
   marker dangles, for any scripts, items and decisions, wherever scripts stop,
   run beside one another or reset each other's demo. *)
THEOREM MarkersNeverDangle == SeedSpec => []MarkersPoint
<1>1. SeedInv /\ [SeedNext]_seedVars => SeedInv'
  BY SeedInvNext
<1>2. SeedInv => MarkersPoint
  BY DEF SeedInv
<1> QED BY SeedInitInv, <1>1, <1>2, PTL DEF SeedSpec

-----------------------------------------------------------------------------
(* What a script that got to its summary has landed: each sync has landed what it *)
(* no longer has to do, and the later steps come after the syncs.                *)

PastSync ==
  [granola |-> {"extract", "waiting", "linearMarkers", "linear", "githubMarkers", "github", "pushes",
                "custom", "summary", "seeded"},
   linear  |-> {"githubMarkers", "github", "pushes", "custom", "summary", "seeded"},
   github  |-> {"pushes", "custom", "summary", "seeded"},
   custom  |-> {"summary", "seeded"}]
Syncs == {"granola", "linear", "github", "custom"}

InDemo(s, i) == \E x \in ingested : x.demo = s /\ x.item = i
WholeAt(s, r) ==
  \A at \in Syncs :
    /\ r.pc = at => \A i \in Sync[at] \ r.todo : InDemo(s, i)
    /\ r.pc \in PastSync[at] => \A i \in Sync[at] : InDemo(s, i)
WholeInv(s) == Alive(s) => WholeAt(s, seeder[s])
WholesInv == \A s \in Seeders : WholeInv(s)

LEMMA PastAre ==
  /\ \A at \in Syncs : PastSync[at] \subseteq SeedPlaces \ BeforeDemo
  /\ PastSync["granola"] = {"extract", "waiting", "linearMarkers", "linear", "githubMarkers", "github",
                            "pushes", "custom", "summary", "seeded"}
  /\ PastSync["linear"] = {"githubMarkers", "github", "pushes", "custom", "summary", "seeded"}
  /\ PastSync["github"] = {"pushes", "custom", "summary", "seeded"}
  /\ PastSync["custom"] = {"summary", "seeded"}
  /\ DOMAIN Sync = Syncs
BY DEF PastSync, Syncs, Sync, SeedPlaces, BeforeDemo

(* A step of one script that lands nothing, where its own stage allows the next. *)
LEMMA WholeMoves ==
  ASSUME SeedInv, WholesInv, NEW s \in Seeders, NEW r, seeder' = [seeder EXCEPT ![s] = r],
         UNCHANGED <<demos, ingested>>, Alive(s) => WholeAt(s, r)
  PROVE  WholesInv'
<1>1. seeder'[s] = r /\ \A q \in Seeders \ {s} : seeder'[q] = seeder[q]
  BY DEF SeedInv, SeedTypes
<1>2. ASSUME NEW q \in Seeders, Alive(q) => WholeAt(q, seeder'[q]) PROVE WholeInv(q)'
  BY <1>2 DEF WholeInv, WholeAt, InDemo, Alive
<1>3. ASSUME NEW q \in Seeders PROVE Alive(q) => WholeAt(q, seeder'[q])
  BY <1>1, <1>3 DEF WholesInv, WholeInv
<1> QED BY <1>2, <1>3 DEF WholesInv

LEMMA NotYetWhole ==
  ASSUME NEW s, NEW r, r.pc \in BeforeDemo \cup {"config"}
  PROVE  WholeAt(s, r)
<1>1. r.pc \notin Syncs /\ \A at \in Syncs : r.pc \notin PastSync[at]
  BY PastAre DEF BeforeDemo, Syncs
<1> QED BY <1>1 DEF WholeAt

(* A script that goes from one step to another of the same stage. *)
LEMMA SameStage ==
  ASSUME SeedInv, WholesInv, NEW s \in Seeders, NEW r, Alive(s), r.pc \notin Syncs,
         \A at \in Syncs : r.pc \in PastSync[at] =>
           seeder[s].pc \in PastSync[at] \/ (seeder[s].pc = at /\ seeder[s].todo = {})
  PROVE  WholeAt(s, r)
<1>1. WholeAt(s, seeder[s])
  BY DEF WholesInv, WholeInv
<1>2. ASSUME NEW at \in Syncs, r.pc \in PastSync[at], NEW i \in Sync[at] PROVE InDemo(s, i)
  BY <1>1, <1>2 DEF WholeAt
<1> QED BY <1>2 DEF WholeAt

LEMMA SyncStage ==
  ASSUME SeedInv, WholesInv, NEW s \in Seeders, NEW at \in Syncs, StartsSync(s, at),
         UNCHANGED <<demos, ingested>>,
         \A a \in Syncs : at \in PastSync[a] => seeder[s].pc \in PastSync[a]
  PROVE  WholesInv'
<1> DEFINE r == [seeder[s] EXCEPT !.pc = at, !.todo = Sync[at]]
<1>1. r.pc = at /\ r.todo = Sync[at] /\ seeder' = [seeder EXCEPT ![s] = r]
  BY SeederIsTyped DEF SeedStates, StartsSync, Goes
<1> HIDE DEF r
<1>2. ASSUME Alive(s) PROVE WholeAt(s, r)
  <2>1. WholeAt(s, seeder[s])
    BY <1>2 DEF WholesInv, WholeInv
  <2>2. ASSUME NEW a \in Syncs, r.pc \in PastSync[a], NEW i \in Sync[a] PROVE InDemo(s, i)
    BY <1>1, <2>1, <2>2 DEF WholeAt
  <2>3. ASSUME NEW a \in Syncs, r.pc = a, NEW i \in Sync[a] \ r.todo PROVE InDemo(s, i)
    BY <1>1, <2>3
  <2> QED BY <2>2, <2>3 DEF WholeAt
<1> QED BY <1>1, <1>2, WholeMoves

LEMMA WholeKeeps ==
  ASSUME SeedInv, WholesInv, [SeedNext]_seedVars
  PROVE  WholesInv'
<1>1. CASE UNCHANGED seedVars
  BY <1>1 DEF seedVars, WholesInv, WholeInv, WholeAt, InDemo, Alive
<1>2. ASSUME NEW s \in Seeders, NEW r, Goes(s, r), r.pc \in BeforeDemo, UNCHANGED <<demos, ingested>>
      PROVE  WholesInv'
  BY <1>2, NotYetWhole, WholeMoves DEF Goes
<1>3. ASSUME NEW s \in Seeders, Stops(s), UNCHANGED <<demos, ingested>> PROVE WholesInv'
  <2>1. [NoSeed EXCEPT !.pc = "stopped"].pc \in BeforeDemo
    BY DEF NoSeed, BeforeDemo
  <2> QED BY <1>2, <1>3, <2>1 DEF Stops
<1>4. ASSUME NEW s \in Seeders,
             (\E reset \in BOOLEAN : SeedStarts(s, reset)) \/ LooksForTenant(s) \/ InsertsTenant(s)
               \/ LooksForDemo(s)
      PROVE  WholesInv'
  <2>0. seeder[s] \in SeedStates
    BY SeederIsTyped
  <2>1. PICK r : Goes(s, r) /\ r.pc \in BeforeDemo
    <3>1. CASE \E reset \in BOOLEAN : SeedStarts(s, reset)
      <4>1. PICK reset : Goes(s, [NoSeed EXCEPT !.pc = "tenant", !.reset = reset])
        BY <3>1 DEF SeedStarts
      <4>2. [NoSeed EXCEPT !.pc = "tenant", !.reset = reset].pc = "tenant"
        BY DEF NoSeed
      <4> QED BY <4>1, <4>2 DEF BeforeDemo
    <3>2. CASE LooksForTenant(s)
      <4>1. [seeder[s] EXCEPT !.pc = "newTenant"].pc = "newTenant"
            /\ \A t : [seeder[s] EXCEPT !.pc = "look", !.tenant = t].pc = "look"
        BY <2>0 DEF SeedStates
      <4> QED BY <3>2, <4>1 DEF LooksForTenant, To, BeforeDemo
    <3>3. CASE InsertsTenant(s)
      <4>1. [seeder[s] EXCEPT !.pc = "look", !.tenant = s].pc = "look"
        BY <2>0 DEF SeedStates
      <4> QED BY <3>3, <4>1 DEF InsertsTenant, BeforeDemo
    <3>4. CASE LooksForDemo(s)
      <4>1. /\ [seeder[s] EXCEPT !.pc = "create"].pc = "create"
            /\ \A d : [seeder[s] EXCEPT !.pc = IF seeder[s].reset THEN "reset" ELSE "exists",
                                          !.found = d.by].pc \in {"reset", "exists"}
        BY <2>0 DEF SeedStates
      <4> QED BY <3>4, <4>1 DEF LooksForDemo, To, BeforeDemo
    <3> QED BY <1>4, <3>1, <3>2, <3>3, <3>4
  <2>2. UNCHANGED <<demos, ingested>>
    BY <1>4 DEF SeedStarts, LooksForTenant, InsertsTenant, LooksForDemo
  <2> QED BY <1>2, <2>1, <2>2
<1>5. ASSUME NEW s \in Seeders, Resets(s) PROVE WholesInv'
  <2> DEFINE r == [seeder[s] EXCEPT !.pc = "create", !.found = Nothing]
             d == seeder[s].found
  <2>1. r.pc = "create" /\ seeder' = [seeder EXCEPT ![s] = r]
    BY <1>5, SeederIsTyped DEF SeedStates, Resets, Goes
  <2> HIDE DEF r
  <2>2. demos' = {x \in demos : x.by # d} /\ ingested' = ingested \ Demo(d)
    BY <1>5 DEF Resets
  <2>3. seeder'[s] = r /\ \A q \in Seeders \ {s} : seeder'[q] = seeder[q]
    BY <2>1 DEF SeedInv, SeedTypes
  <2>4. \A q \in Seeders : Alive(q)' => Alive(q) /\ q # d
    BY <2>2 DEF Alive
  <2>5. \A q \in Seeders : q # d => \A i : InDemo(q, i) => InDemo(q, i)'
    BY <2>2 DEF InDemo, Demo
  <2>6. ASSUME NEW q \in Seeders, Alive(q)' PROVE WholeAt(q, seeder[q])' 
    <3>1. CASE q = s
      <4>1. seeder'[s].pc \in BeforeDemo
        BY <2>1, <2>3 DEF BeforeDemo
      <4>2. seeder'[s].pc \notin Syncs /\ \A at \in Syncs : seeder'[s].pc \notin PastSync[at]
        BY <4>1, PastAre DEF BeforeDemo, Syncs
      <4> QED BY <3>1, <4>2 DEF WholeAt
    <3>2. CASE q # s
      <4>1. WholeAt(q, seeder[q]) /\ q # d
        BY <2>4, <2>6 DEF WholesInv, WholeInv
      <4> QED BY <2>3, <2>5, <3>2, <4>1 DEF WholeAt
    <3> QED BY <3>1, <3>2
  <2> QED BY <2>6 DEF WholesInv, WholeInv
<1>6. ASSUME NEW s \in Seeders, CreatesEngagement(s) PROVE WholesInv'
  <2> DEFINE r == [seeder[s] EXCEPT !.pc = "config"]
  <2>1. r.pc = "config" /\ seeder' = [seeder EXCEPT ![s] = r]
    BY <1>6, SeederIsTyped DEF SeedStates, CreatesEngagement, To, Goes
  <2> HIDE DEF r
  <2>2. demos' = demos \cup {[by |-> s, tenant |-> seeder[s].tenant]} /\ UNCHANGED ingested
    BY <1>6 DEF CreatesEngagement
  <2>3. seeder'[s] = r /\ \A q \in Seeders \ {s} : seeder'[q] = seeder[q]
    BY <2>1 DEF SeedInv, SeedTypes
  <2>4. \A q \in Seeders \ {s} : Alive(q)' => Alive(q)
    BY <2>2 DEF Alive
  <2>5. ASSUME NEW q \in Seeders, Alive(q)' PROVE WholeAt(q, seeder[q])'
    <3>1. CASE q = s
      <4>1. seeder'[s].pc \notin Syncs /\ \A at \in Syncs : seeder'[s].pc \notin PastSync[at]
        BY <2>1, <2>3, PastAre DEF BeforeDemo, Syncs
      <4> QED BY <3>1, <4>1 DEF WholeAt
    <3>2. CASE q # s
      <4>1. WholeAt(q, seeder[q])
        BY <2>4, <2>5, <3>2 DEF WholesInv, WholeInv
      <4> QED BY <2>2, <2>3, <3>2, <4>1 DEF WholeAt, InDemo
    <3> QED BY <3>1, <3>2
  <2> QED BY <2>5 DEF WholesInv, WholeInv
<1>7. ASSUME NEW s \in Seeders, ConfiguresConnectors(s) \/ MarkersResolved(s) \/ CreatesIntegration(s)
      PROVE  WholesInv'
  <2>1. UNCHANGED <<demos, ingested>>
    BY <1>7 DEF ConfiguresConnectors, MarkersResolved, CreatesIntegration
  <2>2. \/ StartsSync(s, "granola")
        \/ seeder[s].pc = "linearMarkers" /\ StartsSync(s, "linear")
        \/ seeder[s].pc = "githubMarkers" /\ StartsSync(s, "github")
        \/ seeder[s].pc = "pushes" /\ StartsSync(s, "custom")
    BY <1>7 DEF ConfiguresConnectors, MarkersResolved, CreatesIntegration
  <2>3. /\ \A a \in Syncs : "granola" \in PastSync[a] => FALSE
        /\ \A a \in Syncs : "linear" \in PastSync[a] => "linearMarkers" \in PastSync[a]
        /\ \A a \in Syncs : "github" \in PastSync[a] => "githubMarkers" \in PastSync[a]
        /\ \A a \in Syncs : "custom" \in PastSync[a] => "pushes" \in PastSync[a]
    BY PastAre DEF Syncs
  <2>4. {"granola", "linear", "github", "custom"} = Syncs
    BY DEF Syncs
  <2> QED BY <2>1, <2>2, <2>3, <2>4, SyncStage
<1>8. ASSUME NEW s \in Seeders, Ingests(s) PROVE WholesInv'
  <2>1. PICK i \in seeder[s].todo :
          /\ ingested' = ingested \cup {[demo |-> s, item |-> i, fact |-> MarkerIn(s, i)]}
          /\ Goes(s, [seeder[s] EXCEPT !.todo = @ \ {i}])
    BY <1>8 DEF Ingests
  <2> DEFINE r == [seeder[s] EXCEPT !.todo = @ \ {i}]
  <2>2. r.pc = seeder[s].pc /\ r.todo = seeder[s].todo \ {i} /\ seeder' = [seeder EXCEPT ![s] = r]
    BY <2>1, SeederIsTyped DEF SeedStates, Goes
  <2> HIDE DEF r
  <2>3. seeder'[s] = r /\ \A q \in Seeders \ {s} : seeder'[q] = seeder[q]
    BY <2>2 DEF SeedInv, SeedTypes
  <2>4. InDemo(s, i)' /\ \A q, x : InDemo(q, x) => InDemo(q, x)'
    <3> DEFINE row == [demo |-> s, item |-> i, fact |-> MarkerIn(s, i)]
    <3>1. row.demo = s /\ row.item = i /\ ingested' = ingested \cup {row}
      BY <2>1
    <3> HIDE DEF row
    <3> QED BY <3>1 DEF InDemo
  <2>5. \A q \in Seeders : Alive(q)' => Alive(q)
    BY <1>8 DEF Ingests, Alive
  <2>6. ASSUME NEW q \in Seeders, Alive(q)' PROVE WholeAt(q, seeder[q])'
    <3>1. WholeAt(q, seeder[q])
      BY <2>5, <2>6 DEF WholesInv, WholeInv
    <3>2. CASE q = s
      BY <2>2, <2>3, <2>4, <3>1, <3>2 DEF WholeAt
    <3>3. CASE q # s
      BY <2>3, <2>4, <3>1, <3>3 DEF WholeAt
    <3> QED BY <3>2, <3>3
  <2> QED BY <2>6 DEF WholesInv, WholeInv
<1>9. ASSUME NEW s \in Seeders, NEW r, Goes(s, r), UNCHANGED <<demos, ingested>>, r.pc \notin Syncs,
             \A at \in Syncs : r.pc \in PastSync[at] =>
               seeder[s].pc \in PastSync[at] \/ (seeder[s].pc = at /\ seeder[s].todo = {})
      PROVE  WholesInv'
  BY <1>9, SameStage, WholeMoves DEF Goes
<1>10. ASSUME NEW s \in Seeders, SyncDrains(s) \/ ExtractionDone(s) \/ PrintsSummary(s) PROVE WholesInv'
  <2>1. PICK pc : To(s, pc) /\ \/ seeder[s].pc \in Syncs /\ seeder[s].todo = {} /\ pc = After[seeder[s].pc]
                               \/ seeder[s].pc = "extract" /\ pc = "linearMarkers"
                               \/ seeder[s].pc = "summary" /\ pc = "seeded"
    BY <1>10, PastAre DEF SyncDrains, ExtractionDone, PrintsSummary
  <2> DEFINE r == [seeder[s] EXCEPT !.pc = pc]
  <2>2. r.pc = pc /\ Goes(s, r)
    BY <2>1, SeederIsTyped DEF SeedStates, To
  <2> HIDE DEF r
  <2>3. /\ After["granola"] = "extract" /\ After["linear"] = "githubMarkers"
        /\ After["github"] = "pushes" /\ After["custom"] = "summary"
    BY DEF After
  <2>4. pc \notin Syncs /\ \A at \in Syncs : pc \in PastSync[at] =>
               seeder[s].pc \in PastSync[at] \/ (seeder[s].pc = at /\ seeder[s].todo = {})
    BY <2>1, <2>3, PastAre DEF Syncs
  <2>5. UNCHANGED <<demos, ingested>>
    BY <1>10 DEF SyncDrains, ExtractionDone, PrintsSummary
  <2> QED BY <1>9, <2>2, <2>4, <2>5
<1>11. ASSUME NEW s \in Seeders, StartsExtraction(s) PROVE WholesInv'
  <2>1. PICK m \in Meetings : Goes(s, [seeder[s] EXCEPT !.pc = "waiting", !.extracted = @ \cup {m}])
    BY <1>11 DEF StartsExtraction
  <2> DEFINE more == seeder[s].extracted \cup {m}
             r == [seeder[s] EXCEPT !.pc = "waiting", !.extracted = more]
  <2>2. r.pc = "waiting" /\ Goes(s, r)
    <3>1. seeder[s] \in SeedStates
      BY SeederIsTyped
    <3> HIDE DEF more
    <3>2. r.pc = "waiting"
      BY <3>1 DEF SeedStates
    <3> QED BY <2>1, <3>2 DEF more
  <2> HIDE DEF r
  <2>3. seeder[s].pc = "extract" /\ UNCHANGED <<demos, ingested>>
    BY <1>11 DEF StartsExtraction
  <2>4. r.pc \notin Syncs /\ \A at \in Syncs : r.pc \in PastSync[at] => seeder[s].pc \in PastSync[at]
    BY <2>2, <2>3, PastAre DEF Syncs
  <2> QED BY <1>9, <2>2, <2>3, <2>4
<1>12. ASSUME NEW s \in Seeders, NEW pc \in {"linearMarkers", "githubMarkers"}, NEW items,
              ResolvesDecision(s, pc, items)
       PROVE  WholesInv'
  <2>1. PICK m : IF Candidates(s, m) = {} THEN Stops(s)
                 ELSE \E f \in Candidates(s, m) : Goes(s, [seeder[s] EXCEPT !.picked[m] = f])
    BY <1>12 DEF ResolvesDecision
  <2>2. seeder[s].pc = pc /\ UNCHANGED <<demos, ingested>>
    BY <1>12 DEF ResolvesDecision
  <2>3. ASSUME NEW f, Goes(s, [seeder[s] EXCEPT !.picked[m] = f]) PROVE WholesInv'
    <3> DEFINE picked == [seeder[s].picked EXCEPT ![m] = f]
               r == [seeder[s] EXCEPT !.picked = picked]
    <3>1. Goes(s, r)
      BY <2>3
    <3>2. seeder[s] \in SeedStates
      BY SeederIsTyped
    <3> HIDE DEF picked
    <3>3. r.pc = seeder[s].pc
      BY <3>2 DEF SeedStates
    <3> HIDE DEF r
    <3>4. r.pc \notin Syncs
      BY <2>2, <3>3 DEF Syncs
    <3> QED BY <1>9, <2>2, <3>1, <3>3, <3>4
  <2> QED BY <1>3, <2>1, <2>2, <2>3
<1>13. ASSUME WorkerExtracts PROVE WholesInv'
  <2>1. PICK e \in extracting :
          /\ UNCHANGED <<demos, ingested>>
          /\ \/ IF seeder[e[1]].pc = "waiting" THEN To(e[1], "extract") ELSE UNCHANGED seeder
             \/ IF seeder[e[1]].pc = "waiting" THEN Stops(e[1]) ELSE UNCHANGED seeder
    BY <1>13 DEF WorkerExtracts
  <2>2. e[1] \in Seeders
    BY DEF SeedInv, SeedTypes
  <2>3. CASE Stops(e[1])
    BY <1>3, <2>1, <2>2, <2>3
  <2>4. CASE UNCHANGED seeder
    BY <2>1, <2>4 DEF WholesInv, WholeInv, WholeAt, InDemo, Alive
  <2>5. CASE seeder[e[1]].pc = "waiting" /\ To(e[1], "extract")
    <3> DEFINE r == [seeder[e[1]] EXCEPT !.pc = "extract"]
    <3>1. r.pc = "extract" /\ Goes(e[1], r)
      BY <2>2, <2>5, SeederIsTyped DEF SeedStates, To
    <3> HIDE DEF r
    <3>2. r.pc \notin Syncs /\ \A at \in Syncs : r.pc \in PastSync[at] => seeder[e[1]].pc \in PastSync[at]
      BY <2>5, <3>1, PastAre DEF Syncs
    <3> QED BY <1>9, <2>1, <2>2, <3>1, <3>2
  <2> QED BY <2>1, <2>3, <2>4, <2>5
<1>14. ASSUME NEW s \in Seeders, SeedStops(s) PROVE WholesInv'
  BY <1>3, <1>14 DEF SeedStops
<1> QED
  BY <1>1, <1>4, <1>5, <1>6, <1>7, <1>8, <1>10, <1>11, <1>12, <1>13, <1>14 DEF SeedNext

LEMMA SeedInvariant == SeedSpec => [](SeedInv /\ WholesInv)
<1>1. SeedInit => WholesInv
  BY DEF SeedInit, WholesInv, WholeInv, Alive
<1>2. SeedInv /\ WholesInv /\ [SeedNext]_seedVars => SeedInv' /\ WholesInv'
  BY SeedInvNext, WholeKeeps
<1> QED BY SeedInitInv, <1>1, <1>2, PTL DEF SeedSpec

(* printSummary comes last: for any data set and scripts, what a script that got
   there built is whole, every document, ticket, pull request and payload of it,
   unless a --reset took it away. *)
THEOREM SummaryIsOfAWholeDemo == SeedSpec => []SummaryMeansWhole
<1>1. ASSUME WholesInv, NEW s \in Seeders, seeder[s].pc = "seeded", Alive(s), NEW at \in DOMAIN Sync
      PROVE  Has(s, at) = Sync[at]
  <2>1. at \in Syncs /\ seeder[s].pc \in PastSync[at]
    BY <1>1, PastAre DEF Syncs
  <2>2. \A i \in Sync[at] : InDemo(s, i)
    BY <1>1, <2>1 DEF WholesInv, WholeInv, WholeAt
  <2>3. \A i \in Sync[at] : \E x \in Demo(s) : i = x.item
    BY <2>2 DEF InDemo, Demo
  <2> QED BY <2>3 DEF Has
<1>2. WholesInv => SummaryMeansWhole
  BY <1>1 DEF SummaryMeansWhole
<1> QED BY <1>2, SeedInvariant, PTL

-----------------------------------------------------------------------------
(* Scripts one after another: nobody else is at work between a look and the     *)
(* insert that follows it.                                                      *)

AloneInv ==
  ~overlapped =>
    /\ \A s, o \in Seeders : AtWork(s) /\ AtWork(o) => s = o
    /\ \A a, b \in demos : a = b
    /\ \A a, b \in tenants : a = b
    /\ \A d \in demos : d.tenant \in tenants
    /\ \A s \in Seeders :
         /\ seeder[s].pc = "newTenant" => tenants = {}
         /\ seeder[s].pc \in {"look", "reset", "create"} => seeder[s].tenant \in tenants
         /\ seeder[s].pc = "reset" => \E d \in demos : d.by = seeder[s].found
         /\ seeder[s].pc = "create" => demos = {}

Deciding == {"newTenant", "look", "reset", "create"}
Resting == {"idle", "stopped", "exists", "seeded"}

(* A script at work goes on to where nothing is decided. *)
LEMMA AloneGoesOn ==
  ASSUME SeedInv, AloneInv, NEW s \in Seeders, NEW r, seeder' = [seeder EXCEPT ![s] = r],
         r.pc \notin Deciding, AtWork(s) \/ r.pc \in Resting, UNCHANGED <<tenants, demos, overlapped>>
  PROVE  AloneInv'
<1>1. seeder'[s] = r /\ \A q \in Seeders \ {s} : seeder'[q] = seeder[q]
  BY DEF SeedInv, SeedTypes
<1>2. \A q \in Seeders : AtWork(q)' => AtWork(q)
  BY <1>1 DEF AtWork, Resting
<1> QED BY <1>1, <1>2 DEF AloneInv, Deciding

LEMMA AloneLooks ==
  ASSUME SeedInv, AloneInv, NEW s \in Seeders,
         LooksForTenant(s) \/ InsertsTenant(s) \/ LooksForDemo(s) \/ Resets(s) \/ CreatesEngagement(s)
  PROVE  AloneInv'
<1>. UNCHANGED overlapped
  BY DEF LooksForTenant, InsertsTenant, LooksForDemo, Resets, CreatesEngagement
<1>. SUFFICES ASSUME ~overlapped PROVE AloneInv'
  BY DEF AloneInv
<1>0. seeder[s] \in SeedStates
  BY SeederIsTyped
<1>1. AtWork(s) /\ \A q \in Seeders \ {s} : ~AtWork(q)
  BY DEF AloneInv, AtWork, LooksForTenant, InsertsTenant, LooksForDemo, Resets, CreatesEngagement
<1>2. \A q \in Seeders \ {s} : seeder[q].pc \notin Deciding
  BY <1>1 DEF AtWork, Deciding
<1>3. ASSUME NEW r, Goes(s, r),
             \A a, b \in demos' : a = b,
             \A a, b \in tenants' : a = b,
             \A d \in demos' : d.tenant \in tenants',
             /\ r.pc = "newTenant" => tenants' = {}
             /\ r.pc \in {"look", "reset", "create"} => r.tenant \in tenants'
             /\ r.pc = "reset" => \E d \in demos' : d.by = r.found
             /\ r.pc = "create" => demos' = {}
      PROVE  AloneInv'
  <2>1. seeder'[s] = r /\ \A q \in Seeders \ {s} : seeder'[q] = seeder[q]
    BY <1>3 DEF SeedInv, SeedTypes, Goes
  <2>2. \A q \in Seeders \ {s} : ~AtWork(q)'
    BY <1>1, <2>1 DEF AtWork
  <2> QED BY <1>2, <1>3, <2>1, <2>2 DEF AloneInv, Deciding
<1>4. CASE LooksForTenant(s)
  <2>1. UNCHANGED <<tenants, demos>>
    BY <1>4 DEF LooksForTenant
  <2>2. CASE tenants = {} /\ To(s, "newTenant")
    <3>1. [seeder[s] EXCEPT !.pc = "newTenant"].pc = "newTenant"
      BY <1>0 DEF SeedStates
    <3> QED BY <1>3, <2>1, <2>2, <3>1 DEF To, AloneInv
  <2>3. ASSUME NEW t \in tenants, Goes(s, [seeder[s] EXCEPT !.pc = "look", !.tenant = t]) PROVE AloneInv'
    <3> DEFINE r == [seeder[s] EXCEPT !.pc = "look", !.tenant = t]
    <3>1. r.pc = "look" /\ r.tenant = t
      BY <1>0 DEF SeedStates
    <3>2. Goes(s, r)
      BY <2>3
    <3> HIDE DEF r
    <3> QED BY <1>3, <2>1, <3>1, <3>2 DEF AloneInv
  <2> QED BY <1>4, <2>2, <2>3 DEF LooksForTenant
<1>5. CASE InsertsTenant(s)
  <2> DEFINE r == [seeder[s] EXCEPT !.pc = "look", !.tenant = s]
  <2>1. r.pc = "look" /\ r.tenant = s
    BY <1>0 DEF SeedStates
  <2>2. Goes(s, r) /\ UNCHANGED demos /\ tenants' = tenants \cup {s} /\ seeder[s].pc = "newTenant"
    BY <1>5 DEF InsertsTenant
  <2> HIDE DEF r
  <2>3. tenants = {} /\ demos = {}
    BY <2>2 DEF AloneInv
  <2> QED BY <1>3, <2>1, <2>2, <2>3
<1>6. CASE LooksForDemo(s)
  <2>1. UNCHANGED <<tenants, demos>> /\ seeder[s].pc = "look" /\ seeder[s].tenant \in tenants
    BY <1>6 DEF LooksForDemo, AloneInv
  <2>2. CASE Looks(s) = {} /\ To(s, "create")
    <3> DEFINE r == [seeder[s] EXCEPT !.pc = "create"]
    <3>1. demos = {}
      BY <2>1, <2>2 DEF Looks, AloneInv
    <3>2. r.pc = "create" /\ r.tenant = seeder[s].tenant
      BY <1>0 DEF SeedStates
    <3>3. Goes(s, r)
      BY <2>2 DEF To
    <3> HIDE DEF r
    <3> QED BY <1>3, <2>1, <3>1, <3>2, <3>3 DEF AloneInv
  <2>3. ASSUME NEW d \in Looks(s),
               Goes(s, [seeder[s] EXCEPT !.pc = IF seeder[s].reset THEN "reset" ELSE "exists", !.found = d.by])
        PROVE  AloneInv'
    <3> DEFINE r == [seeder[s] EXCEPT !.pc = IF seeder[s].reset THEN "reset" ELSE "exists", !.found = d.by]
    <3>1. r.pc \in {"reset", "exists"} /\ r.found = d.by /\ r.tenant = seeder[s].tenant
      BY <1>0 DEF SeedStates
    <3>2. Goes(s, r) /\ d \in demos
      BY <2>3 DEF Looks
    <3> HIDE DEF r
    <3> QED BY <1>3, <2>1, <3>1, <3>2 DEF AloneInv
  <2> QED BY <1>6, <2>2, <2>3 DEF LooksForDemo
<1>7. CASE Resets(s)
  <2> DEFINE r == [seeder[s] EXCEPT !.pc = "create", !.found = Nothing]
  <2>1. r.pc = "create" /\ r.tenant = seeder[s].tenant
    BY <1>0 DEF SeedStates
  <2>2. /\ Goes(s, r) /\ UNCHANGED tenants /\ seeder[s].pc = "reset"
        /\ demos' = {x \in demos : x.by # seeder[s].found}
    BY <1>7 DEF Resets
  <2> HIDE DEF r
  <2>3. demos' = {} /\ seeder[s].tenant \in tenants
    BY <2>2 DEF AloneInv
  <2>4. \A a, b \in tenants' : a = b
    BY <2>2 DEF AloneInv
  <2> QED BY <1>3, <2>1, <2>2, <2>3, <2>4
<1>8. CASE CreatesEngagement(s)
  <2> DEFINE r == [seeder[s] EXCEPT !.pc = "config"]
  <2>1. r.pc = "config"
    BY <1>0 DEF SeedStates
  <2>2. /\ Goes(s, r) /\ UNCHANGED tenants /\ seeder[s].pc = "create"
        /\ demos' = demos \cup {[by |-> s, tenant |-> seeder[s].tenant]}
    BY <1>8 DEF CreatesEngagement, To
  <2> HIDE DEF r
  <2>3. demos = {} /\ seeder[s].tenant \in tenants
    BY <2>2 DEF AloneInv
  <2>4. \A a, b \in tenants' : a = b
    BY <2>2 DEF AloneInv
  <2> QED BY <1>3, <2>1, <2>2, <2>3, <2>4
<1> QED BY <1>4, <1>5, <1>6, <1>7, <1>8

LEMMA AloneKeeps ==
  ASSUME SeedInv, AloneInv, [SeedNext]_seedVars
  PROVE  AloneInv'
<1>1. CASE UNCHANGED seedVars
  BY <1>1 DEF seedVars, AloneInv, AtWork
<1>2. ASSUME NEW s \in Seeders, NEW reset \in BOOLEAN, SeedStarts(s, reset) PROVE AloneInv'
  <2> DEFINE r == [NoSeed EXCEPT !.pc = "tenant", !.reset = reset]
  <2>1. r.pc = "tenant"
    BY DEF NoSeed
  <2>2. /\ Goes(s, r) /\ UNCHANGED <<tenants, demos>>
        /\ ~overlapped' => ~overlapped /\ \A o \in Seeders \ {s} : ~AtWork(o)
    BY <1>2 DEF SeedStarts
  <2> HIDE DEF r
  <2>3. seeder'[s] = r /\ \A q \in Seeders \ {s} : seeder'[q] = seeder[q]
    BY <2>2 DEF SeedInv, SeedTypes, Goes
  <2> QED BY <2>1, <2>2, <2>3 DEF AloneInv, AtWork
<1>3. ASSUME NEW s \in Seeders, Stops(s), UNCHANGED <<tenants, demos, overlapped>> PROVE AloneInv'
  <2> DEFINE r == [NoSeed EXCEPT !.pc = "stopped"]
  <2>1. r.pc = "stopped" /\ seeder' = [seeder EXCEPT ![s] = r]
    BY <1>3 DEF NoSeed, Stops, Goes
  <2> HIDE DEF r
  <2> QED BY <1>3, <2>1, AloneGoesOn DEF Deciding, Resting
<1>4. ASSUME NEW s \in Seeders, SeedStops(s) PROVE AloneInv'
  BY <1>3, <1>4 DEF SeedStops
<1>5. ASSUME NEW s \in Seeders, NEW r, Goes(s, r), AtWork(s), r.pc \notin Deciding,
             UNCHANGED <<tenants, demos, overlapped>>
      PROVE  AloneInv'
  BY <1>5, AloneGoesOn DEF Goes
<1>6. ASSUME NEW s \in Seeders,
             \/ ConfiguresConnectors(s) \/ Ingests(s) \/ SyncDrains(s) \/ StartsExtraction(s)
             \/ ExtractionDone(s) \/ MarkersResolved(s) \/ CreatesIntegration(s) \/ PrintsSummary(s)
      PROVE  AloneInv'
  <2>0. seeder[s] \in SeedStates /\ DOMAIN Sync = Syncs
    BY SeederIsTyped, PastAre
  <2>1. AtWork(s) /\ UNCHANGED <<tenants, demos, overlapped>>
    BY <1>6, <2>0 DEF AtWork, ConfiguresConnectors, Ingests, SyncDrains, StartsExtraction, ExtractionDone,
       MarkersResolved, CreatesIntegration, PrintsSummary, Syncs
  <2>2. PICK r : Goes(s, r) /\ r.pc \notin Deciding
    <3>1. ASSUME NEW at \in Syncs, StartsSync(s, at)
          PROVE  [seeder[s] EXCEPT !.pc = at, !.todo = Sync[at]].pc \notin Deciding
      BY <2>0 DEF SeedStates, Syncs, Deciding
    <3>2. CASE ConfiguresConnectors(s) \/ MarkersResolved(s) \/ CreatesIntegration(s)
      <4>1. PICK at \in Syncs : StartsSync(s, at)
        BY <3>2 DEF ConfiguresConnectors, MarkersResolved, CreatesIntegration, Syncs
      <4> QED BY <3>1, <4>1 DEF StartsSync
    <3>3. CASE Ingests(s)
      <4>1. PICK i : Goes(s, [seeder[s] EXCEPT !.todo = @ \ {i}])
        BY <3>3 DEF Ingests
      <4>2. seeder[s].pc \in Syncs
        BY <2>0, <3>3 DEF Ingests
      <4>3. [seeder[s] EXCEPT !.todo = @ \ {i}].pc = seeder[s].pc
        BY <2>0 DEF SeedStates
      <4> QED BY <4>1, <4>2, <4>3 DEF Syncs, Deciding
    <3>4. CASE SyncDrains(s) \/ ExtractionDone(s) \/ PrintsSummary(s)
      <4>1. PICK pc \in {"extract", "githubMarkers", "pushes", "summary", "linearMarkers", "seeded"} : To(s, pc)
        BY <3>4 DEF SyncDrains, ExtractionDone, PrintsSummary, After, Sync
      <4>2. [seeder[s] EXCEPT !.pc = pc].pc = pc
        BY <2>0 DEF SeedStates
      <4> QED BY <4>1, <4>2 DEF To, Deciding
    <3>5. CASE StartsExtraction(s)
      <4>1. PICK m : Goes(s, [seeder[s] EXCEPT !.pc = "waiting", !.extracted = @ \cup {m}])
        BY <3>5 DEF StartsExtraction
      <4> DEFINE more == seeder[s].extracted \cup {m}
                 r == [seeder[s] EXCEPT !.pc = "waiting", !.extracted = more]
      <4>2. Goes(s, r)
        BY <4>1
      <4> HIDE DEF more
      <4>3. r.pc = "waiting"
        BY <2>0 DEF SeedStates
      <4> HIDE DEF r
      <4> QED BY <4>2, <4>3 DEF Deciding
    <3> QED BY <1>6, <3>2, <3>3, <3>4, <3>5
  <2> QED BY <1>5, <2>1, <2>2
<1>7. ASSUME NEW s \in Seeders, NEW pc \in {"linearMarkers", "githubMarkers"}, NEW items,
             ResolvesDecision(s, pc, items)
      PROVE  AloneInv'
  <2>0. seeder[s] \in SeedStates
    BY SeederIsTyped
  <2>1. PICK m : IF Candidates(s, m) = {} THEN Stops(s)
                 ELSE \E f \in Candidates(s, m) : Goes(s, [seeder[s] EXCEPT !.picked[m] = f])
    BY <1>7 DEF ResolvesDecision
  <2>2. seeder[s].pc = pc /\ AtWork(s) /\ UNCHANGED <<tenants, demos, overlapped>>
    BY <1>7 DEF ResolvesDecision, AtWork
  <2>3. ASSUME NEW f, Goes(s, [seeder[s] EXCEPT !.picked[m] = f]) PROVE AloneInv'
    <3> DEFINE picked == [seeder[s].picked EXCEPT ![m] = f]
               r == [seeder[s] EXCEPT !.picked = picked]
    <3>1. Goes(s, r)
      BY <2>3
    <3> HIDE DEF picked
    <3>2. r.pc = seeder[s].pc
      BY <2>0 DEF SeedStates
    <3> HIDE DEF r
    <3> QED BY <1>5, <2>2, <3>1, <3>2 DEF Deciding
  <2> QED BY <1>3, <2>1, <2>2, <2>3
<1>8. ASSUME WorkerExtracts PROVE AloneInv'
  <2>1. PICK e \in extracting :
          /\ UNCHANGED <<tenants, demos, overlapped>>
          /\ \/ IF seeder[e[1]].pc = "waiting" THEN To(e[1], "extract") ELSE UNCHANGED seeder
             \/ IF seeder[e[1]].pc = "waiting" THEN Stops(e[1]) ELSE UNCHANGED seeder
    BY <1>8 DEF WorkerExtracts
  <2>2. e[1] \in Seeders
    BY DEF SeedInv, SeedTypes
  <2>3. CASE Stops(e[1])
    BY <1>3, <2>1, <2>2, <2>3
  <2>4. CASE UNCHANGED seeder
    BY <2>1, <2>4 DEF AloneInv, AtWork
  <2>5. CASE seeder[e[1]].pc = "waiting" /\ To(e[1], "extract")
    <3> DEFINE r == [seeder[e[1]] EXCEPT !.pc = "extract"]
    <3>1. r.pc = "extract" /\ Goes(e[1], r)
      BY <2>2, <2>5, SeederIsTyped DEF SeedStates, To
    <3> HIDE DEF r
    <3> QED BY <1>5, <2>1, <2>2, <2>5, <3>1 DEF Deciding, AtWork
  <2> QED BY <2>1, <2>3, <2>4, <2>5
<1> QED BY <1>1, <1>2, <1>4, <1>6, <1>7, <1>8, AloneLooks DEF SeedNext

(* ensureDevTenant and findExistingEngagement look and then insert, with nothing
   that makes the names unique: scripts that run one after another leave one demo
   in one tenant all the same, wherever each of them stopped. *)
THEOREM OneDemoIsLeft == SeedSpec => []OneDemo
<1>1. SeedInit => AloneInv
  BY NewSeed DEF SeedInit, AloneInv, AtWork, NoSeed
<1>2. SeedInv /\ AloneInv /\ [SeedNext]_seedVars => AloneInv'
  BY AloneKeeps
<1>3. ASSUME NEW S, \A a, b \in S : a = b PROVE Cardinality(S) <= 1
  <2>1. CASE S = {}
    BY <2>1, FS_EmptySet
  <2>2. CASE S # {}
    <3>1. PICK f \in S : TRUE
      BY <2>2
    <3>2. S = {f}
      BY <1>3, <3>1
    <3>3. Cardinality({f}) = 1
      BY FS_Singleton
    <3> QED BY <3>2, <3>3
  <2> QED BY <2>1, <2>2
<1>4. AloneInv => OneDemo
  BY <1>3 DEF AloneInv, OneDemo
<1> QED BY <1>1, <1>2, <1>4, SeedInvariant, PTL DEF SeedSpec

-----------------------------------------------------------------------------
(***************************************************************************)
(* The review tool.  A run works from the threads it read at its start;    *)
(* meanwhile threads are answered, and it writes itself.  What it read is  *)
(* a beginning of what is there, of the same findings, and marks are only  *)
(* ever added.                                                             *)
(***************************************************************************)
ThreadStates ==
  [key : Findings, open : BOOLEAN, marks : SUBSET {"fp", "retracted", "acked", "resolved", "noted"}]

WorkPlaces == {"withdraw", "acknowledge", "post", "resolve", "reopen", "submit"}
Working == run.at \in WorkPlaces
Reading == run.at \in WorkPlaces \cup {"passes"}

RunStates ==
  [at : WorkPlaces, seen : Seq(ThreadStates), ok : BOOLEAN, failed : SUBSET Passes,
   reported : SUBSET Findings, retracted : SUBSET Findings, create : SUBSET Findings,
   left : SUBSET (Nat \cup Findings)]

ToolTypes ==
  /\ threads \in Seq(ThreadStates)
  /\ run.at \in WorkPlaces \cup {"idle", "passes", "summary"}
  /\ run.at = "passes" => run = [at |-> "passes", seen |-> run.seen, ok |-> run.ok]
  /\ Reading => run.seen \in Seq(ThreadStates) /\ run.ok \in BOOLEAN
  /\ Working => run \in RunStates

(* The threads read are still the first ones; all of them, if the read was whole
   and the run has not begun to post. *)
SeenInv ==
  Reading =>
    /\ Len(run.seen) <= Len(threads)
    /\ \A i \in 1..Len(run.seen) :
         threads[i].key = run.seen[i].key /\ run.seen[i].marks \subseteq threads[i].marks
    /\ run.ok /\ run.at \in {"passes", "withdraw", "acknowledge"} => Len(run.seen) = Len(threads)

(* The calls still to make are among those planned. *)
PlanInv ==
  Working =>
    /\ \A f \in run.create : f \in Live(run) /\ \A i \in Mine(run) : run.seen[i].key # f
    /\ run.at = "withdraw" => run.left \subseteq ToWithdraw(run)
    /\ run.at = "acknowledge" => run.left \subseteq ToAcknowledge(run)
    /\ run.at = "post" => run.left \subseteq run.create
    /\ run.at = "resolve" => run.left \subseteq ToResolve(run)
    /\ run.at = "reopen" => run.left \subseteq ToReopen(run)
    /\ run.at = "submit" => run.left = {}

(* A finding about to be posted has no thread. *)
PostInv ==
  run.at = "post" => \A f \in run.left : \A i \in DOMAIN threads : threads[i].key # f

(* A thread read as closed stays closed, unless the plan finds that its finding
   stands. *)
ClosedInv ==
  /\ run.at = "passes" => \A i \in 1..Len(run.seen) : ~run.seen[i].open => ~threads[i].open
  /\ Working => \A i \in 1..Len(run.seen) :
       ~run.seen[i].open /\ run.seen[i].key \notin Live(run) => ~threads[i].open

ToolInv == ToolTypes /\ SeenInv /\ PlanInv /\ PostInv /\ ClosedInv /\ OneThreadPerFinding

(* What is planned depends on what was read and answered, not on how far the
   run is. *)
LEMMA SamePlan ==
  ASSUME NEW r, NEW q, r.seen = q.seen, r.failed = q.failed, r.reported = q.reported,
         r.retracted = q.retracted
  PROVE  /\ ToWithdraw(r) = ToWithdraw(q) /\ ToAcknowledge(r) = ToAcknowledge(q)
         /\ ToResolve(r) = ToResolve(q) /\ ToReopen(r) = ToReopen(q)
         /\ Live(r) = Live(q) /\ Mine(r) = Mine(q) /\ Unthreaded(r) = Unthreaded(q)
<1>1. ToWithdraw(r) = ToWithdraw(q)
  BY DEF ToWithdraw
<1>2. DismissedThreads(r) = DismissedThreads(q)
  BY <1>1 DEF DismissedThreads, KeysAt
<1>3. Excluded(r) = Excluded(q)
  BY <1>1, <1>2 DEF Excluded, KeysAt
<1>4. Live(r) = Live(q) /\ Mine(r) = Mine(q)
  BY <1>3 DEF Live, Mine
<1>5. ToAcknowledge(r) = ToAcknowledge(q)
  BY <1>2 DEF ToAcknowledge
<1>6. ToResolve(r) = ToResolve(q) /\ ToReopen(r) = ToReopen(q)
  BY <1>4 DEF ToResolve, ToReopen
<1>7. Unthreaded(r) = Unthreaded(q)
  BY <1>3, <1>4 DEF Unthreaded
<1> QED BY <1>1, <1>4, <1>5, <1>6, <1>7

(* What plans hold: threads that were read, and findings that stand. *)
LEMMA PlansAreRead ==
  ASSUME ToolInv, Working
  PROVE  /\ run \in RunStates
         /\ ToWithdraw(run) \cup ToAcknowledge(run) \cup ToResolve(run) \cup ToReopen(run)
              \subseteq 1..Len(run.seen)
         /\ 1..Len(run.seen) \subseteq 1..Len(threads)
         /\ Len(run.seen) \in Nat /\ Len(threads) \in Nat
<1>1. run \in RunStates /\ run.seen \in Seq(ThreadStates) /\ threads \in Seq(ThreadStates)
  BY DEF ToolInv, ToolTypes, Working, RunStates
<1>2. DOMAIN run.seen = 1..Len(run.seen) /\ Len(run.seen) \in Nat /\ Len(threads) \in Nat
  BY <1>1
<1>3. ToWithdraw(run) \cup ToAcknowledge(run) \cup ToResolve(run) \cup ToReopen(run)
        \subseteq DOMAIN run.seen
  BY DEF ToWithdraw, ToAcknowledge, DismissedThreads, ToResolve, ToReopen, Mine
<1>4. Len(run.seen) <= Len(threads)
  BY DEF ToolInv, SeenInv, Working, Reading
<1> QED BY <1>1, <1>2, <1>3, <1>4

(* One call on a thread: it keeps its finding and gathers marks, and is opened
   only if its finding stands. *)
LEMMA CallOnThread ==
  ASSUME ToolInv, Working, NEW i \in 1..Len(threads), NEW t \in ThreadStates,
         threads' = [threads EXCEPT ![i] = t],
         t.key = threads[i].key, threads[i].marks \subseteq t.marks,
         t.open => threads[i].open \/ t.key \in Live(run),
         NEW left \in SUBSET run.left, run' = [run EXCEPT !.left = left]
  PROVE  ToolInv'
<1>0. run \in RunStates /\ threads \in Seq(ThreadStates) /\ Len(run.seen) \in Nat /\ Len(threads) \in Nat
      /\ 1..Len(run.seen) \subseteq 1..Len(threads)
  BY PlansAreRead DEF ToolInv, ToolTypes
<1>1. run' \in RunStates /\ run'.left = left /\ run'.at = run.at /\ run'.seen = run.seen /\ run'.ok = run.ok
      /\ run'.failed = run.failed /\ run'.reported = run.reported /\ run'.retracted = run.retracted
      /\ run'.create = run.create
  BY <1>0 DEF RunStates
<1>2. /\ threads' \in Seq(ThreadStates) /\ Len(threads') = Len(threads) /\ threads'[i] = t
      /\ \A j \in 1..Len(threads) : j # i => threads'[j] = threads[j]
  BY <1>0
<1>3. \A j \in 1..Len(threads) :
        threads'[j].key = threads[j].key /\ threads[j].marks \subseteq threads'[j].marks
  BY <1>2
<1>4. /\ ToWithdraw(run') = ToWithdraw(run) /\ ToAcknowledge(run') = ToAcknowledge(run)
      /\ ToResolve(run') = ToResolve(run) /\ ToReopen(run') = ToReopen(run)
      /\ Live(run') = Live(run) /\ Mine(run') = Mine(run)
  BY <1>1, SamePlan
<1>5. ToolTypes'
  BY <1>0, <1>1, <1>2 DEF ToolInv, ToolTypes, Working, Reading, WorkPlaces, RunStates
<1>6. SeenInv'
  BY <1>0, <1>1, <1>2, <1>3 DEF ToolInv, SeenInv, Reading, Working
<1>7. PlanInv'
  BY <1>1, <1>4 DEF ToolInv, PlanInv, Working
<1>8. PostInv'
  BY <1>0, <1>1, <1>2, <1>3 DEF ToolInv, PostInv
<1>9. ClosedInv'
  <2> SUFFICES ASSUME NEW j \in 1..Len(run.seen), ~run.seen[j].open, run.seen[j].key \notin Live(run)
               PROVE  ~threads'[j].open
    BY <1>1, <1>4 DEF ClosedInv, Working, WorkPlaces
  <2>1. j \in 1..Len(threads) /\ ~threads[j].open /\ threads[j].key = run.seen[j].key
    BY <1>0 DEF ToolInv, ClosedInv, SeenInv, Working, Reading
  <2> QED BY <1>2, <2>1
<1>10. OneThreadPerFinding'
  <2>1. DOMAIN threads' = 1..Len(threads) /\ DOMAIN threads = 1..Len(threads)
    BY <1>0, <1>2
  <2> QED BY <1>3, <2>1 DEF ToolInv, OneThreadPerFinding
<1> QED BY <1>5, <1>6, <1>7, <1>8, <1>9, <1>10 DEF ToolInv

(* A person's answer: as a call, but it opens nothing and the run does not move. *)
LEMMA PersonOnThread ==
  ASSUME ToolInv, NEW i \in 1..Len(threads), NEW t \in ThreadStates,
         threads' = [threads EXCEPT ![i] = t], UNCHANGED run,
         t.key = threads[i].key, threads[i].marks \subseteq t.marks, t.open => threads[i].open
  PROVE  ToolInv'
<1>0. threads \in Seq(ThreadStates) /\ Len(threads) \in Nat
  BY DEF ToolInv, ToolTypes
<1>1. Reading => run.seen \in Seq(ThreadStates) /\ Len(run.seen) \in Nat
  BY DEF ToolInv, ToolTypes
<1>2. /\ threads' \in Seq(ThreadStates) /\ Len(threads') = Len(threads) /\ threads'[i] = t
      /\ \A j \in 1..Len(threads) : j # i => threads'[j] = threads[j]
  BY <1>0
<1>3. \A j \in 1..Len(threads) :
        /\ threads'[j].key = threads[j].key /\ threads[j].marks \subseteq threads'[j].marks
        /\ threads'[j].open => threads[j].open
  BY <1>2
<1>5. ToolTypes'
  BY <1>2 DEF ToolInv, ToolTypes, Working, Reading
<1>6. SeenInv'
  BY <1>0, <1>1, <1>2, <1>3 DEF ToolInv, SeenInv, Reading, Working
<1>7. PlanInv'
  BY DEF ToolInv, PlanInv, Working
<1>8. PostInv'
  BY <1>0, <1>2, <1>3 DEF ToolInv, PostInv
<1>9. ClosedInv'
  <2> SUFFICES ASSUME NEW j \in 1..Len(run.seen), ~run.seen[j].open,
                      run.at = "passes" \/ (Working /\ run.seen[j].key \notin Live(run))
               PROVE  ~threads'[j].open
    BY DEF ClosedInv, Working
  <2>1. j \in 1..Len(threads) /\ ~threads[j].open
    BY <1>0, <1>1 DEF ToolInv, ClosedInv, SeenInv, Working, Reading
  <2> QED BY <1>3, <2>1
<1>10. OneThreadPerFinding'
  <2>1. DOMAIN threads' = 1..Len(threads) /\ DOMAIN threads = 1..Len(threads)
    BY <1>0, <1>2
  <2> QED BY <1>3, <2>1 DEF ToolInv, OneThreadPerFinding
<1> QED BY <1>5, <1>6, <1>7, <1>8, <1>9, <1>10 DEF ToolInv

LEMMA ThreadParts ==
  ASSUME NEW t \in ThreadStates, NEW marks, NEW open
  PROVE  /\ [t EXCEPT !.open = open] = [key |-> t.key, open |-> open, marks |-> t.marks]
         /\ [t EXCEPT !.marks = marks] = [key |-> t.key, open |-> t.open, marks |-> marks]
<1>1. t = [key |-> t.key, open |-> t.open, marks |-> t.marks]
  BY DEF ThreadStates
<1> QED BY <1>1

LEMMA ThreadFacts ==
  ASSUME ToolInv, NEW i \in DOMAIN threads
  PROVE  /\ threads \in Seq(ThreadStates) /\ i \in 1..Len(threads)
         /\ threads[i] \in ThreadStates
         /\ threads[i].key \in Findings /\ threads[i].open \in BOOLEAN
         /\ threads[i].marks \subseteq {"fp", "retracted", "acked", "resolved", "noted"}
<1>1. threads \in Seq(ThreadStates)
  BY DEF ToolInv, ToolTypes
<1>2. threads[i] \in ThreadStates
  BY <1>1
<1> QED BY <1>1, <1>2 DEF ThreadStates

(* Calls that withdraw a finding, acknowledge a dismissal or resolve a thread
   add marks and close threads at most. *)
LEMMA ToolCloses ==
  ASSUME ToolInv, Withdraws \/ Acknowledges \/ Resolves
  PROVE  ToolInv'
<1>1. PICK i \in DOMAIN threads, phase \in WorkPlaces, marking \in BOOLEAN, closing \in BOOLEAN,
           mark \in {"retracted", "acked", "resolved", "noted"} :
        Does(phase, i,
         [threads EXCEPT
            ![i].marks = IF marking THEN @ \cup {mark} ELSE @,
            ![i].open = IF closing THEN FALSE ELSE @])
  <2>1. ASSUME NEW i \in DOMAIN threads, NEW replied \in BOOLEAN, NEW done \in BOOLEAN,
               NEW phase \in {"withdraw", "acknowledge"}, NEW mark \in {"retracted", "acked"},
               Does(phase, i,
                [threads EXCEPT
                   ![i].marks = IF replied THEN @ \cup {mark} ELSE @,
                   ![i].open = IF done /\ run.seen[i].open THEN FALSE ELSE @])
        PROVE  \E closing \in BOOLEAN : Does(phase, i,
                 [threads EXCEPT
                    ![i].marks = IF replied THEN @ \cup {mark} ELSE @,
                    ![i].open = IF closing THEN FALSE ELSE @])
    <3>1. CASE done /\ run.seen[i].open
      BY <2>1, <3>1
    <3>2. CASE ~(done /\ run.seen[i].open)
      BY <2>1, <3>2
    <3> QED BY <3>1, <3>2
  <2>2. CASE Withdraws \/ Acknowledges
    <3>1. CASE Withdraws
      <4>1. PICK i \in DOMAIN threads, replied \in BOOLEAN, done \in BOOLEAN :
              Does("withdraw", i,
               [threads EXCEPT
                  ![i].marks = IF replied THEN @ \cup {"retracted"} ELSE @,
                  ![i].open = IF done /\ run.seen[i].open THEN FALSE ELSE @])
        BY <3>1 DEF Withdraws
      <4>2. PICK closing \in BOOLEAN : Does("withdraw", i,
               [threads EXCEPT
                  ![i].marks = IF replied THEN @ \cup {"retracted"} ELSE @,
                  ![i].open = IF closing THEN FALSE ELSE @])
        BY <2>1, <4>1
      <4> QED BY <4>2 DEF WorkPlaces
    <3>2. CASE Acknowledges
      <4>1. PICK i \in DOMAIN threads, replied \in BOOLEAN, done \in BOOLEAN :
              Does("acknowledge", i,
               [threads EXCEPT
                  ![i].marks = IF replied THEN @ \cup {"acked"} ELSE @,
                  ![i].open = IF done /\ run.seen[i].open THEN FALSE ELSE @])
        BY <3>2 DEF Acknowledges
      <4>2. PICK closing \in BOOLEAN : Does("acknowledge", i,
               [threads EXCEPT
                  ![i].marks = IF replied THEN @ \cup {"acked"} ELSE @,
                  ![i].open = IF closing THEN FALSE ELSE @])
        BY <2>1, <4>1
      <4> QED BY <4>2 DEF WorkPlaces
    <3> QED BY <2>2, <3>1, <3>2
  <2>3. CASE Resolves
    <3>1. PICK i \in DOMAIN threads, replied \in BOOLEAN, done \in BOOLEAN :
            Does("resolve", i,
             [threads EXCEPT
                ![i].open = IF done THEN FALSE ELSE @,
                ![i].marks =
                  IF ~replied \/ (~done /\ "noted" \in run.seen[i].marks) THEN @
                  ELSE @ \cup {IF done THEN "resolved" ELSE "noted"}])
      BY <2>3 DEF Resolves
    <3>2. PICK marking \in BOOLEAN, mark \in {"resolved", "noted"} :
            /\ marking = ~(~replied \/ (~done /\ "noted" \in run.seen[i].marks))
            /\ mark = IF done THEN "resolved" ELSE "noted"
      OBVIOUS
    <3>3. [threads EXCEPT
                ![i].open = IF done THEN FALSE ELSE @,
                ![i].marks =
                  IF ~replied \/ (~done /\ "noted" \in run.seen[i].marks) THEN @
                  ELSE @ \cup {IF done THEN "resolved" ELSE "noted"}]
          = [threads EXCEPT ![i].marks = IF marking THEN @ \cup {mark} ELSE @,
                            ![i].open = IF done THEN FALSE ELSE @]
      BY <3>2, ThreadFacts
    <3>4. Does("resolve", i, [threads EXCEPT ![i].marks = IF marking THEN @ \cup {mark} ELSE @,
                                             ![i].open = IF done THEN FALSE ELSE @])
      BY <3>1, <3>3
    <3> QED BY <3>4 DEF WorkPlaces
  <2> QED BY <2>2, <2>3
<1> DEFINE open  == IF closing THEN FALSE ELSE threads[i].open
           marks == IF marking THEN threads[i].marks \cup {mark} ELSE threads[i].marks
           t == [key |-> threads[i].key, open |-> open, marks |-> marks]
<1>2. t \in ThreadStates /\ t.key = threads[i].key /\ threads[i].marks \subseteq t.marks
      /\ (t.open => threads[i].open)
  BY ThreadFacts DEF ThreadStates
<1>3. threads' = [threads EXCEPT ![i] = t]
  <2>1. threads' = [threads EXCEPT ![i].marks = marks, ![i].open = open]
    BY <1>1 DEF Does
  <2> HIDE DEF open, marks
  <2>2. [threads[i] EXCEPT !.marks = marks, !.open = open] = t
    <3>1. PICK x \in ThreadStates : x = threads[i]
      BY ThreadFacts
    <3>2. [x EXCEPT !.marks = marks, !.open = open] = [key |-> x.key, open |-> open, marks |-> marks]
      <4>1. x = [key |-> x.key, open |-> x.open, marks |-> x.marks]
        BY DEF ThreadStates
      <4>2. [x EXCEPT !.marks = marks, !.open = open] =
              [f \in {"key", "open", "marks"} |-> IF f = "open" THEN open ELSE IF f = "marks" THEN marks ELSE x.key]
        BY <4>1
      <4>3. [key |-> x.key, open |-> open, marks |-> marks] =
              [f \in {"key", "open", "marks"} |-> IF f = "open" THEN open ELSE IF f = "marks" THEN marks ELSE x.key]
        OBVIOUS
      <4> QED BY <4>2, <4>3
    <3> QED BY <3>1, <3>2
  <2> HIDE DEF t
  <2> QED BY <2>1, <2>2, ThreadFacts
<1>4. Working /\ run' = [run EXCEPT !.left = run.left \ {i}]
  BY <1>1, PlansAreRead DEF Does, Working, RunStates
<1>5. PICK left \in SUBSET run.left : run' = [run EXCEPT !.left = left]
  BY <1>4
<1> HIDE DEF t
<1> QED BY <1>2, <1>3, <1>4, <1>5, ThreadFacts, CallOnThread

LEMMA ToolReopens ==
  ASSUME ToolInv, Reopens
  PROVE  ToolInv'
<1>1. PICK i \in DOMAIN threads, done \in BOOLEAN :
        Does("reopen", i, [threads EXCEPT ![i].open = IF done THEN TRUE ELSE @])
  BY DEF Reopens
<1> DEFINE t == [key |-> threads[i].key, open |-> IF done THEN TRUE ELSE threads[i].open,
                 marks |-> threads[i].marks]
<1>2. t \in ThreadStates /\ t.key = threads[i].key /\ t.marks = threads[i].marks
  BY ThreadFacts DEF ThreadStates
<1>3. threads' = [threads EXCEPT ![i] = t]
  <2>1. [threads[i] EXCEPT !.open = IF done THEN TRUE ELSE @] = t
    BY ThreadFacts, ThreadParts
  <2> HIDE DEF t
  <2> QED BY <1>1, <2>1, ThreadFacts DEF Does
<1>4. Working /\ run' = [run EXCEPT !.left = run.left \ {i}] /\ i \in run.left /\ run.at = "reopen"
  BY <1>1, PlansAreRead DEF Does, Working, RunStates, WorkPlaces
<1>5. PICK left \in SUBSET run.left : run' = [run EXCEPT !.left = left]
  BY <1>4
<1>6. threads[i].key \in Live(run)
  <2>1. i \in ToReopen(run)
    BY <1>4 DEF ToolInv, PlanInv
  <2>2. i \in 1..Len(run.seen) /\ run.seen[i].key \in Live(run)
    BY <1>4, <2>1, PlansAreRead DEF ToReopen
  <2> QED BY <1>4, <2>2 DEF ToolInv, SeenInv, Working, Reading
<1> HIDE DEF t
<1> QED BY <1>2, <1>3, <1>4, <1>5, <1>6, ThreadFacts, CallOnThread

LEMMA PeopleAnswer ==
  ASSUME ToolInv, NEW i \in DOMAIN threads, PersonAnswers(i)
  PROVE  ToolInv'
<1>1. UNCHANGED run
  BY DEF PersonAnswers
<1>2. CASE threads' = Replied(i, "fp")
  <2> DEFINE t == [key |-> threads[i].key, open |-> threads[i].open, marks |-> threads[i].marks \cup {"fp"}]
  <2>1. t \in ThreadStates /\ t.key = threads[i].key /\ threads[i].marks \subseteq t.marks
        /\ (t.open => threads[i].open)
    BY ThreadFacts DEF ThreadStates
  <2>2. threads' = [threads EXCEPT ![i] = t]
    <3>1. [threads[i] EXCEPT !.marks = @ \cup {"fp"}] = t
      BY ThreadFacts, ThreadParts
    <3> HIDE DEF t
    <3> QED BY <1>2, <3>1, ThreadFacts DEF Replied
  <2> HIDE DEF t
  <2> QED BY <1>1, <2>1, <2>2, ThreadFacts, PersonOnThread
<1>3. CASE threads' = [threads EXCEPT ![i].open = FALSE]
  <2> DEFINE t == [key |-> threads[i].key, open |-> FALSE, marks |-> threads[i].marks]
  <2>1. t \in ThreadStates /\ t.key = threads[i].key /\ threads[i].marks \subseteq t.marks
        /\ (t.open => threads[i].open)
    BY ThreadFacts DEF ThreadStates
  <2>2. threads' = [threads EXCEPT ![i] = t]
    <3>1. [threads[i] EXCEPT !.open = FALSE] = t
      BY ThreadFacts, ThreadParts
    <3> HIDE DEF t
    <3> QED BY <1>3, <3>1, ThreadFacts
  <2> HIDE DEF t
  <2> QED BY <1>1, <2>1, <2>2, ThreadFacts, PersonOnThread
<1> QED BY <1>2, <1>3 DEF PersonAnswers

(* A run that reads threads reads them from the first on. *)
LEMMA ToolLoads ==
  ASSUME ToolInv, Loads
  PROVE  ToolInv'
<1>0. threads \in Seq(ThreadStates) /\ Len(threads) \in Nat
  BY DEF ToolInv, ToolTypes
<1>1. UNCHANGED threads
  BY DEF Loads
<1>2. PICK n \in 0..Len(threads), ok \in BOOLEAN :
        /\ run' = [at |-> "passes", seen |-> IF ok THEN threads ELSE SubSeq(threads, 1, n), ok |-> ok]
        /\ ok => n = Len(threads)
  <2>1. CASE run' = [at |-> "passes", seen |-> threads, ok |-> TRUE]
    <3>1. Len(threads) \in 0..Len(threads) /\ TRUE \in BOOLEAN
      BY <1>0
    <3> QED BY <2>1, <3>1
  <2>2. ASSUME NEW n \in 0..Len(threads),
               run' = [at |-> "passes", seen |-> SubSeq(threads, 1, n), ok |-> FALSE]
        PROVE  \E m \in 0..Len(threads), ok \in BOOLEAN :
                 /\ run' = [at |-> "passes", seen |-> IF ok THEN threads ELSE SubSeq(threads, 1, m), ok |-> ok]
                 /\ ok => m = Len(threads)
    BY <2>2
  <2> QED BY <2>1, <2>2 DEF Loads
<1> DEFINE part == IF ok THEN threads ELSE SubSeq(threads, 1, n)
<1>3. part \in Seq(ThreadStates) /\ Len(part) = n /\ \A i \in 1..n : part[i] = threads[i]
  BY <1>0, <1>2
<1> HIDE DEF part
<1>4. run'.at = "passes" /\ run'.seen = part /\ run'.ok = ok
      /\ run' = [at |-> "passes", seen |-> run'.seen, ok |-> run'.ok]
  BY <1>2 DEF part
<1>5. ToolTypes'
  BY <1>0, <1>1, <1>3, <1>4 DEF ToolTypes, Reading, Working, WorkPlaces
<1>6. SeenInv'
  <2>1. Len(run'.seen) = n /\ \A i \in 1..n : run'.seen[i] = threads'[i]
    BY <1>1, <1>3, <1>4
  <2>2. n \in Nat /\ n <= Len(threads') /\ (ok => n = Len(threads'))
    BY <1>0, <1>1, <1>2
  <2> QED BY <1>4, <2>1, <2>2 DEF SeenInv
<1>7. ClosedInv'
  BY <1>0, <1>1, <1>2, <1>3, <1>4 DEF ClosedInv, Working, WorkPlaces
<1> QED BY <1>1, <1>4, <1>5, <1>6, <1>7 DEF ToolInv, PlanInv, PostInv, Working, WorkPlaces, OneThreadPerFinding

(* The plan is made of what was read and answered. *)
LEMMA ToolPlans ==
  ASSUME ToolInv, RunsPasses
  PROVE  ToolInv'
<1>1. PICK failed \in SUBSET Passes, raw \in SUBSET Findings, back \in SUBSET Findings :
        LET r == [at |-> "withdraw", seen |-> run.seen, ok |-> run.ok,
                  failed |-> failed, reported |-> Dedupe(raw), retracted |-> back,
                  create |-> {}, left |-> {}]
        IN \E create \in ToCreate(r) : run' = [r EXCEPT !.create = create, !.left = ToWithdraw(r)]
  BY DEF RunsPasses
<1> DEFINE r == [at |-> "withdraw", seen |-> run.seen, ok |-> run.ok,
                 failed |-> failed, reported |-> Dedupe(raw), retracted |-> back,
                 create |-> {}, left |-> {}]
<1>2. PICK create \in ToCreate(r) : run' = [r EXCEPT !.create = create, !.left = ToWithdraw(r)]
  BY <1>1
<1>3. UNCHANGED threads /\ run.at = "passes"
  BY DEF RunsPasses
<1>4. threads \in Seq(ThreadStates) /\ run.seen \in Seq(ThreadStates) /\ run.ok \in BOOLEAN
  BY <1>3 DEF ToolInv, ToolTypes, Reading
<1>5. r.seen = run.seen /\ r.failed = failed /\ r.reported = Dedupe(raw) /\ r.retracted = back
  OBVIOUS
<1>6. /\ run'.at = "withdraw" /\ run'.seen = run.seen /\ run'.ok = run.ok /\ run'.failed = failed
      /\ run'.reported = Dedupe(raw) /\ run'.retracted = back /\ run'.create = create
      /\ run'.left = ToWithdraw(r)
      /\ run' = [at |-> "withdraw", seen |-> run.seen, ok |-> run.ok, failed |-> failed,
                 reported |-> Dedupe(raw), retracted |-> back, create |-> create, left |-> ToWithdraw(r)]
  BY <1>2
<1>7. Dedupe(raw) \subseteq Findings
  BY DEF Dedupe
<1>8. create \subseteq Unthreaded(r) /\ Unthreaded(r) \subseteq Live(r) /\ Live(r) \subseteq Findings
  BY <1>5, <1>7 DEF ToCreate, Unthreaded, Live
<1>9. ToWithdraw(r) \subseteq DOMAIN run.seen /\ DOMAIN run.seen = 1..Len(run.seen) /\ Len(run.seen) \in Nat
  BY <1>4, <1>5 DEF ToWithdraw
<1> HIDE DEF r
<1>10. run' \in RunStates
  BY <1>4, <1>6, <1>7, <1>8, <1>9 DEF RunStates, WorkPlaces
<1>11. /\ ToWithdraw(run') = ToWithdraw(r) /\ Live(run') = Live(r) /\ Mine(run') = Mine(r)
       /\ Unthreaded(run') = Unthreaded(r)
  BY <1>5, <1>6, SamePlan
<1>12. ToolTypes'
  BY <1>3, <1>4, <1>6, <1>10 DEF ToolTypes, Reading, Working, WorkPlaces
<1>13. SeenInv'
  BY <1>3, <1>6 DEF ToolInv, SeenInv, Reading, WorkPlaces
<1>14. PlanInv'
  <2>1. \A f \in create : f \in Live(run') /\ \A i \in Mine(run') : run'.seen[i].key # f
    BY <1>5, <1>6, <1>8, <1>11 DEF Unthreaded
  <2> QED BY <1>6, <1>11, <2>1 DEF PlanInv
<1>15. ClosedInv'
  <2>1. \A i \in 1..Len(run.seen) : ~run.seen[i].open => ~threads[i].open
    BY <1>3 DEF ToolInv, ClosedInv
  <2> QED BY <1>3, <1>6, <2>1 DEF ClosedInv
<1> QED BY <1>3, <1>6, <1>12, <1>13, <1>14, <1>15 DEF ToolInv, PostInv, OneThreadPerFinding

(* A finding is posted that has no thread, and is not posted again. *)
LEMMA ToolPosts ==
  ASSUME ToolInv, Posts
  PROVE  ToolInv'
<1>1. PICK f \in Findings, done \in BOOLEAN :
        Does("post", f,
             IF done THEN Append(threads, [key |-> f, open |-> TRUE, marks |-> {}]) ELSE threads)
  BY DEF Posts
<1> DEFINE t == [key |-> f, open |-> TRUE, marks |-> {}]
<1>2. Working /\ run.at = "post" /\ f \in run.left
  BY <1>1 DEF Does, Working, WorkPlaces
<1>3. run \in RunStates /\ threads \in Seq(ThreadStates) /\ Len(threads) \in Nat /\ Len(run.seen) \in Nat
      /\ 1..Len(run.seen) \subseteq 1..Len(threads)
  BY <1>2, PlansAreRead DEF ToolInv, ToolTypes
<1>4. run' = [run EXCEPT !.left = run.left \ {f}] /\ run.left \ {f} \subseteq run.left
  BY <1>1, <1>3 DEF Does, RunStates
<1>5. run' \in RunStates /\ run'.left = run.left \ {f} /\ run'.at = run.at /\ run'.seen = run.seen
      /\ run'.ok = run.ok /\ run'.failed = run.failed /\ run'.reported = run.reported
      /\ run'.retracted = run.retracted /\ run'.create = run.create
  BY <1>3, <1>4 DEF RunStates
<1>6. Live(run') = Live(run) /\ Mine(run') = Mine(run)
  BY <1>5, SamePlan
<1>7. PlanInv'
  BY <1>2, <1>5, <1>6 DEF ToolInv, PlanInv, Working
<1>8. t \in ThreadStates /\ t.key = f
  BY DEF ThreadStates
<1>9. threads' = threads \/ threads' = Append(threads, t)
  BY <1>1 DEF Does
<1>10. \A i \in DOMAIN threads : threads[i].key # f
  BY <1>2 DEF ToolInv, PostInv
<1> HIDE DEF t
<1>11. /\ threads' \in Seq(ThreadStates) /\ Len(threads') \in {Len(threads), Len(threads) + 1}
       /\ \A i \in 1..Len(threads) : threads'[i] = threads[i]
       /\ \A i \in 1..Len(threads') : i \in 1..Len(threads) \/ (i = Len(threads) + 1 /\ threads'[i] = t)
       /\ DOMAIN threads' = 1..Len(threads') /\ DOMAIN threads = 1..Len(threads)
  <2>1. CASE threads' = threads
    BY <1>3, <2>1
  <2>2. CASE threads' = Append(threads, t)
    BY <1>3, <1>8, <2>2
  <2> QED BY <1>9, <2>1, <2>2
<1>12. ToolTypes'
  BY <1>2, <1>5, <1>11 DEF ToolTypes, Working, Reading, WorkPlaces, RunStates
<1>13. SeenInv'
  <2>1. Len(run.seen) <= Len(threads) /\ \A i \in 1..Len(run.seen) :
          threads[i].key = run.seen[i].key /\ run.seen[i].marks \subseteq threads[i].marks
    BY <1>2 DEF ToolInv, SeenInv, Reading, Working
  <2>2. \A i \in 1..Len(run.seen) : threads'[i] = threads[i]
    BY <1>3, <1>11
  <2>3. Len(run.seen) <= Len(threads')
    <3>1. Len(threads') = Len(threads) \/ Len(threads') = Len(threads) + 1
      BY <1>11
    <3> QED BY <1>3, <2>1, <3>1
  <2> QED BY <1>2, <1>5, <2>1, <2>2, <2>3 DEF SeenInv
<1>14. PostInv'
  BY <1>2, <1>5, <1>8, <1>11 DEF ToolInv, PostInv
<1>15. ClosedInv'
  <2> SUFFICES ASSUME NEW j \in 1..Len(run.seen), ~run.seen[j].open, run.seen[j].key \notin Live(run)
               PROVE  ~threads'[j].open
    BY <1>2, <1>5, <1>6 DEF ClosedInv, Working, WorkPlaces
  <2> QED BY <1>2, <1>3, <1>11 DEF ToolInv, ClosedInv
<1>16. OneThreadPerFinding'
  <2> SUFFICES ASSUME NEW i \in 1..Len(threads'), NEW j \in 1..Len(threads'),
                      threads'[i].key = threads'[j].key
               PROVE  i = j
    BY <1>11 DEF OneThreadPerFinding
  <2>1. CASE i \in 1..Len(threads) /\ j \in 1..Len(threads)
    BY <1>11, <2>1 DEF ToolInv, OneThreadPerFinding
  <2>2. CASE i \notin 1..Len(threads) \/ j \notin 1..Len(threads)
    BY <1>8, <1>10, <1>11, <2>2
  <2> QED BY <2>1, <2>2
<1> QED BY <1>7, <1>12, <1>13, <1>14, <1>15, <1>16 DEF ToolInv

(* From phase to phase.  Before posts begin every thread has been read, or none
   will be posted. *)
LEMMA ToolMovesOn ==
  ASSUME ToolInv, MovesOn
  PROVE  ToolInv'
<1>1. PICK k \in 1..5 :
        /\ run.at = Phases[k] /\ run.left = {}
        /\ run' = [run EXCEPT !.at = Phases[k + 1], !.left = Work(run, Phases[k + 1])]
  BY DEF MovesOn
<1>2. UNCHANGED threads
  BY DEF MovesOn
<1> DEFINE at == Phases[k + 1]
<1>3. /\ run.at \in {"withdraw", "acknowledge", "post", "resolve", "reopen"}
      /\ at \in {"acknowledge", "post", "resolve", "reopen", "submit"}
      /\ at = "acknowledge" => run.at = "withdraw"
      /\ at = "post" => run.at = "acknowledge"
  <2>1. k = 1 \/ k = 2 \/ k = 3 \/ k = 4 \/ k = 5
    OBVIOUS
  <2>2. /\ Phases[1] = "withdraw" /\ Phases[2] = "acknowledge" /\ Phases[3] = "post"
        /\ Phases[4] = "resolve" /\ Phases[5] = "reopen" /\ Phases[6] = "submit"
    BY DEF Phases
  <2> QED BY <1>1, <2>1, <2>2
<1>4. Working
  BY <1>3 DEF Working, WorkPlaces
<1>5. run \in RunStates /\ threads \in Seq(ThreadStates) /\ Len(threads) \in Nat /\ Len(run.seen) \in Nat
      /\ ToAcknowledge(run) \cup ToResolve(run) \cup ToReopen(run) \subseteq 1..Len(run.seen)
  BY <1>4, PlansAreRead DEF ToolInv, ToolTypes
<1>6. Work(run, at) \subseteq Nat \cup Findings
  BY <1>3, <1>5 DEF Work, RunStates
<1>7. run' = [run EXCEPT !.at = at, !.left = Work(run, at)] /\ at \in WorkPlaces
  BY <1>1, <1>3 DEF WorkPlaces
<1> HIDE DEF at
<1>8. run' \in RunStates /\ run'.at = at /\ run'.left = Work(run, at) /\ run'.seen = run.seen
      /\ run'.ok = run.ok /\ run'.failed = run.failed /\ run'.reported = run.reported
      /\ run'.retracted = run.retracted /\ run'.create = run.create
  BY <1>5, <1>6, <1>7 DEF RunStates
<1>9. /\ ToAcknowledge(run') = ToAcknowledge(run) /\ Live(run') = Live(run) /\ Mine(run') = Mine(run)
      /\ ToResolve(run') = ToResolve(run) /\ ToReopen(run') = ToReopen(run)
  BY <1>8, SamePlan
<1>10. ToolTypes'
  BY <1>2, <1>5, <1>7, <1>8 DEF ToolTypes, Working, Reading, WorkPlaces, RunStates
<1>11. SeenInv'
  BY <1>2, <1>3, <1>8 DEF ToolInv, SeenInv, Reading, WorkPlaces
<1>12. PlanInv'
  <2>1. \A f \in run.create : f \in Live(run) /\ \A i \in Mine(run) : run.seen[i].key # f
    BY <1>4 DEF ToolInv, PlanInv
  <2>2. /\ at = "acknowledge" => Work(run, at) = ToAcknowledge(run)
        /\ at = "post" => Work(run, at) \subseteq run.create
        /\ at = "resolve" => Work(run, at) = ToResolve(run)
        /\ at = "reopen" => Work(run, at) = ToReopen(run)
        /\ at = "submit" => Work(run, at) = {}
    BY DEF Work
  <2> QED BY <1>3, <1>8, <1>9, <2>1, <2>2 DEF PlanInv
<1>13. PostInv'
  <2> SUFFICES ASSUME at = "post", NEW f \in Work(run, at), NEW i \in DOMAIN threads, threads[i].key = f
               PROVE  FALSE
    BY <1>2, <1>8 DEF PostInv
  <2>1. run.ok /\ f \in run.create /\ run.at = "acknowledge"
    BY <1>3 DEF Work
  <2>2. i \in 1..Len(run.seen) /\ run.seen[i].key = f /\ Len(run.seen) = Len(threads)
    BY <1>5, <2>1 DEF ToolInv, SeenInv, Reading, WorkPlaces
  <2>3. f \in Live(run) /\ \A j \in Mine(run) : run.seen[j].key # f
    BY <1>4, <2>1 DEF ToolInv, PlanInv
  <2>4. i \in Mine(run)
    <3>1. DOMAIN run.seen = 1..Len(run.seen) /\ DOMAIN threads = 1..Len(threads)
      BY <1>5 DEF RunStates
    <3>2. \A j \in DOMAIN run.seen : run.seen[j].key = f => j = i
      BY <2>1, <2>2, <3>1 DEF ToolInv, SeenInv, Reading, WorkPlaces, OneThreadPerFinding
    <3>3. f \notin Excluded(run)
      BY <2>3 DEF Live
    <3>4. \A j \in DOMAIN run.seen : j > i => run.seen[j].key # f
      BY <1>5, <2>2, <3>1, <3>2
    <3> QED BY <2>2, <3>1, <3>3, <3>4 DEF Mine
  <2> QED BY <2>2, <2>3, <2>4
<1>14. ClosedInv'
  BY <1>2, <1>4, <1>8, <1>9, <1>7 DEF ToolInv, ClosedInv, Working, WorkPlaces
<1> QED BY <1>2, <1>10, <1>11, <1>12, <1>13, <1>14 DEF ToolInv, OneThreadPerFinding

LEMMA ToolInvNext ==
  ASSUME ToolInv, [ReviewNext]_reviewVars
  PROVE  ToolInv'
<1>1. CASE UNCHANGED reviewVars
  <2>1. UNCHANGED <<threads, run>>
    BY <1>1 DEF reviewVars
  <2> QED BY <2>1 DEF ToolInv, ToolTypes, SeenInv, PlanInv, PostInv, ClosedInv, OneThreadPerFinding,
        Working, Reading
<1>2. ASSUME UNCHANGED threads, run'.at \in {"idle", "summary"} PROVE ToolInv'
  BY <1>2 DEF ToolInv, ToolTypes, SeenInv, PlanInv, PostInv, ClosedInv, OneThreadPerFinding,
     Working, Reading, WorkPlaces
<1>3. CASE Submits
  BY <1>2, <1>3 DEF Submits
<1>4. CASE WritesSummary \/ Cancelled
  BY <1>2, <1>4 DEF WritesSummary, Cancelled, NoRun
<1> QED
  BY <1>1, <1>3, <1>4, ToolLoads, ToolPlans, ToolMovesOn, ToolCloses, ToolPosts, ToolReopens, PeopleAnswer
  DEF ReviewNext

THEOREM ToolInvariant == ToolSpec => []ToolInv
<1>1. ReviewInit => ToolInv
  BY DEF ReviewInit, NoRun, ToolInv, ToolTypes, SeenInv, PlanInv, PostInv, ClosedInv,
     OneThreadPerFinding, Working, Reading, WorkPlaces
<1> QED BY <1>1, ToolInvNext, PTL DEF ToolSpec

(* review.yml cancels runs and GitHub loses replies; a finding has one thread at
   most all the same, for any findings, passes, positions and number of runs. *)
THEOREM FindingHasOneThread == ToolSpec => []OneThreadPerFinding
<1>1. ToolInv => OneThreadPerFinding
  BY DEF ToolInv
<1> QED BY <1>1, ToolInvariant, PTL

(* The threads whose calls are still to be made were read and planned as they
   are: what a step does to them, the plan answers for. *)
LEMMA PlannedThread ==
  ASSUME ToolInv, Working, NEW i \in ToResolve(run) \cup ToReopen(run)
  PROVE  /\ threads[i].key = run.seen[i].key /\ i \in 1..Len(run.seen)
         /\ run.seen[i].key \notin Excluded(run)
         /\ i \in ToResolve(run) => PassOf[run.seen[i].key] \notin run.failed
                                   /\ run.seen[i].key \notin run.reported
<1>1. i \in 1..Len(run.seen)
  BY PlansAreRead
<1>2. threads[i].key = run.seen[i].key
  BY <1>1 DEF ToolInv, SeenInv, Working, Reading
<1> QED BY <1>1, <1>2 DEF ToResolve, ToReopen, Mine, Live

(* toResolve asks for a pass that answered and reported the finding no longer:
   the silence of a failed pass never marks a thread resolved, whatever fails or
   is answered between the read and the resolution. *)
THEOREM SilenceNeverFixes == ToolSpec => SilenceIsNoFix
<1>1. ASSUME ToolInv, [ReviewNext]_reviewVars, ~UNCHANGED reviewVars,
             NEW i \in DOMAIN threads, "resolved" \in threads'[i].marks \ threads[i].marks
      PROVE  PassOf[threads[i].key] \notin run.failed /\ threads[i].key \notin run.reported
  <2>0. threads \in Seq(ThreadStates) /\ i \in 1..Len(threads) /\ threads[i] \in ThreadStates
    BY <1>1, ThreadFacts
  <2>1. CASE Resolves
    <3>1. PICK j \in DOMAIN threads : j \in run.left /\ run.at = "resolve" /\ (j # i => threads'[i] = threads[i])
      BY <2>0, <2>1 DEF Resolves, Does
    <3>2. i \in ToResolve(run) /\ Working
      BY <1>1, <3>1 DEF ToolInv, PlanInv, Working, WorkPlaces
    <3> QED BY <1>1, <3>2, PlannedThread
  <2>2. CASE Withdraws \/ Acknowledges
    <3>1. PICK j \in DOMAIN threads, replied \in BOOLEAN, done \in BOOLEAN, mark \in {"retracted", "acked"} :
            threads' = [threads EXCEPT
              ![j].marks = IF replied THEN @ \cup {mark} ELSE @,
              ![j].open = IF done /\ run.seen[j].open THEN FALSE ELSE @]
      <4>1. CASE Withdraws
        BY <4>1 DEF Withdraws, Does
      <4>2. CASE Acknowledges
        BY <4>2 DEF Acknowledges, Does
      <4> QED BY <2>2, <4>1, <4>2
    <3>2. CASE j # i
      BY <1>1, <2>0, <3>1, <3>2
    <3>3. CASE j = i
      <4>1. threads'[i] = [threads[i] EXCEPT !.marks = IF replied THEN @ \cup {mark} ELSE @,
                             !.open = IF done /\ run.seen[i].open THEN FALSE ELSE @]
        BY <2>0, <3>1, <3>3
      <4>2. threads'[i].marks = IF replied THEN threads[i].marks \cup {mark} ELSE threads[i].marks
        BY <2>0, <4>1 DEF ThreadStates
      <4> QED BY <1>1, <4>2
    <3> QED BY <3>2, <3>3
  <2>3. CASE Reopens
    BY <1>1, <2>0, <2>3 DEF Reopens, Does, ThreadStates
  <2>4. CASE Posts
    BY <1>1, <2>0, <2>4 DEF Posts, Does
  <2>5. CASE \E j \in DOMAIN threads : PersonAnswers(j)
    BY <1>1, <2>0, <2>5 DEF PersonAnswers, Replied, ThreadStates
  <2>6. CASE UNCHANGED threads
    BY <1>1, <2>6
  <2> QED
    BY <1>1, <2>1, <2>2, <2>3, <2>4, <2>5, <2>6
    DEF ReviewNext, Loads, RunsPasses, MovesOn, Submits, WritesSummary, Cancelled
<1>2. ToolInv /\ [ReviewNext]_reviewVars =>
        [\A i \in DOMAIN threads :
           "resolved" \in threads'[i].marks \ threads[i].marks =>
             PassOf[threads[i].key] \notin run.failed
             /\ threads[i].key \notin run.reported]_reviewVars
  BY <1>1
<1> QED BY <1>2, ToolInvariant, PTL DEF ToolSpec, SilenceIsNoFix

(* isDismissed: what people, or the reviewer itself, waved off before a run read
   it stays down: that run opens no such thread. *)
THEOREM WavedOffIsKept == ToolSpec => WavedOffStaysDown
<1>1. ASSUME ToolInv, [ReviewNext]_reviewVars, NEW i \in DOMAIN threads, ~threads[i].open, threads'[i].open
      PROVE  {"fp", "retracted"} \cap run.seen[i].marks = {}
  <2>0. threads \in Seq(ThreadStates) /\ i \in 1..Len(threads) /\ threads[i] \in ThreadStates
    BY <1>1, ThreadFacts
  <2>1. CASE Reopens
    <3>1. i \in run.left /\ run.at = "reopen"
      BY <1>1, <2>0, <2>1 DEF Reopens, Does, ThreadStates
    <3>2. i \in ToReopen(run) /\ Working
      BY <1>1, <3>1 DEF ToolInv, PlanInv, Working, WorkPlaces
    <3>3. i \in DOMAIN run.seen /\ run.seen[i].key \notin Excluded(run)
      BY <1>1, <3>2, PlannedThread DEF ToReopen, Mine
    <3>4. i \notin DismissedThreads(run) /\ i \notin ToWithdraw(run)
      BY <3>3 DEF Excluded, KeysAt
    <3>5. "retracted" \notin run.seen[i].marks
      BY <3>3 DEF Excluded, ToSet
    <3>6. run.seen[i].key \notin KeysAt(run, ToWithdraw(run))
      BY <3>3 DEF Excluded, KeysAt
    <3>7. "fp" \notin run.seen[i].marks
      BY <3>3, <3>4, <3>6 DEF DismissedThreads, IsDismissed
    <3> QED BY <3>5, <3>7
  <2>2. CASE Withdraws \/ Acknowledges
    <3>1. PICK j \in DOMAIN threads, replied \in BOOLEAN, done \in BOOLEAN, mark \in {"retracted", "acked"} :
            threads' = [threads EXCEPT
              ![j].marks = IF replied THEN @ \cup {mark} ELSE @,
              ![j].open = IF done /\ run.seen[j].open THEN FALSE ELSE @]
      <4>1. CASE Withdraws
        BY <4>1 DEF Withdraws, Does
      <4>2. CASE Acknowledges
        BY <4>2 DEF Acknowledges, Does
      <4> QED BY <2>2, <4>1, <4>2
    <3> QED BY <1>1, <2>0, <3>1 DEF ThreadStates
  <2>3. CASE Resolves
    BY <1>1, <2>0, <2>3 DEF Resolves, Does, ThreadStates
  <2>4. CASE Posts
    BY <1>1, <2>0, <2>4 DEF Posts, Does
  <2>5. CASE \E j \in DOMAIN threads : PersonAnswers(j)
    BY <1>1, <2>0, <2>5 DEF PersonAnswers, Replied, ThreadStates
  <2>6. CASE UNCHANGED threads
    BY <1>1, <2>6
  <2> QED
    BY <1>1, <2>1, <2>2, <2>3, <2>4, <2>5, <2>6
    DEF ReviewNext, Loads, RunsPasses, MovesOn, Submits, WritesSummary, Cancelled, reviewVars
<1>2. ToolInv /\ [ReviewNext]_reviewVars =>
        [\A i \in DOMAIN threads :
           ~threads[i].open /\ threads'[i].open
             => {"fp", "retracted"} \cap run.seen[i].marks = {}]_reviewVars
  BY <1>1
<1> QED BY <1>2, ToolInvariant, PTL DEF ToolSpec, WavedOffStaysDown

(* The verdict of main.ts: an approval is submitted only when every pass answered,
   and each blocking finding they reported was taken back or waved off, on a thread
   that is still closed, or still marked, as the verdict goes out. *)
THEOREM ApprovalIsEarned == ToolSpec => ApprovalEarned
<1>1. ASSUME ToolInv, ReviewNext, review' = "approve", review # "approve"
      PROVE  /\ run.failed = {}
             /\ \A f \in run.reported :
                  Rank[f] <= BlockingRank =>
                    \/ f \in run.retracted
                    \/ \E t \in ToSet(threads) :
                         t.key = f /\ (~t.open \/ {"fp", "retracted"} \cap t.marks # {})
  <2>1. run.at = "submit" /\ Verdict(run) = "approve"
    BY <1>1 DEF ReviewNext, Submits, Loads, RunsPasses, MovesOn, Withdraws, Acknowledges, Posts, Resolves,
       Reopens, Does, WritesSummary, Cancelled, PersonAnswers
  <2>2. Working /\ run \in RunStates
    BY <1>1, <2>1 DEF ToolInv, ToolTypes, Working, WorkPlaces
  <2>3. run.failed = {} /\ \A f \in Live(run) : Rank[f] > BlockingRank
    BY <2>1 DEF Verdict
  <2>4. ASSUME NEW f \in run.reported, Rank[f] <= BlockingRank
        PROVE  \/ f \in run.retracted
               \/ \E t \in ToSet(threads) :
                    t.key = f /\ (~t.open \/ {"fp", "retracted"} \cap t.marks # {})
    <3>0. f \in Findings /\ Rank[f] \in Nat /\ BlockingRank \in Nat
      BY <2>2, ReviewAssumption DEF RunStates
    <3>1. f \notin Live(run)
      BY <2>3, <2>4, <3>0
    <3>2. f \in Excluded(run)
      BY <2>4, <3>1 DEF Live
    <3>3. PICK i \in DOMAIN run.seen :
            /\ run.seen[i].key = f
            /\ i \in ToWithdraw(run) \/ i \in DismissedThreads(run) \/ "retracted" \in run.seen[i].marks
      BY <3>2 DEF Excluded, KeysAt, ToWithdraw, DismissedThreads, ToSet
    <3>4. i \in 1..Len(run.seen) /\ i \in DOMAIN threads /\ threads[i] \in ToSet(threads)
      BY <1>1, <2>2, <3>3, PlansAreRead DEF RunStates, ToSet, ToolInv, ToolTypes
    <3>5. threads[i].key = f /\ run.seen[i].marks \subseteq threads[i].marks
      BY <1>1, <2>2, <3>3, <3>4 DEF ToolInv, SeenInv, Working, Reading
    <3>6. CASE i \in ToWithdraw(run)
      BY <3>3, <3>6 DEF ToWithdraw
    <3>7. CASE "retracted" \in run.seen[i].marks
      BY <3>4, <3>5, <3>7
    <3>8. CASE i \in DismissedThreads(run)
      <4>1. "fp" \in run.seen[i].marks \/ ~run.seen[i].open
        BY <3>8 DEF DismissedThreads, IsDismissed, HumanResolved
      <4>2. CASE "fp" \in run.seen[i].marks
        BY <3>4, <3>5, <4>2
      <4>3. CASE ~run.seen[i].open
        <5>1. ~threads[i].open
          BY <1>1, <2>2, <3>1, <3>3, <3>4, <4>3 DEF ToolInv, ClosedInv
        <5> QED BY <3>4, <3>5, <5>1
      <4> QED BY <4>1, <4>2, <4>3
    <3> QED BY <3>3, <3>6, <3>7, <3>8
  <2> QED BY <2>3, <2>4
<1>2. ToolInv /\ [ReviewNext]_reviewVars =>
        [review' = "approve" /\ review # "approve" =>
           /\ run.failed = {}
           /\ \A f \in run.reported :
                Rank[f] <= BlockingRank =>
                  \/ f \in run.retracted
                  \/ \E t \in ToSet(threads) :
                       t.key = f /\ (~t.open \/ {"fp", "retracted"} \cap t.marks # {})]_reviewVars
  BY <1>1
<1> QED BY <1>2, ToolInvariant, PTL DEF ToolSpec, ApprovalEarned

-----------------------------------------------------------------------------
(***************************************************************************)
(* Items and their versions.  A merged pull request stays merged, so among *)
(* the versions under way none is merged and older than one that is not;   *)
(* once a merge is a fact, what arrives in order finds it in the graph.    *)
(***************************************************************************)
AllStates == {"none", "open", "closed", "merged", "todo", "done", "doc", "transcript"}

ItemStates ==
  [state : AllStates, text : Texts \cup {None}, owner : People \cup {None}, asked : SUBSET People,
   looked : SUBSET People, v : Nat]

Parcels == [item : Items, payload : ItemStates]

ItemTypes ==
  /\ connector \in {"github", "linear", "granola"}
  /\ origin \in [Items -> ItemStates] /\ seen \in [Items -> ItemStates]
  /\ hooks \subseteq Parcels /\ walk \subseteq Parcels

(* Every version of an item that is somewhere. *)
Known(w) == {origin[w], seen[w]} \cup {x.payload : x \in {y \in hooks \cup walk : y.item = w}}

VersionInv(w) ==
  /\ \A p \in Known(w) : p.v <= origin[w].v
  /\ \A p, q \in Known(w) : p.v <= q.v /\ p.state = "merged" => q.state = "merged"
  /\ origin[w].v = 0 => origin[w].state # "merged"

Merges(w) == {f \in facts : f.item = w /\ f.what = "merged"}

MergeInv(w) ==
  w \notin late =>
    /\ \A f, g \in Merges(w) : f = g
    /\ Merges(w) # {} => seen[w].state = "merged" /\ \A e \in graph : e.item = w => e.state = "merged"

GithubInv ==
  /\ \A f \in facts : f.what = "merged" => connector = "github"
  /\ connector = "github" => \A e \in graph : e.type = "work_item"
  /\ \A e \in graph : e = [item |-> e.item, type |-> e.type, state |-> e.state, body |-> e.body]

ItemsInv == ItemTypes /\ GithubInv /\ \A w \in Items : VersionInv(w) /\ MergeInv(w)

LEMMA KnownIsTyped ==
  ASSUME ItemTypes, NEW w \in Items
  PROVE  \A p \in Known(w) : p \in ItemStates /\ p.v \in Nat
BY DEF ItemTypes, Known, Parcels, ItemStates

(* Versions that are copied about stay as they are. *)
LEMMA VersionsKept ==
  ASSUME ItemsInv, ItemTypes', UNCHANGED origin,
         \A w \in Items : \A p \in Known(w)' : \E q \in Known(w) : p.v = q.v /\ p.state = q.state
  PROVE  \A w \in Items : VersionInv(w)'
<1> SUFFICES ASSUME NEW w \in Items PROVE VersionInv(w)'
  OBVIOUS
<1>1. VersionInv(w)
  BY DEF ItemsInv
<1>2. \A p \in Known(w)' : p.v <= origin'[w].v
  BY <1>1 DEF VersionInv
<1>3. ASSUME NEW p \in Known(w)', NEW q \in Known(w)', p.v <= q.v, p.state = "merged"
      PROVE  q.state = "merged"
  <2>1. PICK x \in Known(w) : p.v = x.v /\ p.state = x.state
    OBVIOUS
  <2>2. PICK y \in Known(w) : q.v = y.v /\ q.state = y.state
    OBVIOUS
  <2> QED BY <1>1, <1>3, <2>1, <2>2 DEF VersionInv
<1> QED BY <1>1, <1>2, <1>3 DEF VersionInv

(* The people of a version, its kinds and its number: what an edit may change. *)
LEMMA EditsKeepMerges ==
  ASSUME NEW i \in ItemStates, NEW j \in Edited(i), connector \in {"github", "linear", "granola"}
  PROVE  /\ [j EXCEPT !.v = @ + 1] \in ItemStates
         /\ [j EXCEPT !.v = @ + 1].v = i.v + 1
         /\ [j EXCEPT !.v = @ + 1].state = j.state
         /\ i.state = "merged" /\ i.v # 0 => j.state = "merged"
         /\ i.v = 0 => j.state # "merged"
<1>1. j \in ItemStates /\ j.v = i.v /\ (i.state = "merged" /\ i.v # 0 => j.state = "merged")
        /\ (i.v = 0 => j.state # "merged")
  <2>1. CASE i.v = 0
    <3>1. j \in Created
      BY <2>1 DEF Edited
    <3>2. PICK s \in States \ {"merged"}, t \in Texts \cup {None}, o \in People \cup {None} :
            j = [state |-> s, text |-> t, owner |-> o, asked |-> {}, looked |-> {}, v |-> 0]
      BY <3>1 DEF Created
    <3>3. s \in AllStates
      BY DEF States, AllStates
    <3> QED BY <2>1, <3>2, <3>3 DEF ItemStates
  <2>2. CASE i.v # 0 /\ \E s \in IF i.state = "merged" THEN {} ELSE States : j = [i EXCEPT !.state = s]
    <3>1. PICK s \in States : j = [i EXCEPT !.state = s] /\ i.state # "merged"
      BY <2>2
    <3>2. s \in AllStates
      BY DEF States, AllStates
    <3> QED BY <2>2, <3>1, <3>2 DEF ItemStates
  <2>3. CASE i.v # 0 /\ \E t \in Texts \cup {None} : j = [i EXCEPT !.text = t]
    BY <2>3 DEF ItemStates
  <2>4. CASE i.v # 0 /\ \E p \in People : j = [i EXCEPT !.asked = i.asked \cup {p}]
    <3>1. PICK p \in People : j = [i EXCEPT !.asked = i.asked \cup {p}]
      BY <2>4
    <3>2. i.asked \cup {p} \in SUBSET People
      BY DEF ItemStates
    <3> QED BY <2>4, <3>1, <3>2 DEF ItemStates
  <2>5. CASE i.v # 0 /\ \E p \in People : j = [i EXCEPT !.looked = i.looked \cup {p}]
    <3>1. PICK p \in People : j = [i EXCEPT !.looked = i.looked \cup {p}]
      BY <2>5
    <3>2. i.looked \cup {p} \in SUBSET People
      BY DEF ItemStates
    <3> QED BY <2>5, <3>1, <3>2 DEF ItemStates
  <2> QED BY <2>1, <2>2, <2>3, <2>4, <2>5 DEF Edited
<1>2. j.v + 1 \in Nat
  BY <1>1 DEF ItemStates
<1> QED BY <1>1, <1>2 DEF ItemStates

(* An edit makes a version of one item newer than all there are of it. *)
NewVersion(w, new) ==
  /\ new.v = origin[w].v + 1 /\ (origin[w].state = "merged" => new.state = "merged")
  /\ origin' = [origin EXCEPT ![w] = new]
  /\ UNCHANGED <<connector, policy, walk, sources, graph, facts, seen, late>>
  /\ hooks' \subseteq Parcels
  /\ \A h \in hooks' : h \in hooks \/ (h.item = w /\ h.payload \in ItemStates
       /\ h.payload.v = new.v /\ h.payload.state = new.state)

LEMMA OriginMoves ==
  ASSUME ItemsInv, NEW w \in Items, OriginChanges(w)
  PROVE  \E new \in ItemStates : NewVersion(w, new)
<1> USE DEF ItemsInv
<1>1. PICK j \in Edited(origin[w]) : origin' = [origin EXCEPT ![w] = [j EXCEPT !.v = @ + 1]]
  BY DEF OriginChanges
<1>2. origin[w] \in ItemStates /\ connector \in {"github", "linear", "granola"}
  BY DEF ItemTypes
<1> DEFINE new == [j EXCEPT !.v = @ + 1]
<1>3. /\ new \in ItemStates /\ new.v = origin[w].v + 1 /\ new.v \in Nat /\ new.v # 0
      /\ origin[w].state = "merged" => new.state = "merged"
  <2>1. new \in ItemStates /\ new.v = origin[w].v + 1 /\ new.state = j.state
    BY <1>2, EditsKeepMerges
  <2>2. origin[w].v = 0 => origin[w].state # "merged"
    BY DEF VersionInv
  <2>3. origin[w].state = "merged" => j.state = "merged"
    BY <1>2, <2>2, EditsKeepMerges
  <2> QED BY <1>2, <2>1, <2>3 DEF ItemStates
<1>4. origin' = [origin EXCEPT ![w] = new]
  BY <1>1
<1> HIDE DEF new
<1>5. /\ UNCHANGED <<connector, policy, walk, sources, graph, facts, seen, late>>
      /\ \A h \in hooks' : h \in hooks \/ (h.item = w /\ h.payload \in ItemStates
            /\ h.payload.v = new.v /\ h.payload.state = new.state)
      /\ hooks' \subseteq Parcels
  <2>1. origin'[w] = new
    BY <1>4 DEF ItemTypes
  <2>2. FromHook(new) \in ItemStates /\ FromHook(new).v = new.v /\ FromHook(new).state = new.state
    BY <1>3 DEF FromHook, GithubHook, LinearHook, ItemStates
  <2>3. hooks' = hooks \/ hooks' = hooks \cup {[item |-> w, payload |-> FromHook(new)]}
    BY <2>1 DEF OriginChanges
  <2>4. hooks \subseteq Parcels
    BY DEF ItemTypes
  <2> HIDE DEF ItemsInv
  <2> QED BY <2>2, <2>3, <2>4 DEF OriginChanges, Parcels
<1> QED BY <1>3, <1>4, <1>5 DEF NewVersion

LEMMA OriginStep ==
  ASSUME ItemsInv, NEW w \in Items, OriginChanges(w)
  PROVE  ItemsInv'
<1> USE DEF ItemsInv
<1>1. PICK new \in ItemStates : NewVersion(w, new)
  BY OriginMoves
<1>2. origin[w] \in ItemStates
  BY DEF ItemTypes
<1>3. /\ new.v = origin[w].v + 1 /\ new.v \in Nat /\ new.v # 0
      /\ origin[w].state = "merged" => new.state = "merged"
  BY <1>1, <1>2 DEF ItemStates, NewVersion
<1>4. origin' = [origin EXCEPT ![w] = new]
  BY <1>1 DEF NewVersion
<1>5. /\ UNCHANGED <<connector, walk, graph, facts, seen, late>>
      /\ \A h \in hooks' : h \in hooks \/ (h.item = w /\ h.payload \in ItemStates
            /\ h.payload.v = new.v /\ h.payload.state = new.state)
      /\ hooks' \subseteq Parcels
  BY <1>1 DEF NewVersion
<1>6. ItemTypes'
  BY <1>3, <1>4, <1>5 DEF ItemTypes
<1>7. ASSUME NEW u \in Items PROVE VersionInv(u)'
  <2>1. CASE u # w
    <3>1. origin'[u] = origin[u]
      BY <1>4, <2>1 DEF ItemTypes
    <3>2. \A y \in (hooks \cup walk)' : y.item = u => y \in hooks \cup walk
      BY <1>5, <2>1
    <3>3. Known(u)' \subseteq Known(u)
      BY <1>5, <3>1, <3>2 DEF Known
    <3>4. VersionInv(u)
      OBVIOUS
    <3> QED BY <3>1, <3>3, <3>4 DEF VersionInv
  <2>2. CASE u = w
    <3>1. origin'[w] = new
      BY <1>4 DEF ItemTypes
    <3>2. \A p \in Known(w)' : p \in Known(w) \/ (p.v = new.v /\ p.state = new.state)
      <4>1. \A y \in (hooks \cup walk)' : y.item = w =>
              y \in hooks \cup walk \/ (y.payload.v = new.v /\ y.payload.state = new.state)
        BY <1>5
      <4> QED BY <1>5, <3>1, <4>1 DEF Known
    <3>3. \A p \in Known(w) : p.v \in Nat
      BY KnownIsTyped
    <3>4. VersionInv(w) /\ origin[w] \in Known(w) /\ origin[w].v \in Nat
      BY <3>3 DEF Known
    <3>5. \A p \in Known(w) : p.v < new.v /\ (p.state = "merged" => new.state = "merged")
      BY <1>3, <3>3, <3>4 DEF VersionInv
    <3>6. \A p \in Known(w)' : p.v <= new.v
      BY <1>3, <3>2, <3>3, <3>5
    <3>7. ASSUME NEW p \in Known(w)', NEW q \in Known(w)', p.v <= q.v, p.state = "merged"
          PROVE  q.state = "merged"
      <4>1. CASE p \in Known(w) /\ q \in Known(w)
        BY <3>4, <3>7, <4>1 DEF VersionInv
      <4>2. CASE p \in Known(w) /\ q \notin Known(w)
        BY <3>2, <3>5, <3>7, <4>2
      <4>3. CASE p \notin Known(w) /\ q \in Known(w)
        BY <1>3, <3>2, <3>3, <3>5, <3>7, <4>3
      <4>4. CASE p \notin Known(w) /\ q \notin Known(w)
        BY <3>2, <3>7, <4>4
      <4> QED BY <4>1, <4>2, <4>3, <4>4
    <3> QED BY <1>3, <2>2, <3>1, <3>6, <3>7 DEF VersionInv
  <2> QED BY <2>1, <2>2
<1>8. GithubInv' /\ \A u \in Items : MergeInv(u)'
  BY <1>5 DEF GithubInv, MergeInv, Merges
<1> QED BY <1>6, <1>7, <1>8

(* A walk holds what the origin had when it read its page. *)
LEMMA WalkMoves ==
  ASSUME ItemsInv, Reads \/ RunCut
  PROVE  /\ UNCHANGED <<connector, policy, origin, hooks, sources, graph, facts, seen, late>>
         /\ walk' \subseteq Parcels
         /\ \A u \in Items : \A p \in Known(u)' : \E q \in Known(u) : p.v = q.v /\ p.state = q.state
<1> USE DEF ItemsInv
<1>1. UNCHANGED <<connector, policy, origin, hooks, sources, graph, facts, seen, late>>
  BY DEF Reads, RunCut
<1>2. \A y \in walk' : /\ y \in Parcels
                      /\ \/ y \in walk
                         \/ y.payload.v = origin[y.item].v /\ y.payload.state = origin[y.item].state
  <2>1. CASE RunCut
    BY <2>1 DEF RunCut
  <2>2. CASE Reads
    <3>1. \A u \in Items : /\ FromList(origin[u]) \in ItemStates /\ FromList(origin[u]).v = origin[u].v
                          /\ FromList(origin[u]).state = origin[u].state
      <4> TAKE u \in Items
      <4>1. origin[u] \in ItemStates
        BY DEF ItemTypes
      <4> QED BY <4>1 DEF FromList, ItemStates
    <3>2. \A y \in walk' : \E u \in Items : y = [item |-> u, payload |-> FromList(origin[u])]
      BY <2>2 DEF Reads
    <3> QED BY <3>1, <3>2 DEF Parcels
  <2> QED BY <2>1, <2>2
<1>3. \A u \in Items : \A p \in Known(u)' : \E q \in Known(u) : p.v = q.v /\ p.state = q.state
  <2> TAKE u \in Items
  <2>1. \A p \in Known(u)' : p \in Known(u) \/ (p.v = origin[u].v /\ p.state = origin[u].state)
    BY <1>1, <1>2 DEF Known
  <2>2. origin[u] \in Known(u)
    BY DEF Known
  <2> QED BY <2>1, <2>2
<1> QED BY <1>1, <1>2, <1>3

LEMMA WalkStep ==
  ASSUME ItemsInv, Reads \/ RunCut
  PROVE  ItemsInv'
<1>1. ItemTypes'
  BY WalkMoves DEF ItemsInv, ItemTypes
<1>2. \A u \in Items : VersionInv(u)'
  BY <1>1, WalkMoves, VersionsKept
<1>3. GithubInv' /\ \A u \in Items : MergeInv(u)'
  BY WalkMoves DEF ItemsInv, GithubInv, MergeInv, Merges
<1> QED BY <1>1, <1>2, <1>3 DEF ItemsInv

(* A version lands: what the landing of it writes, by the type of its records. *)
LEMMA LandStep ==
  ASSUME ItemsInv, NEW w \in Items, NEW i \in Known(w), Lands(w, i),
         UNCHANGED <<connector, origin, hooks>>, walk' \subseteq walk
  PROVE  ItemsInv'
<1> USE DEF ItemsInv
<1> DEFINE a == Artifact(i)
           rec == RecordsOf(a)
           known == {e \in graph : e.item = w /\ e.type = rec.type}
           written == IF known = {} THEN {[item |-> w, type |-> rec.type, state |-> rec.state, body |-> a.body]}
                      ELSE {[e EXCEPT !.state = rec.state, !.body = IF @ = None THEN a.body ELSE @] : e \in known}
           fired == {[item |-> w, what |-> f, source |-> ContentHash(a)] :
                       f \in UNION {IF connector = "github" THEN StatusChange(e.state, rec.state) ELSE {} : e \in known}}
<1>1. i \in ItemStates /\ i.v \in Nat /\ seen[w] \in Known(w) /\ seen[w].v \in Nat
  BY KnownIsTyped DEF Known
<1>2. seen' = [seen EXCEPT ![w] = i] /\ late \subseteq late' /\ (w \notin late' => ~(i.v < seen[w].v))
  BY DEF Lands
<1>3. \/ UNCHANGED <<graph, facts>>
      \/ graph' = (graph \ known) \cup written /\ facts' = facts \cup fired
  BY DEF Lands, MergedAttributes
<1>4. connector = "github" => rec.type = "work_item" /\ rec.state = i.state
  BY <1>1 DEF Artifact, GithubArtifact, RecordsOf, GithubRecords
<1> DEFINE state == rec.state
           type == rec.type
           hash == ContentHash(a)
           body == a.body
<1>5. /\ \A e \in known : e \in graph /\ e.item = w /\ e.type = type
      /\ \A e \in graph : e.item = w /\ e.type = type => e \in known
  OBVIOUS
<1>6. ASSUME NEW e \in written
      PROVE  e.item = w /\ e.type = type /\ e.state = state
               /\ e = [item |-> e.item, type |-> e.type, state |-> e.state, body |-> e.body]
  <2>1. CASE known = {}
    <3>1. e = [item |-> w, type |-> type, state |-> state, body |-> body]
      BY <2>1, Zenon
    <3> HIDE DEF type, state, body
    <3> QED BY <3>1
  <2>2. CASE known # {}
    <3> HIDE DEF a, rec, known
    <3>1. PICK k \in known : e = [k EXCEPT !.state = rec.state, !.body = IF @ = None THEN a.body ELSE @]
      BY <2>2
    <3>2. k = [item |-> w, type |-> type, state |-> k.state, body |-> k.body]
      BY <1>5, <3>1 DEF GithubInv
    <3> DEFINE b == IF k.body = None THEN a.body ELSE k.body
               moved == [k EXCEPT !.state = state]
    <3>3. e = [moved EXCEPT !.body = b]
      BY <3>1, Zenon
    <3> HIDE DEF written, type, state, b
    <3>4. moved = [item |-> w, type |-> type, state |-> state, body |-> k.body]
      BY <3>2
    <3> HIDE DEF moved
    <3>5. e = [item |-> w, type |-> type, state |-> state, body |-> b]
      BY <3>3, <3>4
    <3> QED BY <3>5
  <2> QED BY <2>1, <2>2
<1>7. ASSUME NEW f \in fired
      PROVE  /\ f.item = w /\ f.source = hash /\ f = [item |-> f.item, what |-> f.what, source |-> f.source]
             /\ connector = "github" /\ \E e \in known : f.what \in StatusChange(e.state, state)
  <2> HIDE DEF a, rec, known
  <2>1. PICK x \in UNION {IF connector = "github" THEN StatusChange(e.state, rec.state) ELSE {} : e \in known} :
          f = [item |-> w, what |-> x, source |-> ContentHash(a)]
    OBVIOUS
  <2>2. PICK e \in known : x \in (IF connector = "github" THEN StatusChange(e.state, rec.state) ELSE {})
    BY <2>1
  <2> QED BY <2>1, <2>2
<1>8. ASSUME NEW f \in fired, f.what = "merged"
      PROVE  state = "merged" /\ \E e \in known : e.state # "merged"
  BY <1>7, <1>8 DEF StatusChange
<1> HIDE DEF a, rec, known, written, fired, state, type, hash, body
<1>9. ItemTypes'
  BY <1>1, <1>2 DEF ItemTypes
<1>10. \A u \in Items : VersionInv(u)'
  <2>1. \A u \in Items : Known(u)' \subseteq Known(u)
    <3> TAKE u \in Items
    <3>1. seen'[u] = seen[u] \/ (u = w /\ seen'[u] = i)
      BY <1>2 DEF ItemTypes
    <3>2. hooks' \cup walk' \subseteq hooks \cup walk
      OBVIOUS
    <3> QED BY <3>1, <3>2 DEF Known
  <2> QED BY <1>9, <2>1, VersionsKept
<1>11. GithubInv'
  <2>1. \A f \in facts' : f.what = "merged" => connector' = "github"
    BY <1>3, <1>7 DEF GithubInv
  <2>2. \A e \in graph' : e \in graph \/ e \in written
    BY <1>3
  <2>3. connector' = "github" => \A e \in graph' : e.type = "work_item"
    BY <1>4, <1>6, <2>2 DEF GithubInv, type
  <2>4. \A e \in graph' : e = [item |-> e.item, type |-> e.type, state |-> e.state, body |-> e.body]
    BY <1>6, <2>2 DEF GithubInv
  <2> QED BY <2>1, <2>3, <2>4 DEF GithubInv
<1>12. ASSUME NEW u \in Items, u # w PROVE MergeInv(u)'
  <2>1. Merges(u)' = Merges(u)
    BY <1>3, <1>7, <1>12 DEF Merges
  <2>2. \A e \in graph' : e.item = u => e \in graph
    BY <1>3, <1>6, <1>12
  <2>3. seen'[u] = seen[u]
    BY <1>2, <1>12 DEF ItemTypes
  <2> QED BY <1>2, <2>1, <2>2, <2>3 DEF MergeInv
<1>13. ASSUME w \notin late'
       PROVE  /\ \A f, g \in Merges(w)' : f = g
              /\ Merges(w)' # {} => seen'[w].state = "merged" /\ \A e \in graph' : e.item = w => e.state = "merged"
  <2>1. MergeInv(w) /\ w \notin late /\ seen'[w] = i
    BY <1>2, <1>13 DEF ItemTypes
  <2>2. seen[w].state = "merged" => i.state = "merged"
    <3>1. seen[w].v <= i.v
      BY <1>1, <1>2, <1>13
    <3>2. VersionInv(w)
      OBVIOUS
    <3> QED BY <1>1, <3>1, <3>2 DEF VersionInv
  <2>3. CASE UNCHANGED <<graph, facts>>
    BY <2>1, <2>2, <2>3 DEF MergeInv, Merges
  <2>4. CASE graph' = (graph \ known) \cup written /\ facts' = facts \cup fired
    <3>1. CASE Merges(w) # {}
      <4>1. connector = "github" /\ seen[w].state = "merged" /\ \A e \in graph : e.item = w => e.state = "merged"
        BY <2>1, <3>1 DEF MergeInv, Merges, GithubInv
      <4>2. i.state = "merged" /\ state = "merged"
        BY <1>4, <2>2, <4>1 DEF state
      <4>3. \A f \in fired : f.what # "merged"
        BY <1>5, <1>8, <4>1
      <4>4. Merges(w)' = Merges(w)
        BY <2>4, <4>3 DEF Merges
      <4>5. \A e \in graph' : e.item = w => e.state = "merged"
        BY <1>6, <2>4, <4>1, <4>2
      <4> QED BY <2>1, <4>2, <4>4, <4>5 DEF MergeInv
    <3>2. CASE Merges(w) = {}
      <4>1. \A f \in Merges(w)' : f \in fired /\ f.what = "merged"
        BY <2>4, <3>2 DEF Merges
      <4>2. \A f, g \in Merges(w)' : f = g
        BY <1>7, <4>1
      <4>3. ASSUME Merges(w)' # {}
            PROVE  seen'[w].state = "merged" /\ \A e \in graph' : e.item = w => e.state = "merged"
        <5>1. connector = "github" /\ state = "merged"
          BY <1>7, <1>8, <4>1, <4>3
        <5>2. i.state = "merged" /\ type = "work_item"
          BY <1>4, <5>1 DEF state, type
        <5>3. \A e \in graph' : e.item = w => e \in written
          BY <1>5, <2>4, <5>1, <5>2 DEF GithubInv
        <5> QED BY <1>6, <2>1, <5>1, <5>2, <5>3
      <4> QED BY <4>2, <4>3
    <3> QED BY <3>1, <3>2
  <2> QED BY <1>3, <2>3, <2>4
<1> QED BY <1>9, <1>10, <1>11, <1>12, <1>13 DEF MergeInv

(* The inductive invariant of WorkItems: no version of an item that is under way
   anywhere is merged and older than one that is not, and once a merge is
   recorded of an item none of whose deliveries was overtaken, its entities say
   merged too (detectStatusChange compares with them). *)
THEOREM ItemsInvariant == ItemsSpec => []ItemsInv
<1>1. ItemsInit => ItemsInv
  <2> SUFFICES ASSUME ItemsInit PROVE ItemsInv
    OBVIOUS
  <2>1. NoItem \in ItemStates
    BY DEF NoItem, ItemStates, AllStates
  <2>2. ItemTypes /\ GithubInv
    BY <2>1, ItemsAssumption DEF ItemsInit, ItemTypes, GithubInv
  <2>3. \A w \in Items : \A p \in Known(w) : p = NoItem
    BY DEF ItemsInit, Known
  <2>4. NoItem.v = 0 /\ NoItem.state # "merged"
    BY DEF NoItem
  <2>5. \A w \in Items : VersionInv(w) /\ MergeInv(w)
    BY <2>3, <2>4 DEF ItemsInit, VersionInv, MergeInv, Merges
  <2> QED BY <2>2, <2>5 DEF ItemsInv
<1>2. ItemsInv /\ [ItemsNext]_itemVars => ItemsInv'
  <2> SUFFICES ASSUME ItemsInv, [ItemsNext]_itemVars PROVE ItemsInv'
    OBVIOUS
  <2>1. CASE \E w \in Items : OriginChanges(w)
    BY <2>1, OriginStep
  <2>2. CASE Reads \/ RunCut
    BY <2>2, WalkStep
  <2>3. CASE SyncLands
    <3>1. PICK p \in walk : Lands(p.item, p.payload) /\ walk' = walk \ {p} /\ UNCHANGED <<connector, origin, hooks>>
      BY <2>3 DEF SyncLands
    <3>2. p.item \in Items /\ p.payload \in Known(p.item)
      BY <3>1 DEF ItemsInv, ItemTypes, Parcels, Known
    <3> QED BY <3>1, <3>2, LandStep
  <2>4. CASE HookLands
    <3>1. PICK h \in hooks : Lands(h.item, h.payload) /\ UNCHANGED <<connector, origin, hooks, walk>>
      BY <2>4 DEF HookLands
    <3>2. h.item \in Items /\ h.payload \in Known(h.item)
      BY <3>1 DEF ItemsInv, ItemTypes, Parcels, Known
    <3> QED BY <3>1, <3>2, LandStep
  <2>5. CASE UNCHANGED itemVars
    BY <2>5 DEF itemVars, ItemsInv, ItemTypes, GithubInv, VersionInv, MergeInv, Merges, Known
  <2> QED BY <2>1, <2>2, <2>3, <2>4, <2>5 DEF ItemsNext
<1> QED BY <1>1, <1>2, PTL DEF ItemsSpec

(* A merge is recorded once, by whichever of sync and webhook its versions come,
   as long as none of the item's deliveries was overtaken: OneMergeFact. *)
THEOREM MergeIsRecordedOnce == ItemsSpec => []OneMergeFact
<1>1. ItemsInv => OneMergeFact
  <2> SUFFICES ASSUME ItemsInv, NEW w \in Items \ late PROVE Cardinality(Merges(w)) <= 1
    BY DEF OneMergeFact, Merges
  <2>1. \A f, g \in Merges(w) : f = g
    BY DEF ItemsInv, MergeInv
  <2>2. CASE Merges(w) = {}
    BY <2>2, FS_EmptySet
  <2>3. CASE Merges(w) # {}
    <3>1. PICK f \in Merges(w) : TRUE
      BY <2>3
    <3>2. Merges(w) = {f}
      BY <2>1, <3>1
    <3> QED BY <3>2, FS_Singleton
  <2> QED BY <2>2, <2>3
<1> QED BY <1>1, ItemsInvariant, PTL

-----------------------------------------------------------------------------
(* Rows and the versions they were made of.  Every row is an artifact of the     *)
(* connector under the run's policy; what it says of state and version agrees    *)
(* with every version under way.                                                 *)

Rows(w) == {r \in sources : r.item = w}
RowInv ==
  \A r \in sources :
    /\ r.item \in Items /\ r.hash = ContentHash(r.artifact)
    /\ \E i \in ItemStates : r.artifact = Artifact(i)

TextlessCurrent(w) == w \notin late /\ Retained(seen[w]) = None => Current(w)

(* Of an item none of whose deliveries was overtaken, no row is newer than the last
   of them, and an entity has the state of a newest row. *)
RowsOf(w) ==
  /\ \A p, q \in Known(w) : p.v = q.v => p.state = q.state
  /\ \A r \in Rows(w) : /\ r.artifact.raw.v \in Nat /\ r.artifact.raw.v <= origin[w].v
                       /\ \A p \in Known(w) : p.v = r.artifact.raw.v => p.state = r.artifact.raw.state
  /\ w \notin late =>
       /\ \A r \in Rows(w) : r.artifact.raw.v <= seen[w].v
       /\ Rows(w) # {} => \E e \in graph, r \in Rows(w) :
            /\ e.item = w /\ e.state = r.artifact.raw.state
            /\ \A q \in Rows(w) : q.artifact.raw.v <= r.artifact.raw.v
  /\ TextlessCurrent(w)

RowsInv == RowInv /\ (connector # "granola" => \A w \in Items : RowsOf(w))

LEMMA ArtifactIs ==
  ASSUME NEW i \in ItemStates, connector \in {"github", "linear"}
  PROVE  /\ Artifact(i).body = Retained(i)
         /\ Artifact(i).raw.v = i.v /\ Artifact(i).raw.state = i.state
         /\ RecordsOf(Artifact(i)).state = i.state /\ RecordsOf(Artifact(i)).type = "work_item"
<1>1. CASE connector = "github"
  <2>1. Artifact(i) = GithubArtifact(i) /\ RecordsOf(Artifact(i)) = GithubRecords(GithubArtifact(i))
    BY <1>1 DEF Artifact, RecordsOf
  <2>2. GithubArtifact(i).raw.v = i.v /\ GithubArtifact(i).raw.state = i.state
        /\ GithubArtifact(i).body = Retained(i)
    BY DEF GithubArtifact
  <2> QED BY <2>1, <2>2 DEF GithubRecords
<1>2. CASE connector = "linear"
  <2>1. Artifact(i) = LinearArtifact(i) /\ RecordsOf(Artifact(i)) = LinearRecords(LinearArtifact(i))
    BY <1>2 DEF Artifact, RecordsOf
  <2>2. LinearArtifact(i).raw.v = i.v /\ LinearArtifact(i).raw.state = i.state
        /\ LinearArtifact(i).body = Retained(i)
    BY DEF LinearArtifact
  <2> QED BY <2>1, <2>2 DEF LinearRecords
<1> QED BY <1>1, <1>2

(* Two artifacts with no text and one hash agree on state and version. *)
LEMMA SameHash ==
  ASSUME NEW a, NEW b, a.body = None, ContentHash(a) = ContentHash(b)
  PROVE  a.raw = b.raw
<1>1. ContentHash(a).body = None /\ ContentHash(a).raw = a.raw
  BY DEF ContentHash
<1>2. b.body = None
  BY <1>1 DEF ContentHash
<1> QED BY <1>1, <1>2 DEF ContentHash

LEMMA RowsOfOthers ==
  ASSUME ItemsInv, ItemsInv', NEW u \in Items, RowsOf(u),
         connector # "granola", UNCHANGED <<connector, policy>>,
         \A p \in Known(u)' : \E q \in Known(u) : p.v = q.v /\ p.state = q.state,
         origin'[u] = origin[u], seen'[u] = seen[u], late \subseteq late',
         Rows(u)' = Rows(u), {e \in graph' : e.item = u} = {e \in graph : e.item = u}
  PROVE  RowsOf(u)'
<1>1. \A p \in Known(u)', q \in Known(u)' : p.v = q.v => p.state = q.state
  <2> SUFFICES ASSUME NEW p \in Known(u)', NEW q \in Known(u)', p.v = q.v PROVE p.state = q.state
    OBVIOUS
  <2>1. PICK x \in Known(u) : p.v = x.v /\ p.state = x.state
    OBVIOUS
  <2>2. PICK y \in Known(u) : q.v = y.v /\ q.state = y.state
    OBVIOUS
  <2>3. x.v = y.v => x.state = y.state
    BY DEF RowsOf
  <2> QED BY <2>1, <2>2, <2>3
<1>2. \A r \in Rows(u)' :
        /\ r.artifact.raw.v \in Nat /\ r.artifact.raw.v <= origin'[u].v
        /\ \A p \in Known(u)' : p.v = r.artifact.raw.v => p.state = r.artifact.raw.state
  BY DEF RowsOf
<1>3. u \notin late' =>
       /\ \A r \in Rows(u)' : r.artifact.raw.v <= seen'[u].v
       /\ Rows(u)' # {} => \E e \in graph', r \in Rows(u)' :
            /\ e.item = u /\ e.state = r.artifact.raw.state
            /\ \A q \in Rows(u)' : q.artifact.raw.v <= r.artifact.raw.v
  <2> SUFFICES ASSUME u \notin late, Rows(u) # {}
               PROVE \E e \in graph', r \in Rows(u) :
                  /\ e.item = u /\ e.state = r.artifact.raw.state
                  /\ \A q \in Rows(u) : q.artifact.raw.v <= r.artifact.raw.v
    BY DEF RowsOf
  <2>1. PICK e \in graph, r \in Rows(u) :
            /\ e.item = u /\ e.state = r.artifact.raw.state
            /\ \A q \in Rows(u) : q.artifact.raw.v <= r.artifact.raw.v
    BY DEF RowsOf
  <2>2. e \in graph'
    BY <2>1
  <2> QED BY <2>1, <2>2
<1>4. TextlessCurrent(u)'
  <2>1. TextlessCurrent(u)
    BY DEF RowsOf
  <2>2. Current(u) => Current(u)'
    <3> SUFFICES ASSUME seen[u].v > 0, NEW e \in graph, e.item = u, e.state = seen[u].state
                 PROVE  \E x \in graph' : x.item = u /\ x.state = seen[u].state
      BY DEF Current
    <3> QED OBVIOUS
  <2> QED BY <2>1, <2>2 DEF TextlessCurrent, Retained
<1> QED BY <1>1, <1>2, <1>3, <1>4 DEF RowsOf

(* A version lands: nothing happens to a duplicate, which agrees with a row that is
   there; else the item's entity takes its state. *)
LEMMA RowsLand ==
  ASSUME ItemsInv, ItemsInv', RowsInv, NEW w \in Items, NEW i \in Known(w), Lands(w, i),
         UNCHANGED <<connector, policy, origin, hooks>>, walk' \subseteq walk
  PROVE  RowsInv'
<1> DEFINE a == Artifact(i)
           rec == RecordsOf(a)
           row == [item |-> w, hash |-> ContentHash(a), artifact |-> a, acl |-> Acl(access)]
           known == {e \in graph : e.item = w /\ e.type = rec.type}
           written == IF known = {} THEN {[item |-> w, type |-> rec.type, state |-> rec.state, body |-> a.body]}
                      ELSE {[e EXCEPT !.state = rec.state, !.body = IF @ = None THEN a.body ELSE @] : e \in known}
<1>1. i \in ItemStates /\ i.v \in Nat /\ seen[w] \in Known(w) /\ seen[w].v \in Nat
  BY KnownIsTyped DEF Known, ItemsInv
<1>2. /\ seen' = [seen EXCEPT ![w] = i] /\ late \subseteq late' /\ (w \notin late' => ~(i.v < seen[w].v))
      /\ late' \subseteq late \cup {w}
  BY DEF Lands
<1>3. \/ (\E r \in sources : r.item = w /\ r.hash = ContentHash(a)) /\ UNCHANGED <<sources, graph>>
      \/ sources' = sources \cup {row} /\ graph' = (graph \ known) \cup written
  BY DEF Lands, MergedAttributes
<1>4. row.item = w /\ row.hash = ContentHash(row.artifact) /\ row.artifact = Artifact(i)
  OBVIOUS
<1>5. known \subseteq graph /\ \A e \in known : e.item = w
  OBVIOUS
<1>6. /\ \A e \in written : e.item = w
      /\ \E e \in written : e.state = rec.state
  <2>1. CASE known = {}
    <3>1. written = {[item |-> w, type |-> rec.type, state |-> rec.state, body |-> a.body]}
      BY <2>1
    <3> DEFINE e == [item |-> w, type |-> rec.type, state |-> rec.state, body |-> a.body]
    <3>2. e.item = w /\ e.state = rec.state /\ written = {e}
      BY <3>1
    <3> HIDE DEF e, written
    <3> QED BY <3>2
  <2>2. CASE known # {}
    <3> HIDE DEF a, rec, known
    <3>1. ASSUME NEW k \in known
          PROVE  [k EXCEPT !.state = rec.state, !.body = IF @ = None THEN a.body ELSE @].item = w
                 /\ [k EXCEPT !.state = rec.state, !.body = IF @ = None THEN a.body ELSE @].state = rec.state
      <4>1. k = [item |-> k.item, type |-> k.type, state |-> k.state, body |-> k.body] /\ k.item = w
        BY <1>5 DEF ItemsInv, GithubInv
      <4> DEFINE moved == [k EXCEPT !.state = rec.state]
                 b == IF k.body = None THEN a.body ELSE k.body
      <4>2. moved = [item |-> w, type |-> k.type, state |-> rec.state, body |-> k.body]
        BY <4>1
      <4>3. [k EXCEPT !.state = rec.state, !.body = IF @ = None THEN a.body ELSE @] = [moved EXCEPT !.body = b]
        BY Zenon
      <4> HIDE DEF moved, b
      <4> QED BY <4>2, <4>3
    <3>2. \A e \in written : \E k \in known :
            e = [k EXCEPT !.state = rec.state, !.body = IF @ = None THEN a.body ELSE @]
      BY <2>2
    <3>3. PICK k \in known : TRUE
      BY <2>2
    <3>4. [k EXCEPT !.state = rec.state, !.body = IF @ = None THEN a.body ELSE @] \in written
      BY <2>2, <3>3
    <3> QED BY <3>1, <3>2, <3>3, <3>4
  <2> QED BY <2>1, <2>2
<1> HIDE DEF a, rec, row, known, written
<1>7. RowInv'
  <2>1. \A r : ContentHash(r)' = ContentHash(r)
    BY DEF ContentHash
  <2>2. \A x \in ItemStates : Artifact(x)' = Artifact(x)
    BY DEF Artifact, GithubArtifact, LinearArtifact, GranolaArtifact, Retained, DecisionRefs
  <2>3. \A r \in sources' : r \in sources \/ r = row
    BY <1>3
  <2> QED BY <1>1, <1>4, <2>1, <2>2, <2>3 DEF RowInv, RowsInv
<1> SUFFICES ASSUME connector # "granola" PROVE \A u \in Items : RowsOf(u)'
  BY <1>7 DEF RowsInv
<1>8. \A u \in Items : Known(u)' \subseteq Known(u)
  <2> TAKE u \in Items
  <2>1. seen'[u] = seen[u] \/ (u = w /\ seen'[u] = i)
    BY <1>2 DEF ItemTypes, ItemsInv
  <2> QED BY <2>1 DEF Known
<1>9. ASSUME NEW u \in Items, u # w PROVE RowsOf(u)'
  <2>1. Rows(u)' = Rows(u)
    BY <1>3, <1>4, <1>9 DEF Rows
  <2>2. {e \in graph' : e.item = u} = {e \in graph : e.item = u}
    BY <1>3, <1>5, <1>6, <1>9
  <2>3. seen'[u] = seen[u] /\ origin'[u] = origin[u] /\ RowsOf(u)
    BY <1>2, <1>9 DEF ItemTypes, ItemsInv, RowsInv
  <2> QED BY <1>2, <1>8, <2>1, <2>2, <2>3, RowsOfOthers
<1>10. RowsOf(w) /\ seen'[w] = i
  BY <1>2 DEF RowsInv, ItemTypes, ItemsInv
<1>11. /\ Artifact(i).body = Retained(i) /\ Artifact(i).raw.v = i.v /\ Artifact(i).raw.state = i.state
       /\ rec.state = i.state
  <2>1. connector \in {"github", "linear"}
    BY DEF ItemsInv, ItemTypes
  <2> QED BY <1>1, <2>1, ArtifactIs DEF rec, a
<1>12. i.v <= origin[w].v
  BY DEF ItemsInv, VersionInv
<1>13. \A p \in Known(w)', q \in Known(w)' : p.v = q.v => p.state = q.state
  BY <1>8, <1>10 DEF RowsOf
<1>14. \A r \in Rows(w)' : r \in Rows(w) \/ r = row
  BY <1>3 DEF Rows
<1>15. \A r \in Rows(w)' :
         /\ r.artifact.raw.v \in Nat /\ r.artifact.raw.v <= origin'[w].v
         /\ \A p \in Known(w)' : p.v = r.artifact.raw.v => p.state = r.artifact.raw.state
  <2>1. \A p \in Known(w)' : p.v = i.v => p.state = i.state
    BY <1>8, <1>10 DEF RowsOf
  <2>2. ASSUME NEW r \in Rows(w)
        PROVE /\ r.artifact.raw.v \in Nat /\ r.artifact.raw.v <= origin'[w].v
              /\ \A p \in Known(w)' : p.v = r.artifact.raw.v => p.state = r.artifact.raw.state
    BY <1>8, <1>10 DEF RowsOf
  <2> QED BY <1>1, <1>4, <1>11, <1>12, <1>14, <2>1, <2>2
<1>16. ASSUME w \notin late'
       PROVE  /\ \A r \in Rows(w)' : r.artifact.raw.v <= i.v
              /\ Rows(w)' # {} => \E e \in graph', r \in Rows(w)' :
                   /\ e.item = w /\ e.state = r.artifact.raw.state
                   /\ \A q \in Rows(w)' : q.artifact.raw.v <= r.artifact.raw.v
              /\ Retained(i) = None => \E e \in graph' : e.item = w /\ e.state = i.state
  <2>1. w \notin late /\ seen[w].v <= i.v
    BY <1>1, <1>2, <1>16
  <2>2. \A r \in Rows(w) : r.artifact.raw.v \in Nat /\ r.artifact.raw.v <= i.v
    <3>1. \A r \in Rows(w) : r.artifact.raw.v \in Nat /\ r.artifact.raw.v <= seen[w].v
      BY <1>10, <2>1 DEF RowsOf
    <3> QED BY <1>1, <2>1, <3>1
  <2>3. \A r \in Rows(w)' : r.artifact.raw.v <= i.v
    BY <1>1, <1>4, <1>11, <1>14, <2>2
  <2>4. CASE sources' = sources \cup {row} /\ graph' = (graph \ known) \cup written
    <3>1. PICK e \in written : e.state = rec.state
      BY <1>6
    <3>2. e \in graph' /\ e.item = w /\ e.state = i.state
      BY <1>6, <1>11, <2>4, <3>1
    <3>3. row \in Rows(w)' /\ row.artifact.raw.state = i.state /\ row.artifact.raw.v = i.v
      BY <1>4, <1>11, <2>4 DEF Rows
    <3>4. \E x \in graph', r \in Rows(w)' :
            /\ x.item = w /\ x.state = r.artifact.raw.state
            /\ \A q \in Rows(w)' : q.artifact.raw.v <= r.artifact.raw.v
      BY <2>3, <3>2, <3>3
    <3> QED BY <2>3, <3>2, <3>4
  <2>5. CASE (\E r \in sources : r.item = w /\ r.hash = ContentHash(a)) /\ UNCHANGED <<sources, graph>>
    <3>1. PICK same \in sources : same.item = w /\ same.hash = ContentHash(a)
      BY <2>5
    <3>2. same \in Rows(w) /\ Rows(w)' = Rows(w)
      BY <2>5, <3>1 DEF Rows
    <3>3. PICK e \in graph, r \in Rows(w) :
            /\ e.item = w /\ e.state = r.artifact.raw.state
            /\ \A q \in Rows(w) : q.artifact.raw.v <= r.artifact.raw.v
      BY <1>10, <2>1, <3>2 DEF RowsOf
    <3>4. ASSUME Retained(i) = None PROVE e.state = i.state
      <4>1. a.body = None
        BY <1>11, <3>4 DEF a
      <4>2. ContentHash(a) = ContentHash(same.artifact)
        BY <3>1 DEF RowsInv, RowInv
      <4>3. same.artifact.raw = Artifact(i).raw
        BY <4>1, <4>2, SameHash DEF a
      <4>4. i.v <= r.artifact.raw.v
        BY <1>11, <3>2, <3>3, <4>3
      <4>5. r.artifact.raw.v = i.v
        BY <1>1, <2>2, <4>4
      <4>6. i.state = r.artifact.raw.state
        BY <1>10, <4>5 DEF RowsOf
      <4> QED BY <3>3, <4>6
    <3>5. \E x \in graph', y \in Rows(w)' :
            /\ x.item = w /\ x.state = y.artifact.raw.state
            /\ \A q \in Rows(w)' : q.artifact.raw.v <= y.artifact.raw.v
      BY <2>5, <3>2, <3>3
    <3> QED BY <2>3, <2>5, <3>3, <3>4, <3>5
  <2> QED BY <1>3, <2>4, <2>5
<1>17. TextlessCurrent(w)'
  <2>1. Retained(i)' = Retained(i)
    BY DEF Retained
  <2> QED BY <1>10, <1>16, <2>1 DEF TextlessCurrent, Current
<1>18. RowsOf(w)'
  BY <1>10, <1>13, <1>15, <1>16, <1>17 DEF RowsOf
<1> QED BY <1>9, <1>18

LEMMA RowsEdited ==
  ASSUME ItemsInv, ItemsInv', RowsInv, NEW w \in Items, OriginChanges(w)
  PROVE  RowsInv'
<1>1. PICK new \in ItemStates : NewVersion(w, new)
  BY OriginMoves
<1>2. /\ new.v = origin[w].v + 1 /\ origin' = [origin EXCEPT ![w] = new]
      /\ UNCHANGED <<connector, policy, walk, sources, graph, facts, seen, late>>
      /\ \A h \in hooks' : h \in hooks \/ (h.item = w /\ h.payload \in ItemStates
            /\ h.payload.v = new.v /\ h.payload.state = new.state)
  BY <1>1 DEF NewVersion
<1>3. RowInv'
  <2>1. \A r : ContentHash(r)' = ContentHash(r)
    BY DEF ContentHash
  <2>2. \A x \in ItemStates : Artifact(x)' = Artifact(x)
    BY <1>2 DEF Artifact, GithubArtifact, LinearArtifact, GranolaArtifact, Retained, DecisionRefs
  <2> QED BY <1>2, <2>1, <2>2 DEF RowsInv, RowInv
<1> SUFFICES ASSUME connector # "granola" PROVE \A u \in Items : RowsOf(u)'
  BY <1>2, <1>3 DEF RowsInv
<1>4. ASSUME NEW u \in Items, u # w PROVE RowsOf(u)'
  <2>1. origin'[u] = origin[u]
    BY <1>2, <1>4 DEF ItemsInv, ItemTypes
  <2>2. \A y \in (hooks \cup walk)' : y.item = u => y \in hooks \cup walk
    BY <1>2, <1>4
  <2>3. \A p \in Known(u)' : p \in Known(u)
    BY <1>2, <2>1, <2>2 DEF Known
  <2>4. Rows(u)' = Rows(u) /\ {e \in graph' : e.item = u} = {e \in graph : e.item = u} /\ RowsOf(u)
    BY <1>2 DEF Rows, RowsInv
  <2> QED BY <1>2, <2>1, <2>3, <2>4, RowsOfOthers
<1>5. RowsOf(w)'
  <2>1. origin'[w] = new /\ RowsOf(w) /\ origin[w] \in ItemStates /\ origin[w].v \in Nat /\ new.v \in Nat
    BY <1>2 DEF ItemsInv, ItemTypes, RowsInv, ItemStates
  <2>2. \A p \in Known(w)' : p \in Known(w) \/ (p.v = new.v /\ p.state = new.state)
    <3>1. \A y \in (hooks \cup walk)' : y.item = w =>
            y \in hooks \cup walk \/ (y.payload.v = new.v /\ y.payload.state = new.state)
      BY <1>2
    <3> QED BY <1>2, <2>1, <3>1 DEF Known
  <2>3. \A p \in Known(w) : p.v \in Nat /\ p.v <= origin[w].v
    BY KnownIsTyped DEF ItemsInv, VersionInv
  <2>4. \A p \in Known(w)', q \in Known(w)' : p.v = q.v => p.state = q.state
    <3> SUFFICES ASSUME NEW p \in Known(w)', NEW q \in Known(w)', p.v = q.v PROVE p.state = q.state
      OBVIOUS
    <3>1. CASE p \in Known(w) /\ q \in Known(w)
      BY <2>1, <3>1 DEF RowsOf
    <3>2. CASE p \notin Known(w) /\ q \notin Known(w)
      BY <2>2, <3>2
    <3>3. ASSUME NEW x \in Known(w) PROVE x.v # new.v
      BY <1>2, <2>1, <2>3
    <3> QED BY <2>2, <3>1, <3>2, <3>3
  <2>5. ASSUME NEW r \in Rows(w)
        PROVE  /\ r.artifact.raw.v \in Nat /\ r.artifact.raw.v <= new.v
               /\ \A p \in Known(w)' : p.v = r.artifact.raw.v => p.state = r.artifact.raw.state
    <3>1. /\ r.artifact.raw.v \in Nat /\ r.artifact.raw.v <= origin[w].v
          /\ \A p \in Known(w) : p.v = r.artifact.raw.v => p.state = r.artifact.raw.state
      BY <2>1 DEF RowsOf
    <3>2. r.artifact.raw.v <= new.v /\ r.artifact.raw.v # new.v
      BY <1>2, <2>1, <3>1
    <3> QED BY <2>2, <3>1, <3>2
  <2>6. Rows(w)' = Rows(w)
    BY <1>2 DEF Rows
  <2>7. TextlessCurrent(w)'
    BY <1>2, <2>1 DEF RowsOf, TextlessCurrent, Current, Retained
  <2>8. UNCHANGED <<seen, late, graph>>
    BY <1>2
  <2> QED BY <2>1, <2>4, <2>5, <2>6, <2>7, <2>8 DEF RowsOf
<1> QED BY <1>4, <1>5

LEMMA RowsWalked ==
  ASSUME ItemsInv, ItemsInv', RowsInv, Reads \/ RunCut
  PROVE  RowsInv'
<1>1. /\ UNCHANGED <<connector, policy, origin, hooks, sources, graph, facts, seen, late>>
      /\ \A u \in Items : \A p \in Known(u)' : \E q \in Known(u) : p.v = q.v /\ p.state = q.state
  BY WalkMoves
<1>2. RowInv'
  <2>1. \A r : ContentHash(r)' = ContentHash(r)
    BY DEF ContentHash
  <2>2. \A x \in ItemStates : Artifact(x)' = Artifact(x)
    BY <1>1 DEF Artifact, GithubArtifact, LinearArtifact, GranolaArtifact, Retained, DecisionRefs
  <2> QED BY <1>1, <2>1, <2>2 DEF RowsInv, RowInv
<1>3. ASSUME connector # "granola", NEW u \in Items PROVE RowsOf(u)'
  <2>1. Rows(u)' = Rows(u) /\ {e \in graph' : e.item = u} = {e \in graph : e.item = u} /\ RowsOf(u)
    BY <1>1, <1>3 DEF Rows, RowsInv
  <2>2. origin'[u] = origin[u] /\ seen'[u] = seen[u] /\ late \subseteq late' /\ UNCHANGED <<connector, policy>>
    BY <1>1
  <2> QED BY <1>1, <1>3, <2>1, <2>2, RowsOfOthers
<1> QED BY <1>1, <1>2, <1>3 DEF RowsInv

LEMMA RowsKeep ==
  ASSUME ItemsInv, ItemsInv', RowsInv, [ItemsNext]_itemVars
  PROVE  RowsInv'
<1>1. CASE \E w \in Items : OriginChanges(w)
  BY <1>1, RowsEdited
<1>2. CASE Reads \/ RunCut
  BY <1>2, RowsWalked
<1>3. CASE SyncLands
  <2>1. PICK p \in walk : Lands(p.item, p.payload) /\ walk' = walk \ {p} /\ UNCHANGED <<connector, policy, origin, hooks>>
    BY <1>3 DEF SyncLands
  <2>2. p.item \in Items /\ p.payload \in Known(p.item)
    BY <2>1 DEF ItemsInv, ItemTypes, Parcels, Known
  <2> QED BY <2>1, <2>2, RowsLand
<1>4. CASE HookLands
  <2>1. PICK h \in hooks : Lands(h.item, h.payload) /\ UNCHANGED <<connector, policy, origin, hooks, walk>>
    BY <1>4 DEF HookLands
  <2>2. h.item \in Items /\ h.payload \in Known(h.item)
    BY <2>1 DEF ItemsInv, ItemTypes, Parcels, Known
  <2> QED BY <2>1, <2>2, RowsLand
<1>5. CASE UNCHANGED itemVars
  <2>1. UNCHANGED <<connector, policy, origin, hooks, walk, sources, graph, seen, late>>
    BY <1>5 DEF itemVars
  <2>2. RowInv'
    <3>1. \A r : ContentHash(r)' = ContentHash(r)
      BY DEF ContentHash
    <3>2. \A x \in ItemStates : Artifact(x)' = Artifact(x)
      BY <2>1 DEF Artifact, GithubArtifact, LinearArtifact, GranolaArtifact, Retained, DecisionRefs
    <3> QED BY <2>1, <3>1, <3>2 DEF RowsInv, RowInv
  <2>3. \A u \in Items : RowsOf(u) => RowsOf(u)'
    BY <2>1 DEF RowsOf, Rows, Known, TextlessCurrent, Current, Retained
  <2> QED BY <2>1, <2>2, <2>3 DEF RowsInv
<1> QED BY <1>1, <1>2, <1>3, <1>4, <1>5 DEF ItemsNext

LEMMA RowsInvariant == ItemsSpec => [](ItemsInv /\ RowsInv)
<1>1. ItemsInit => RowsInv
  <2> SUFFICES ASSUME ItemsInit PROVE RowsInv
    OBVIOUS
  <2>1. \A w \in Items : \A p \in Known(w) : p = NoItem
    BY DEF ItemsInit, Known
  <2>2. \A w \in Items : Rows(w) = {} /\ seen[w].v = 0
    BY DEF ItemsInit, Rows, NoItem
  <2>3. \A w \in Items : RowsOf(w)
    BY <2>1, <2>2 DEF RowsOf, TextlessCurrent, Current
  <2> QED BY <2>3 DEF RowsInv, RowInv, ItemsInit
<1>2. RowsInv /\ ItemsInv /\ ItemsInv' /\ [ItemsNext]_itemVars => RowsInv'
  BY RowsKeep
<1> QED BY <1>1, <1>2, ItemsInvariant, PTL DEF ItemsSpec

(* toArtifact and landSource of GitHub's and Linear's items: where there is no text
   to hash, what is known of the item is hashed, so that a delivery that came in
   order is never taken for one that was there before it changed.  The item shows
   the state of its last delivery, for any items, texts, people and edits, by sync
   or webhook, repeated or cut. *)
THEOREM TextlessItemsFollow == ItemsSpec => []TextlessItemsCurrent
<1>1. ItemsInv /\ RowsInv => TextlessItemsCurrent
  BY DEF TextlessItemsCurrent, RowsInv, RowsOf, TextlessCurrent, Current
<1> QED BY <1>1, RowsInvariant, PTL

(* normalize of the three connectors: for any item and any policy, an edge runs
   from a person of the same artifact, or from a decision its text marks. *)
THEOREM EdgesAreWhole == ItemsSpec => []EdgesHaveEnds
<1>1. ASSUME ItemsInv, NEW i \in ItemStates, NEW e \in RecordsOf(Artifact(i)).edges
      PROVE  e[1] \in RecordsOf(Artifact(i)).people \/ e[2] = "implemented_by"
  <2>0. i.asked \subseteq People /\ i.looked \subseteq People /\ None \notin People
    BY ItemsAssumption DEF ItemStates
  <2>1. CASE connector = "github"
    <3>1. RecordsOf(Artifact(i)) = GithubRecords(GithubArtifact(i))
      BY <2>1 DEF RecordsOf, Artifact
    <3> DEFINE a == GithubArtifact(i)
    <3>2. a.raw.owner = i.owner /\ a.raw.asked = i.asked /\ a.raw.looked = i.looked
      BY DEF GithubArtifact
    <3> HIDE DEF a
    <3>3. \/ \E p \in {a.raw.owner} \ {None} : e = <<p, "owns">>
          \/ \E p \in a.raw.asked \cup a.raw.looked : e = <<p, "informed_of">>
          \/ \E d \in a.raw.marks : e = <<d, "implemented_by">>
      BY <1>1, <3>1 DEF GithubRecords, a
    <3>4. GithubRecords(a).people = ({a.raw.owner} \cup a.raw.asked \cup a.raw.looked) \ {None}
      BY DEF GithubRecords
    <3> QED BY <2>0, <3>1, <3>2, <3>3, <3>4 DEF a
  <2>2. CASE connector = "linear"
    <3>1. RecordsOf(Artifact(i)) = LinearRecords(LinearArtifact(i))
      BY <2>2 DEF RecordsOf, Artifact
    <3> DEFINE a == LinearArtifact(i)
    <3>2. a.raw.owner = i.owner /\ a.raw.asked = i.asked
      BY DEF LinearArtifact
    <3> HIDE DEF a
    <3>3. \/ \E p \in {a.raw.owner} \ {None} : e = <<p, "owns">>
          \/ \E p \in a.raw.asked : e = <<p, "informed_of">>
          \/ \E d \in a.raw.marks : e = <<d, "implemented_by">>
      BY <1>1, <3>1 DEF LinearRecords, a
    <3>4. LinearRecords(a).people = ({a.raw.owner} \cup a.raw.asked) \ {None}
      BY DEF LinearRecords
    <3> QED BY <2>0, <3>1, <3>2, <3>3, <3>4 DEF a
  <2>3. CASE connector = "granola"
    <3>1. RecordsOf(Artifact(i)) = GranolaRecords(GranolaArtifact(i))
      BY <2>3 DEF RecordsOf, Artifact
    <3> DEFINE a == GranolaArtifact(i)
    <3>2. \E p \in a.raw.asked : e = <<p, "relates_to">>
      BY <1>1, <3>1 DEF GranolaRecords
    <3>3. GranolaRecords(a).people = a.raw.asked
      BY DEF GranolaRecords
    <3> QED BY <3>1, <3>2, <3>3
  <2> QED BY <1>1, <2>1, <2>2, <2>3 DEF ItemsInv, ItemTypes
<1>2. ItemsInv /\ RowsInv => EdgesHaveEnds
  <2> SUFFICES ASSUME ItemsInv, RowsInv, NEW r \in sources, NEW e \in RecordsOf(r.artifact).edges
               PROVE  e[1] \in RecordsOf(r.artifact).people \/ e[2] = "implemented_by"
    BY DEF EdgesHaveEnds
  <2>1. PICK i \in ItemStates : r.artifact = Artifact(i)
    BY DEF RowsInv, RowInv
  <2> QED BY <1>1, <2>1
<1> QED BY <1>2, RowsInvariant, PTL

-----------------------------------------------------------------------------
(***************************************************************************)
(* The walk of a connector over its origin.  Where the next page starts    *)
(* behind the last item of the one before, what the walk has passed is     *)
(* landed or about to be, unless it is as new as all that the walk met.    *)
(* With more than two versions to a stamp that fails of Granola: an edit   *)
(* may fall behind the walk.                                               *)
(***************************************************************************)
Keeps == provider = "linear" \/ (provider = "granola" /\ Granularity <= 2)

StreamStates ==
  [pc : {"idle", "fetch", "emit", "drained", "cut"}, since : Nat, page : Nat,
   anchor : {<<>>} \cup (Nat \X Docs), items : SUBSET (Nat \X Docs), more : BOOLEAN,
   max : Nat, saved : Nat, began : Nat]

WalkTypes ==
  /\ provider \in {"linear", "granola"}
  /\ version \in [Docs -> Nat] /\ newest \in Nat /\ cursor \in Nat
  /\ stream \in StreamStates

(* Version numbers are given out once; the walk has met none that was not. *)
NumberInv ==
  /\ \A d \in Docs : version[d] <= newest
  /\ \A d, e \in Docs : version[d] > 0 /\ version[d] = version[e] => d = e
  /\ stream.anchor # <<>> => stream.anchor[1] <= version[stream.anchor[2]]
  /\ \A i \in stream.items : i[1] <= newest
  /\ stream.max <= Stamp(newest) /\ stream.began <= newest

(* All that is older than a cursor has landed. *)
Behind(s) ==
  /\ s <= Stamp(newest)
  /\ \A d \in Docs : version[d] > 0 /\ Stamp(version[d]) < s => version[d] \in landed

Follows(a, d) == Earlier(a[1], a[2], version[d], d)

(* A document that the walk will not list any more. *)
Passed(d) ==
  /\ version[d] > 0 /\ stream.since <= Stamp(version[d])
  /\ \/ stream.anchor # <<>> /\ ~Follows(stream.anchor, d)
     \/ stream.pc = "emit" /\ ~stream.more
     \/ stream.pc = "drained"
Taken(d) == version[d] \in landed \/ <<version[d], d>> \in stream.items
Topmost(d) ==
  stream.max <= Stamp(version[d]) /\ \A i \in stream.items : Stamp(i[1]) <= Stamp(version[d])

Walking == stream.pc \in {"fetch", "emit"}

(* Oldest first, the last item of a page is the newest of it, and what is edited
   while there are more pages comes behind it. *)
OldestFirst ==
  provider = "granola" /\ Walking =>
    /\ \A i \in stream.items : stream.anchor # <<>> /\ Stamp(i[1]) <= Stamp(stream.anchor[1])
    /\ stream.max = stream.since
         \/ (stream.anchor # <<>> /\ stream.max <= Stamp(stream.anchor[1]))
    /\ stream.more =>
         /\ stream.anchor # <<>> => Stamp(stream.anchor[1]) < Stamp(newest + 1)
         /\ \A d \in Docs : Passed(d) => Taken(d)

WalkInv ==
  /\ stream.pc \in {"fetch", "drained"} => stream.items = {}
  /\ stream.pc = "fetch" => stream.more \/ stream.anchor = <<>>
  /\ Walking => \A d \in Docs : Passed(d) => Taken(d) \/ Topmost(d)
  /\ (Walking \/ stream.pc = "drained") /\ stream.began = newest =>
       \A d \in Docs : Passed(d) => Taken(d)

PagingInv ==
  Keeps => /\ WalkTypes /\ NumberInv
           /\ Behind(cursor) /\ Behind(stream.since) /\ Behind(stream.saved)
           /\ WalkInv /\ OldestFirst

(* Stamps are numbers, and grow with the versions. *)
LEMMA StampsGrow ==
  /\ \A v \in Nat : Stamp(v) \in Nat
  /\ \A v, w \in Nat : v <= w => Stamp(v) <= Stamp(w)
<1>1. Granularity \in Nat \ {0}
  BY PagingAssumption
<1>2. ASSUME NEW v \in Nat, NEW w \in Nat, v <= w PROVE v \div Granularity <= w \div Granularity
  BY <1>1, <1>2
<1>3. ASSUME NEW v \in Nat PROVE v \div Granularity \in Nat
  BY <1>1
<1>4. \A v, w \in Nat : v <= w => v \div Granularity <= w \div Granularity
  BY <1>2
<1> QED BY <1>3, <1>4 DEF Stamp

(* Two versions at most share a stamp: of three, the first is older than the last. *)
LEMMA StampsPart ==
  ASSUME Granularity <= 2, NEW v \in Nat, NEW w \in Nat, NEW u \in Nat, v < w, w < u
  PROVE  Stamp(v) < Stamp(u)
<1>1. Granularity = 1 \/ Granularity = 2
  BY PagingAssumption
<1>2. CASE Granularity = 1
  <2>1. v \div 1 = v /\ u \div 1 = u
    OBVIOUS
  <2> QED BY <1>2, <2>1 DEF Stamp
<1>3. CASE Granularity = 2
  <2>1. v \div 2 < u \div 2
    OBVIOUS
  <2> QED BY <1>3, <2>1 DEF Stamp
<1> QED BY <1>1, <1>2, <1>3

(* The order of the lists. *)
LEMMA ListOrder ==
  ASSUME WalkTypes
  PROVE  LET R == {q \in Docs \X Docs : Earlier(version[q[1]], q[1], version[q[2]], q[2])}
         IN  StrictOrder(R, Docs) /\ Total(R, Docs)
<1> DEFINE R == {q \in Docs \X Docs : Earlier(version[q[1]], q[1], version[q[2]], q[2])}
           st(d) == Stamp(version[d])
<1>1. \A d \in Docs : st(d) \in Nat /\ d \in Nat
  BY StampsGrow, PagingAssumption DEF WalkTypes
<1>2. \A d, e \in Docs : <<d, e>> \in R <=> Earlier(version[d], d, version[e], e)
  OBVIOUS
<1>3. \A d, e \in Docs : <<d, e>> \in R <=>
        IF provider = "linear" THEN d # e /\ ~(st(d) < st(e) \/ (st(d) = st(e) /\ d < e))
        ELSE st(d) < st(e) \/ (st(d) = st(e) /\ d < e)
  BY <1>2 DEF Earlier
<1> HIDE DEF R, st
<1>4. StrictOrder(R, Docs)
  BY <1>1, <1>3 DEF StrictOrder
<1>5. Total(R, Docs)
  <2> SUFFICES ASSUME NEW d \in Docs, NEW e \in Docs, d # e PROVE <<d, e>> \in R \/ <<e, d>> \in R
    BY DEF Total
  <2>1. st(d) < st(e) \/ st(e) < st(d) \/ (st(d) = st(e) /\ (d < e \/ e < d))
    BY <1>1
  <2>2. ~((st(d) < st(e) \/ (st(d) = st(e) /\ d < e)) /\ (st(e) < st(d) \/ (st(e) = st(d) /\ e < d)))
    BY <1>1
  <2>3. CASE provider = "linear"
    BY <1>3, <2>2, <2>3
  <2>4. CASE provider # "linear"
    BY <1>3, <2>1, <2>4
  <2> QED BY <2>3, <2>4
<1> QED BY <1>4, <1>5 DEF R

(* The page that a list call cuts from what remains. *)
LEMMA PageCut ==
  ASSUME WalkTypes, Remaining # {}
  PROVE  /\ Page \subseteq Remaining /\ Page # {} /\ Remaining \subseteq Listed(stream.since)
         /\ LastOf(Page) \in Page
         /\ \A d \in Page \ {LastOf(Page)} : Earlier(version[d], d, version[LastOf(Page)], LastOf(Page))
         /\ \A d \in Remaining \ Page : Follows(<<version[LastOf(Page)], LastOf(Page)>>, d)
<1> DEFINE R == {q \in Docs \X Docs : Earlier(version[q[1]], q[1], version[q[2]], q[2])}
           S == Remaining
           P == FirstPage(R, S, PageSize)
<1>1. S \subseteq Listed(stream.since) /\ S \subseteq Docs
  BY DEF Remaining, Listed, WalkTypes
<1>2. IsFiniteSet(S)
  BY <1>1, FS_Subset, PagingAssumption
<1>3. StrictOrder(R, S) /\ Total(R, S)
  BY <1>1, ListOrder DEF StrictOrder, Total
<1>4. \A d, e \in S : <<d, e>> \in R <=> Earlier(version[d], d, version[e], e)
  BY <1>1
<1>5. \A d \in S : Before(S, d) = {e \in S : <<e, d>> \in R}
  BY <1>4 DEF Before
<1>6. Page = P
  BY <1>5 DEF Page, FirstPage
<1>7. PageSize \in Nat \ {0}
  BY PagingAssumption
<1> HIDE DEF R, S
<1>8. /\ P \subseteq S
      /\ \E last \in P : \A x \in P : x = last \/ <<x, last>> \in R
      /\ \A x \in S \ P, p \in P : <<p, x>> \in R
  BY <1>2, <1>3, <1>7, PageFacts DEF S
<1> HIDE DEF P
<1>9. PICK last \in P : \A x \in P : x = last \/ <<x, last>> \in R
  BY <1>8
<1>10. \A d, e \in P : <<d, e>> \in R <=> Earlier(version[d], d, version[e], e)
  BY <1>4, <1>8
<1>11. Before(P, last) = P \ {last}
  <2>1. <<last, last>> \notin R
    BY <1>3, <1>8 DEF StrictOrder
  <2> QED BY <1>9, <1>10, <2>1 DEF Before
<1>12. LastOf(P) \in P /\ Before(P, LastOf(P)) = P \ {LastOf(P)}
  BY <1>11 DEF LastOf
<1>13. \A d \in P \ {LastOf(P)} : Earlier(version[d], d, version[LastOf(P)], LastOf(P))
  BY <1>12 DEF Before
<1>14. \A d \in S \ P : Earlier(version[LastOf(P)], LastOf(P), version[d], d)
  BY <1>4, <1>8, <1>12
<1> QED BY <1>1, <1>6, <1>8, <1>12, <1>13, <1>14 DEF S, Follows

(* A document behind the last of two points of the walk is behind the first. *)
LEMMA PointsOrdered ==
  ASSUME NEW st, NEW a \in Nat \X Docs, NEW d \in Docs, st = Stamp(version[d]), version[d] \in Nat,
         a[1] <= version[a[2]], version \in [Docs -> Nat]
  PROVE  /\ provider = "granola" /\ Follows(a, d) => Stamp(a[1]) <= st
         /\ provider = "granola" /\ Stamp(a[1]) < st => Follows(a, d)
         /\ provider = "granola" /\ st < Stamp(a[1]) => ~Follows(a, d)
         /\ provider = "linear" /\ Follows(a, d) => st <= Stamp(a[1])
         /\ provider = "linear" /\ ~Follows(a, d) => Stamp(a[1]) <= st
<1>1. Stamp(a[1]) \in Nat /\ st \in Nat /\ a[1] \in Nat /\ a[2] \in Docs
  BY StampsGrow
<1>2. d = a[2] => Stamp(a[1]) <= st
  BY <1>1, StampsGrow
<1>3. a[2] \in Nat /\ d \in Nat
  BY <1>1, PagingAssumption
<1>4. /\ provider = "granola" =>
           (Follows(a, d) <=> Stamp(a[1]) < st \/ (Stamp(a[1]) = st /\ a[2] < d))
      /\ provider = "linear" =>
           (Follows(a, d) <=> a[2] # d /\ ~(Stamp(a[1]) < st \/ (Stamp(a[1]) = st /\ a[2] < d)))
  BY DEF Follows, Earlier
<1> QED BY <1>1, <1>2, <1>3, <1>4

(* An edit makes a version newer than all the walk met. *)
LEMMA OriginKeepsWalk ==
  ASSUME PagingInv, NEW d \in Docs, OriginEdits(d)
  PROVE  PagingInv'
<1> SUFFICES ASSUME Keeps PROVE PagingInv'
  BY DEF PagingInv, Keeps, OriginEdits
<1>1. WalkTypes /\ NumberInv /\ WalkInv /\ OldestFirst
        /\ Behind(cursor) /\ Behind(stream.since) /\ Behind(stream.saved)
  BY DEF PagingInv
<1>2. /\ newest' = newest + 1 /\ version' = [version EXCEPT ![d] = newest + 1]
      /\ UNCHANGED <<provider, landed, cursor, stream>>
  BY DEF OriginEdits
<1>3. version'[d] = newest + 1 /\ \A e \in Docs \ {d} : version'[e] = version[e]
  BY <1>1, <1>2 DEF WalkTypes
<1>4. WalkTypes'
  BY <1>1, <1>2 DEF WalkTypes, StreamStates
<1>5. Stamp(newest) \in Nat /\ Stamp(newest + 1) \in Nat /\ Stamp(newest) <= Stamp(newest + 1)
        /\ Stamp(newest + 1) <= Stamp(newest + 2)
  BY <1>1, StampsGrow DEF WalkTypes
<1>6. NumberInv'
  <2>1. \A e \in Docs : version[e] \in Nat /\ version[e] <= newest
    BY <1>1 DEF WalkTypes, NumberInv
  <2>2. \A e \in Docs : version'[e] <= newest + 1 /\ version[e] <= version'[e]
    BY <1>1, <1>3, <2>1 DEF WalkTypes
  <2>3. \A e, f \in Docs : version'[e] > 0 /\ version'[e] = version'[f] => e = f
    BY <1>1, <1>3, <2>1 DEF WalkTypes, NumberInv
  <2>4. stream.anchor # <<>> => stream.anchor[1] <= version'[stream.anchor[2]]
    <3>1. stream.anchor # <<>> => stream.anchor[1] \in Nat /\ stream.anchor[2] \in Docs
      BY <1>1 DEF WalkTypes, StreamStates
    <3>2. \A e \in Docs : version'[e] \in Nat
      BY <1>4 DEF WalkTypes
    <3> QED BY <1>1, <2>1, <2>2, <3>1, <3>2 DEF NumberInv
  <2>5. \A i \in stream.items : i[1] <= newest + 1
    BY <1>1 DEF NumberInv, WalkTypes, StreamStates
  <2>6. stream.max <= Stamp(newest + 1) /\ stream.began <= newest + 1
    BY <1>1, <1>5 DEF NumberInv, WalkTypes, StreamStates
  <2> QED BY <1>2, <2>2, <2>3, <2>4, <2>5, <2>6 DEF NumberInv, Stamp
<1>7. \A s \in Nat : Behind(s) => s <= Stamp(newest + 1)
            /\ \A e \in Docs : version'[e] > 0 /\ Stamp(version'[e]) < s => version'[e] \in landed
  <2> TAKE s \in Nat
  <2>1. Behind(s) => ~(Stamp(version'[d]) < s)
    BY <1>3, <1>5 DEF Behind
  <2> QED BY <1>3, <1>5, <2>1 DEF Behind
<1>8. Behind(cursor)' /\ Behind(stream.since)' /\ Behind(stream.saved)'
  <2>1. cursor \in Nat /\ stream.since \in Nat /\ stream.saved \in Nat
    BY <1>1 DEF WalkTypes, StreamStates
  <2> QED BY <1>1, <1>2, <1>7, <2>1 DEF Behind, Stamp
<1>9. /\ Topmost(d)'
      /\ \A e \in Docs \ {d} : (Passed(e)' <=> Passed(e)) /\ (Taken(e)' <=> Taken(e)) /\ (Topmost(e)' <=> Topmost(e))
  <2>1. \A e \in Docs \ {d} : (Passed(e)' <=> Passed(e)) /\ (Taken(e)' <=> Taken(e)) /\ (Topmost(e)' <=> Topmost(e))
    BY <1>2, <1>3 DEF Passed, Taken, Topmost, Follows, Earlier, Stamp
  <2>2. \A i \in stream.items : Stamp(i[1]) <= Stamp(newest + 1)
    <3>1. \A i \in stream.items : i[1] \in Nat /\ i[1] <= newest + 1
      BY <1>1 DEF NumberInv, WalkTypes, StreamStates
    <3> QED BY <1>1, <3>1, StampsGrow DEF WalkTypes
  <2>3. stream.max <= Stamp(newest + 1)
    BY <1>1, <1>5 DEF NumberInv, WalkTypes, StreamStates
  <2> QED BY <1>2, <1>3, <2>1, <2>2, <2>3 DEF Topmost, Stamp
<1>10. WalkInv'
  <2>1. stream.began # newest + 1
    BY <1>1 DEF NumberInv, WalkTypes, StreamStates
  <2>2. Walking' <=> Walking
    BY <1>2 DEF Walking
  <2>3. Walking => \A e \in Docs : Passed(e)' => Taken(e)' \/ Topmost(e)'
    BY <1>1, <1>9 DEF WalkInv
  <2>4. stream.pc = "fetch" => stream.items = {} /\ (stream.more \/ stream.anchor = <<>>)
    BY <1>1 DEF WalkInv
  <2>5. stream.pc = "drained" => stream.items = {}
    BY <1>1 DEF WalkInv
  <2> QED BY <1>2, <2>1, <2>2, <2>3, <2>4, <2>5 DEF WalkInv
<1>11. OldestFirst'
  <2> SUFFICES ASSUME provider = "granola", Walking PROVE OldestFirst'
    BY <1>2 DEF OldestFirst, Walking
  <2>1. ASSUME stream.more, stream.anchor # <<>>
        PROVE  Stamp(stream.anchor[1]) < Stamp(newest + 2) /\ ~Passed(d)'
    <3>1. Stamp(stream.anchor[1]) < Stamp(newest + 1)
      BY <1>1, <2>1 DEF OldestFirst
    <3>2. stream.anchor \in Nat \X Docs
      BY <1>1, <2>1 DEF WalkTypes, StreamStates
    <3>3. Stamp(stream.anchor[1]) \in Nat /\ Stamp(newest + 2) \in Nat
      BY <1>1, <3>2, StampsGrow DEF WalkTypes
    <3>4. Earlier(stream.anchor[1], stream.anchor[2], newest + 1, d)
      BY <3>1 DEF Earlier
    <3>5. Follows(stream.anchor, d)'
      BY <1>2, <1>3, <3>4 DEF Follows, Earlier, Stamp
    <3> QED BY <1>2, <1>5, <2>1, <3>1, <3>3, <3>5 DEF Passed, Walking
  <2>2. stream.more => \A e \in Docs : Passed(e)' => Taken(e)'
    <3>1. stream.more /\ stream.anchor = <<>> => ~Passed(d)'
      BY <1>2 DEF Passed, Walking
    <3>2. stream.more => \A e \in Docs \ {d} : Passed(e)' => Taken(e)'
      BY <1>1, <1>9 DEF OldestFirst
    <3> QED BY <2>1, <3>1, <3>2
  <2>3. \A v \in Nat : Stamp(v)' = Stamp(v)
    BY DEF Stamp
  <2>4. newest + 1 + 1 = newest + 2
    BY <1>1 DEF WalkTypes
  <2> QED BY <1>1, <1>2, <2>1, <2>2, <2>4 DEF OldestFirst, Walking, Stamp
<1> QED BY <1>4, <1>6, <1>8, <1>10, <1>11 DEF PagingInv

LEMMA RunKeepsWalk ==
  ASSUME PagingInv, (\E since \in {0, cursor} : RunStarts(since)) \/ RunAborts \/ RunReturns \/ RunDies
  PROVE  PagingInv'
<1> SUFFICES ASSUME Keeps PROVE PagingInv'
  BY DEF PagingInv, Keeps, RunStarts, RunAborts, RunReturns, RunDies
<1>1. WalkTypes /\ NumberInv /\ Behind(cursor) /\ Behind(stream.since) /\ Behind(stream.saved)
  BY DEF PagingInv
<1>2. UNCHANGED <<provider, version, newest, landed>>
  BY DEF RunStarts, RunAborts, RunReturns, RunDies
<1>3. Behind(0) /\ 0 <= Stamp(newest)
  BY <1>1, StampsGrow DEF Behind, WalkTypes
<1>4. \A s : Behind(s)' <=> s <= Stamp(newest) /\ \A d \in Docs : version[d] > 0 /\ Stamp(version[d]) < s => version[d] \in landed
  BY <1>2 DEF Behind, Stamp
<1>5. CASE \E since \in {0, cursor} : RunStarts(since)
  <2>1. PICK since \in {0, cursor} : RunStarts(since)
    BY <1>5
  <2>2. /\ stream' = [Idle EXCEPT !.pc = "fetch", !.since = since, !.max = since, !.saved = since, !.began = newest]
        /\ cursor' = cursor
    BY <2>1 DEF RunStarts
  <2>3. since \in Nat /\ newest \in Nat
    BY <1>1 DEF WalkTypes
  <2>4. /\ stream'.pc = "fetch" /\ stream'.since = since /\ stream'.max = since /\ stream'.saved = since
        /\ stream'.began = newest /\ stream'.anchor = <<>> /\ stream'.items = {} /\ stream' \in StreamStates
        /\ ~stream'.more
    BY <2>2, <2>3 DEF Idle, StreamStates
  <2>5. Behind(since)
    BY <1>1, <1>3
  <2>6. WalkTypes'
    BY <1>1, <1>2, <2>2, <2>4 DEF WalkTypes
  <2>7. NumberInv'
    BY <1>1, <1>2, <2>3, <2>4, <2>5 DEF NumberInv, Behind, Stamp
  <2>8. Behind(cursor)' /\ Behind(stream.since)' /\ Behind(stream.saved)'
    BY <1>1, <1>2, <2>2, <2>4, <2>5 DEF Behind, Stamp
  <2>9. \A d \in Docs : ~Passed(d)'
    BY <2>4 DEF Passed
  <2>10. WalkInv' /\ OldestFirst'
    BY <2>4, <2>9 DEF WalkInv, OldestFirst
  <2> QED BY <2>6, <2>7, <2>8, <2>10 DEF PagingInv
<1>6. CASE RunAborts
  <2>1. /\ stream' = [stream EXCEPT !.pc = "cut"] /\ cursor' = cursor
    BY <1>6 DEF RunAborts
  <2>2. /\ stream' \in StreamStates /\ stream'.pc = "cut" /\ stream'.since = stream.since
        /\ stream'.saved = stream.saved /\ stream'.anchor = stream.anchor /\ stream'.items = stream.items
        /\ stream'.max = stream.max /\ stream'.began = stream.began
    BY <1>1, <2>1 DEF WalkTypes, StreamStates
  <2>3. WalkTypes' /\ NumberInv'
    BY <1>1, <1>2, <2>1, <2>2 DEF WalkTypes, NumberInv, Stamp
  <2>4. Behind(cursor)' /\ Behind(stream.since)' /\ Behind(stream.saved)'
    BY <1>1, <1>2, <2>1, <2>2 DEF Behind, Stamp
  <2>5. WalkInv' /\ OldestFirst'
    BY <2>2 DEF WalkInv, OldestFirst, Walking
  <2> QED BY <2>3, <2>4, <2>5 DEF PagingInv
<1>7. CASE RunReturns \/ RunDies
  <2>1. stream' = Idle /\ cursor' \in {cursor, stream.saved}
    BY <1>7 DEF RunReturns, RunDies
  <2>2. cursor' \in Nat /\ Behind(cursor')
    BY <1>1, <2>1 DEF WalkTypes, StreamStates
  <2>3. WalkTypes' /\ NumberInv'
    <3>1. Idle \in StreamStates
      BY DEF Idle, StreamStates
    <3>2. WalkTypes'
      BY <1>1, <1>2, <2>1, <2>2, <3>1 DEF WalkTypes
    <3>3. Idle.anchor = <<>> /\ Idle.items = {} /\ Idle.max = 0 /\ Idle.began = 0
      BY DEF Idle
    <3>4. NumberInv'
      BY <1>1, <1>2, <1>3, <2>1, <3>3 DEF NumberInv, WalkTypes, Stamp
    <3> QED BY <3>2, <3>4
  <2>4. Behind(cursor)' /\ Behind(stream.since)' /\ Behind(stream.saved)'
    <3>1. Idle.since = 0 /\ Idle.saved = 0
      BY DEF Idle
    <3>2. Behind(cursor)'
      BY <1>2, <2>2 DEF Behind, Stamp
    <3>3. Behind(stream.since)' /\ Behind(stream.saved)'
      BY <1>2, <1>3, <2>1, <3>1 DEF Behind, Stamp
    <3> QED BY <3>2, <3>3
  <2>5. WalkInv' /\ OldestFirst'
    <3>1. Idle.pc = "idle"
      BY DEF Idle
    <3> QED BY <2>1, <3>1 DEF WalkInv, OldestFirst, Walking
  <2> QED BY <2>3, <2>4, <2>5 DEF PagingInv
<1> QED BY <1>5, <1>6, <1>7

LEMMA EmitKeepsWalk ==
  ASSUME PagingInv, EmitItem
  PROVE  PagingInv'
<1> SUFFICES ASSUME Keeps PROVE PagingInv'
  BY DEF PagingInv, Keeps, EmitItem
<1>1. /\ WalkTypes /\ NumberInv /\ Behind(cursor) /\ Behind(stream.since) /\ Behind(stream.saved)
      /\ WalkInv /\ OldestFirst
  BY DEF PagingInv
<1>2. PICK i \in stream.items :
        /\ landed' = landed \cup {i[1]}
        /\ stream' = [stream EXCEPT !.items = stream.items \ {i},
                       !.max = IF Stamp(i[1]) > stream.max THEN Stamp(i[1]) ELSE stream.max]
  BY DEF EmitItem
<1>3. stream.pc = "emit" /\ UNCHANGED <<provider, version, newest, cursor>>
  BY DEF EmitItem
<1> DEFINE max == IF Stamp(i[1]) > stream.max THEN Stamp(i[1]) ELSE stream.max
<1>4. i \in Nat \X Docs /\ Stamp(i[1]) \in Nat /\ stream.max \in Nat /\ newest \in Nat /\ i[1] <= newest
  BY <1>1, StampsGrow DEF WalkTypes, StreamStates, NumberInv
<1>5. /\ max \in Nat /\ stream.max <= max /\ Stamp(i[1]) <= max /\ max \in {stream.max, Stamp(i[1])}
      /\ max <= Stamp(newest)
  <2>1. Stamp(i[1]) <= Stamp(newest) /\ stream.max <= Stamp(newest)
    BY <1>1, <1>4, StampsGrow DEF NumberInv
  <2> QED BY <1>4, <2>1
<1> HIDE DEF max
<1>6. /\ stream' \in StreamStates /\ stream'.pc = "emit" /\ stream'.since = stream.since
      /\ stream'.anchor = stream.anchor /\ stream'.items = stream.items \ {i} /\ stream'.more = stream.more
      /\ stream'.max = max /\ stream'.saved = stream.saved /\ stream'.began = stream.began
  <2>1. stream' = [stream EXCEPT !.items = stream.items \ {i}, !.max = max]
    BY <1>2 DEF max
  <2> QED BY <1>1, <1>3, <1>5, <2>1 DEF WalkTypes, StreamStates
<1>7. WalkTypes' /\ NumberInv'
  BY <1>1, <1>3, <1>5, <1>6 DEF WalkTypes, NumberInv, Stamp
<1>8. Behind(cursor)' /\ Behind(stream.since)' /\ Behind(stream.saved)'
  BY <1>1, <1>2, <1>3, <1>6 DEF Behind, Stamp
<1>9. \A d \in Docs : (Passed(d)' <=> Passed(d)) /\ (Taken(d) => Taken(d)') /\ (Topmost(d) => Topmost(d)')
  <2> TAKE d \in Docs
  <2>1. Passed(d)' <=> Passed(d)
    BY <1>3, <1>6 DEF Passed, Follows, Earlier, Stamp
  <2>2. Taken(d) => Taken(d)'
    BY <1>2, <1>3, <1>6 DEF Taken
  <2>3. Topmost(d) => Topmost(d)'
    BY <1>3, <1>5, <1>6 DEF Topmost, Stamp
  <2> QED BY <2>1, <2>2, <2>3
<1>10. WalkInv'
  BY <1>1, <1>3, <1>6, <1>9 DEF WalkInv, Walking
<1>11. OldestFirst'
  BY <1>1, <1>3, <1>5, <1>6, <1>9 DEF OldestFirst, Walking, Stamp
<1> QED BY <1>7, <1>8, <1>10, <1>11 DEF PagingInv

(* All that is older than a checkpoint has landed by then. *)
LEMMA PageEndKeepsWalk ==
  ASSUME PagingInv, PageEnds
  PROVE  PagingInv'
<1> SUFFICES ASSUME Keeps PROVE PagingInv'
  BY DEF PagingInv, Keeps, PageEnds
<1>1. /\ WalkTypes /\ NumberInv /\ Behind(cursor) /\ Behind(stream.since) /\ Behind(stream.saved)
      /\ WalkInv /\ OldestFirst
  BY DEF PagingInv
<1>2. /\ stream.pc = "emit" /\ stream.items = {}
      /\ UNCHANGED <<provider, version, newest, landed>>
  BY DEF PageEnds
<1>3. \/ cursor' = cursor /\ stream'.saved = stream.saved
      \/ CheckpointDue /\ cursor' = stream.max /\ stream'.saved = stream.max
  BY <1>1 DEF PageEnds, WalkTypes, StreamStates
<1>4. /\ stream' \in StreamStates /\ stream'.pc = (IF stream.more THEN "fetch" ELSE "drained")
      /\ stream'.since = stream.since /\ stream'.anchor = stream.anchor /\ stream'.items = {}
      /\ stream'.more = stream.more /\ stream'.max = stream.max /\ stream'.began = stream.began
  BY <1>1, <1>2 DEF PageEnds, WalkTypes, StreamStates
<1>5. CheckpointDue => Behind(stream.max)
  <2> SUFFICES ASSUME CheckpointDue, NEW d \in Docs, version[d] > 0, Stamp(version[d]) < stream.max
               PROVE  version[d] \in landed
    BY <1>1 DEF Behind, NumberInv
  <2>1. /\ version[d] \in Nat /\ Stamp(version[d]) \in Nat /\ stream.since \in Nat /\ stream.max \in Nat
        /\ provider \in {"linear", "granola"} /\ version \in [Docs -> Nat]
    BY <1>1, StampsGrow DEF WalkTypes, StreamStates
  <2>2. CASE Stamp(version[d]) < stream.since
    BY <1>1, <2>2 DEF Behind
  <2>3. CASE ~(Stamp(version[d]) < stream.since)
    <3>1. Passed(d)
      <4>1. CASE provider = "linear"
        BY <1>2, <2>1, <2>3, <4>1 DEF Passed, CheckpointDue
      <4>2. CASE provider = "granola"
        <5>1. stream.anchor # <<>> /\ stream.max <= Stamp(stream.anchor[1])
          BY <1>1, <1>2, <2>1, <2>3, <4>2 DEF OldestFirst, Walking
        <5>2. stream.anchor \in Nat \X Docs /\ stream.anchor[1] <= version[stream.anchor[2]]
          BY <1>1, <5>1 DEF WalkTypes, StreamStates, NumberInv
        <5>3. Stamp(stream.anchor[1]) \in Nat
          BY <5>2, StampsGrow
        <5>4. Stamp(version[d]) < Stamp(stream.anchor[1])
          BY <2>1, <5>1, <5>3
        <5>5. ~Follows(stream.anchor, d)
          BY <2>1, <4>2, <5>2, <5>4, PointsOrdered
        <5> QED BY <2>1, <2>3, <5>1, <5>5 DEF Passed
      <4> QED BY <2>1, <4>1, <4>2
    <3>2. Taken(d) \/ Topmost(d)
      BY <1>1, <1>2, <3>1 DEF WalkInv, Walking
    <3> QED BY <1>2, <2>1, <3>2 DEF Taken, Topmost
  <2> QED BY <2>2, <2>3
<1>6. WalkTypes' /\ NumberInv'
  <2>1. cursor' \in Nat
    BY <1>1, <1>3 DEF WalkTypes, StreamStates
  <2> QED BY <1>1, <1>2, <1>4, <2>1 DEF WalkTypes, NumberInv, Stamp
<1>7. Behind(cursor)' /\ Behind(stream.since)' /\ Behind(stream.saved)'
  BY <1>1, <1>2, <1>3, <1>4, <1>5 DEF Behind, Stamp
<1>8. \A d \in Docs : (Passed(d)' => Passed(d)) /\ (Taken(d) => Taken(d)') /\ (Topmost(d) => Topmost(d)')
  <2> TAKE d \in Docs
  <2>1. Passed(d)' => Passed(d)
    BY <1>2, <1>4 DEF Passed, Follows, Earlier, Stamp
  <2>2. Taken(d) => Taken(d)'
    BY <1>2, <1>4 DEF Taken
  <2>3. Topmost(d) => Topmost(d)'
    BY <1>2, <1>4 DEF Topmost, Stamp
  <2> QED BY <2>1, <2>2, <2>3
<1>9. WalkInv'
  BY <1>1, <1>2, <1>4, <1>8 DEF WalkInv, Walking
<1>10. OldestFirst'
  BY <1>1, <1>2, <1>4, <1>8 DEF OldestFirst, Walking, Stamp
<1> QED BY <1>6, <1>7, <1>9, <1>10 DEF PagingInv

(* The page that is fetched has what the walk passes by it, and the walk has
   passed before what is not in the rest of the list. *)
LEMMA FetchKeepsWalk ==
  ASSUME PagingInv, FetchPage
  PROVE  PagingInv'
<1> SUFFICES ASSUME Keeps PROVE PagingInv'
  BY DEF PagingInv, Keeps, FetchPage
<1>1. /\ WalkTypes /\ NumberInv /\ Behind(cursor) /\ Behind(stream.since) /\ Behind(stream.saved)
      /\ WalkInv /\ OldestFirst
  BY DEF PagingInv
<1>2. stream.pc = "fetch" /\ UNCHANGED <<provider, version, newest, landed, cursor>>
  BY DEF FetchPage
<1>3. stream.items = {} /\ (stream.more \/ stream.anchor = <<>>)
  BY <1>1, <1>2 DEF WalkInv
<1>4. /\ version \in [Docs -> Nat] /\ newest \in Nat /\ stream.max \in Nat /\ stream.since \in Nat
      /\ stream.anchor \in {<<>>} \cup (Nat \X Docs) /\ provider \in {"linear", "granola"}
      /\ \A d \in Docs : version[d] \in Nat /\ Stamp(version[d]) \in Nat
  BY <1>1, StampsGrow DEF WalkTypes, StreamStates
<1>5. /\ Remaining = {d \in Listed(stream.since) : stream.anchor = <<>> \/ Follows(stream.anchor, d)}
      /\ Page \subseteq Remaining /\ Listed(stream.since) \subseteq Docs
  BY <1>4 DEF Remaining, Follows, Page, Listed
<1>6. \A d \in Page : version[d] > 0 /\ stream.since <= Stamp(version[d])
  BY <1>4, <1>5 DEF Listed
<1> DEFINE items == {<<version[d], d>> : d \in Page}
           anchor == IF Page = {} THEN stream.anchor ELSE <<version[LastOf(Page)], LastOf(Page)>>
<1>7. stream' = [stream EXCEPT !.pc = "emit", !.items = items, !.more = (Page # Remaining),
                               !.page = @ + 1, !.anchor = anchor]
  <2>1. {e \in Page : Stamp(version[e]) >= stream.since} = Page
    BY <1>4, <1>6
  <2> QED BY <2>1 DEF FetchPage
<1>8. items \subseteq Nat \X Docs /\ \A d \in Docs : <<version[d], d>> \in items <=> d \in Page
  BY <1>4, <1>5
<1>9. \A i \in items : \E d \in Page : i = <<version[d], d>>
  OBVIOUS
<1>10. Page # {} => /\ LastOf(Page) \in Page /\ LastOf(Page) \in Docs
                    /\ anchor = <<version[LastOf(Page)], LastOf(Page)>> /\ anchor \in Nat \X Docs /\ anchor # <<>>
  <2>1. Page # {} => LastOf(Page) \in Page
    BY <1>1, <1>5, PageCut
  <2> QED BY <1>4, <1>5, <2>1
<1>11. Page = {} => Remaining = {} /\ anchor = stream.anchor /\ items = {}
  BY <1>1, PageCut
<1> HIDE DEF items, anchor
<1>12. /\ stream' \in StreamStates /\ stream'.pc = "emit" /\ stream'.items = items /\ stream'.anchor = anchor
       /\ (stream'.more <=> Page # Remaining) /\ stream'.since = stream.since /\ stream'.max = stream.max
       /\ stream'.saved = stream.saved /\ stream'.began = stream.began
  <2>1. anchor \in {<<>>} \cup (Nat \X Docs)
    BY <1>4, <1>10, <1>11
  <2> DEFINE more == Page # Remaining
  <2>2. more \in BOOLEAN /\ (more <=> Page # Remaining)
    OBVIOUS
  <2>3. stream' = [stream EXCEPT !.pc = "emit", !.items = items, !.more = more,
                                 !.page = stream.page + 1, !.anchor = anchor]
    BY <1>7
  <2>4. stream.page + 1 \in Nat /\ stream \in StreamStates
    BY <1>1 DEF WalkTypes, StreamStates
  <2> HIDE DEF more
  <2> QED BY <1>8, <2>1, <2>2, <2>3, <2>4 DEF StreamStates
<1>13. WalkTypes'
  BY <1>1, <1>2, <1>12 DEF WalkTypes
<1>14. NumberInv'
  <2>1. anchor # <<>> => anchor[1] <= version[anchor[2]]
    BY <1>1, <1>4, <1>10, <1>11 DEF NumberInv
  <2>2. \A i \in items : i[1] <= newest
    BY <1>1, <1>5, <1>9 DEF NumberInv
  <2> QED BY <1>1, <1>2, <1>12, <2>1, <2>2 DEF NumberInv, Stamp
<1>15. Behind(cursor)' /\ Behind(stream.since)' /\ Behind(stream.saved)'
  BY <1>1, <1>2, <1>12 DEF Behind, Stamp
<1>16. ASSUME NEW d \in Docs, Passed(d)'
       PROVE  d \in Page \/ (Passed(d) /\ stream.anchor # <<>> /\ ~Follows(stream.anchor, d))
  <2>1. version[d] > 0 /\ stream.since <= Stamp(version[d]) /\ d \in Listed(stream.since)
    BY <1>2, <1>4, <1>12, <1>16 DEF Passed, Listed, Stamp
  <2>2. (anchor # <<>> /\ ~Follows(anchor, d)) \/ Page = Remaining
    BY <1>2, <1>12, <1>16 DEF Passed, Follows, Earlier, Stamp
  <2>3. CASE d \in Remaining /\ d \notin Page
    <3>1. Follows(anchor, d)
      BY <1>1, <1>10, <1>11, <2>3, PageCut
    <3> QED BY <2>2, <2>3, <3>1
  <2>4. CASE d \notin Remaining
    BY <1>5, <2>1, <2>4 DEF Passed
  <2> QED BY <2>3, <2>4
<1>17. \A d \in Page : Taken(d)'
  BY <1>2, <1>5, <1>8, <1>12 DEF Taken
<1>18. \A d \in Docs : Taken(d) => Taken(d)'
  BY <1>2, <1>3 DEF Taken
<1>19. ASSUME provider = "linear", NEW d \in Docs, stream.anchor # <<>>, ~Follows(stream.anchor, d), Topmost(d)
       PROVE  Topmost(d)'
  <2>1. stream.anchor \in Nat \X Docs /\ stream.anchor[1] <= version[stream.anchor[2]]
    BY <1>1, <1>4, <1>19 DEF NumberInv
  <2>2. Stamp(stream.anchor[1]) <= Stamp(version[d])
    BY <1>4, <1>19, <2>1, PointsOrdered
  <2>3. \A e \in Page : Follows(stream.anchor, e) /\ e \in Docs
    BY <1>5, <1>19
  <2>4. \A e \in Page : Stamp(version[e]) <= Stamp(stream.anchor[1])
    BY <1>4, <1>19, <2>1, <2>3, PointsOrdered
  <2>5. Stamp(stream.anchor[1]) \in Nat
    BY <2>1, StampsGrow
  <2>6. \A e \in Page : Stamp(version[e]) <= Stamp(version[d])
    BY <1>4, <2>2, <2>3, <2>4, <2>5
  <2>7. \A i \in items : Stamp(i[1]) <= Stamp(version[d])
    BY <1>9, <2>6
  <2> QED BY <1>2, <1>12, <1>19, <2>7 DEF Topmost, Stamp
<1>20. provider = "granola" /\ stream.more => \A d \in Docs : Passed(d) => Taken(d)
  BY <1>1, <1>2 DEF OldestFirst, Walking
<1>21. \A d \in Docs : Passed(d)' => Taken(d)' \/ Topmost(d)'
  <2> SUFFICES ASSUME NEW d \in Docs, Passed(d)', d \notin Page PROVE Taken(d)' \/ Topmost(d)'
    BY <1>17
  <2>1. Passed(d) /\ stream.anchor # <<>> /\ ~Follows(stream.anchor, d)
    BY <1>16
  <2>2. Taken(d) \/ Topmost(d)
    BY <1>1, <1>2, <2>1 DEF WalkInv, Walking
  <2>3. CASE provider = "linear"
    BY <1>18, <1>19, <2>1, <2>2, <2>3
  <2>4. CASE provider = "granola"
    BY <1>3, <1>18, <1>20, <2>1, <2>4
  <2> QED BY <1>4, <2>3, <2>4
<1>22. stream.began = newest => \A d \in Docs : Passed(d)' => Taken(d)'
  BY <1>1, <1>2, <1>16, <1>17, <1>18 DEF WalkInv, Walking
<1>23. WalkInv'
  BY <1>2, <1>12, <1>21, <1>22 DEF WalkInv, Walking
<1>24. ASSUME provider = "granola" PROVE OldestFirst'
  <2>1. \A d \in Docs : Passed(d)' => Taken(d)'
    BY <1>3, <1>16, <1>17, <1>18, <1>20, <1>24
  <2>2. \A e \in Page : anchor # <<>> /\ Stamp(version[e]) <= Stamp(anchor[1])
    <3> TAKE e \in Page
    <3>1. LastOf(Page) \in Docs /\ e \in Docs /\ anchor = <<version[LastOf(Page)], LastOf(Page)>> /\ anchor # <<>>
      BY <1>5, <1>10
    <3>2. e = LastOf(Page) \/ Earlier(version[e], e, version[LastOf(Page)], LastOf(Page))
      BY <1>1, <1>5, PageCut
    <3>3. Stamp(version[e]) <= Stamp(version[LastOf(Page)])
      BY <1>4, <1>24, <3>1, <3>2 DEF Earlier
    <3> QED BY <3>1, <3>3
  <2>3. \A i \in items : anchor # <<>> /\ Stamp(i[1]) <= Stamp(anchor[1])
    BY <1>9, <2>2
  <2>4. stream.max = stream.since \/ (anchor # <<>> /\ stream.max <= Stamp(anchor[1]))
    <3>1. CASE Page = {}
      BY <1>1, <1>2, <1>11, <1>24, <3>1 DEF OldestFirst, Walking
    <3>2. CASE Page # {} /\ stream.anchor # <<>>
      <4>1. stream.anchor \in Nat \X Docs /\ stream.anchor[1] <= version[stream.anchor[2]]
        BY <1>1, <1>4, <3>2 DEF NumberInv
      <4>2. Follows(stream.anchor, LastOf(Page))
        BY <1>5, <1>10, <3>2
      <4>3. Stamp(stream.anchor[1]) <= Stamp(version[LastOf(Page)])
        BY <1>4, <1>10, <1>24, <3>2, <4>1, <4>2, PointsOrdered
      <4>4. Stamp(stream.anchor[1]) \in Nat /\ Stamp(version[LastOf(Page)]) \in Nat
        BY <1>4, <1>10, <3>2, <4>1, StampsGrow
      <4>5. stream.max = stream.since \/ stream.max <= Stamp(stream.anchor[1])
        BY <1>1, <1>2, <1>24 DEF OldestFirst, Walking
      <4> QED BY <1>4, <1>10, <3>2, <4>3, <4>4, <4>5
    <3>3. CASE stream.anchor = <<>>
      BY <1>1, <1>2, <1>24, <3>3 DEF OldestFirst, Walking
    <3> QED BY <3>1, <3>2, <3>3
  <2>5. Page # Remaining /\ anchor # <<>> => Stamp(anchor[1]) < Stamp(newest + 1)
    <3> SUFFICES ASSUME Page # Remaining PROVE Stamp(anchor[1]) < Stamp(newest + 1)
      OBVIOUS
    <3>1. Page # {} /\ LastOf(Page) \in Docs /\ anchor = <<version[LastOf(Page)], LastOf(Page)>>
      BY <1>10, <1>11
    <3>2. PICK f \in Remaining \ Page : Follows(anchor, f)
      BY <1>1, <1>5, <3>1, PageCut
    <3>3. f \in Docs /\ f # LastOf(Page) /\ version[f] > 0
      BY <1>4, <1>5, <1>10, <3>1, <3>2 DEF Listed
    <3> DEFINE l == version[LastOf(Page)]
               u == version[f]
    <3>4. l \in Nat /\ u \in Nat /\ l # u /\ l <= newest /\ u <= newest
      BY <1>1, <1>4, <3>1, <3>3 DEF NumberInv
    <3>5. Stamp(l) <= Stamp(u)
      <4>1. Stamp(l) \in Nat /\ Stamp(u) \in Nat
        BY <3>4, StampsGrow
      <4>2. Earlier(l, LastOf(Page), u, f)
        BY <3>1, <3>2 DEF Follows
      <4> HIDE DEF l, u
      <4> QED BY <1>24, <4>1, <4>2 DEF Earlier
    <3>6. Granularity <= 2
      BY <1>24 DEF Keeps
    <3> HIDE DEF l, u
    <3>7. newest + 1 \in Nat /\ l < newest + 1 /\ u < newest + 1
      BY <1>4, <3>4
    <3>8. CASE l < u
      <4>1. Stamp(l) < Stamp(newest + 1)
        BY <3>4, <3>6, <3>8, <3>7, StampsPart
      <4> QED BY <3>1, <4>1 DEF l
    <3>9. CASE u < l
      <4>1. Stamp(u) < Stamp(newest + 1)
        BY <3>4, <3>6, <3>9, <3>7, StampsPart
      <4>2. Stamp(l) \in Nat /\ Stamp(u) \in Nat /\ Stamp(newest + 1) \in Nat
        BY <3>4, <3>7, StampsGrow
      <4> QED BY <3>1, <3>5, <4>1, <4>2 DEF l
    <3> QED BY <3>4, <3>8, <3>9
  <2> QED BY <1>2, <1>12, <2>1, <2>3, <2>4, <2>5 DEF OldestFirst, Walking, Stamp
<1>25. OldestFirst'
  BY <1>2, <1>24 DEF OldestFirst
<1> QED BY <1>13, <1>14, <1>15, <1>23, <1>25 DEF PagingInv

(* The inductive invariant of the walks over Linear, and over Granola where no
   more than two versions share a stamp. *)
THEOREM PagingInvariant == Spec => []PagingInv
<1>1. Init => PagingInv
  <2> SUFFICES ASSUME Init, Keeps PROVE PagingInv
    BY DEF PagingInv
  <2>1. /\ stream \in StreamStates /\ stream.pc = "idle" /\ stream.since = 0 /\ stream.saved = 0
        /\ stream.max = 0 /\ stream.began = 0 /\ stream.anchor = <<>> /\ stream.items = {}
    BY DEF Init, Idle, StreamStates
  <2>2. /\ \A d \in Docs : version[d] = 0
        /\ version \in [Docs -> Nat] /\ newest = 0 /\ cursor = 0 /\ landed = {}
    BY DEF Init
  <2>3. Stamp(0) \in Nat
    BY StampsGrow
  <2>4. WalkTypes /\ NumberInv
    BY <2>1, <2>2, <2>3 DEF WalkTypes, NumberInv, Keeps
  <2>5. Behind(cursor) /\ Behind(stream.since) /\ Behind(stream.saved)
    BY <2>1, <2>2, <2>3 DEF Behind
  <2>6. WalkInv /\ OldestFirst
    BY <2>1 DEF WalkInv, OldestFirst, Walking
  <2> QED BY <2>4, <2>5, <2>6 DEF PagingInv
<1>2. PagingInv /\ [Next]_vars => PagingInv'
  <2> SUFFICES ASSUME PagingInv, [Next]_vars PROVE PagingInv'
    OBVIOUS
  <2>1. CASE \E d \in Docs : OriginEdits(d)
    BY <2>1, OriginKeepsWalk
  <2>2. CASE (\E since \in {0, cursor} : RunStarts(since)) \/ RunAborts \/ RunReturns \/ RunDies
    BY <2>2, RunKeepsWalk
  <2>3. CASE FetchPage
    BY <2>3, FetchKeepsWalk
  <2>4. CASE EmitItem
    BY <2>4, EmitKeepsWalk
  <2>5. CASE PageEnds
    BY <2>5, PageEndKeepsWalk
  <2>6. CASE UNCHANGED vars
    BY <2>6 DEF vars, PagingInv, Keeps, WalkTypes, NumberInv, Behind, WalkInv, OldestFirst, Walking,
                Passed, Taken, Topmost, Follows, Earlier, Stamp
  <2>7. Rest => UNCHANGED vars
    BY DEF Rest
  <2> QED BY <2>1, <2>2, <2>3, <2>4, <2>5, <2>6, <2>7 DEF Next
<1> QED BY <1>1, <1>2, PTL DEF Spec

(* A checkpoint is a low-water mark, wherever a run is cut off and however the
   origin is edited meanwhile: CheckpointSafe, for Linear, and for Granola where
   no more than two versions share a stamp. *)
THEOREM CheckpointsAreSafe == Spec => [](Keeps => CheckpointSafe)
<1>1. PagingInv => (Keeps => CheckpointSafe)
  BY DEF PagingInv, Behind, CheckpointSafe
<1> QED BY <1>1, PagingInvariant, PTL

(* A run over an origin that holds still leaves nothing behind, however the runs
   before it were cut off: QuietRunLandsAll, under the same condition. *)
THEOREM QuietRunsLandAll == Spec => [](Keeps => QuietRunLandsAll)
<1>1. PagingInv => (Keeps => QuietRunLandsAll)
  <2> SUFFICES ASSUME PagingInv, Keeps, stream.pc = "drained", stream.began = newest,
                      NEW d \in Docs, version[d] > 0
               PROVE  version[d] \in landed
    BY DEF QuietRunLandsAll
  <2>1. WalkTypes /\ Behind(stream.since) /\ WalkInv
    BY DEF PagingInv
  <2>2. Stamp(version[d]) \in Nat /\ stream.since \in Nat
    BY <2>1, StampsGrow DEF WalkTypes, StreamStates
  <2>3. CASE Stamp(version[d]) < stream.since
    BY <2>1, <2>3 DEF Behind
  <2>4. CASE ~(Stamp(version[d]) < stream.since)
    <3>1. Passed(d)
      BY <2>2, <2>4 DEF Passed
    <3>2. Taken(d) /\ stream.items = {}
      BY <2>1, <3>1 DEF WalkInv
    <3> QED BY <3>2 DEF Taken
  <2> QED BY <2>3, <2>4
<1> QED BY <1>1, PagingInvariant, PTL
=============================================================================
