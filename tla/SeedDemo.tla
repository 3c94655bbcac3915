------------------------------ MODULE SeedDemo ------------------------------
(* The script that seeds a demo engagement (seed-demo.ts, orchestrate.ts): it
   makes an engagement, runs the connectors' syncs on fixtures, has a worker
   extract each transcript, bakes the decision it finds into the tickets and pull
   requests and only then ingests those, and pushes a custom integration's
   payloads.  Every step is a transaction of its own, so the script can stop
   between any two; scripts may run beside one another, one of them resetting
   what another is building. *)
EXTENDS Naturals, FiniteSets

CONSTANTS
  Seeders,       \* runs of the script, in no particular order
  Meetings,      \* Granola documents with a transcript
  Notes,         \* Granola documents without
  Issues, Pulls, Payloads,
  MarkerOf,      \* [marked issues and pull requests -> the meeting decided in]
  Nothing

(* Only tickets and pull requests are baked; nothing is of two kinds. *)
ASSUME SeedAssumption ==
  /\ DOMAIN MarkerOf \subseteq Issues \cup Pulls
  /\ \A i \in DOMAIN MarkerOf : MarkerOf[i] \in Meetings
  /\ (Issues \cup Pulls) \cap (Meetings \cup Notes \cup Payloads) = {}
  /\ Issues \cap Pulls = {}
  /\ \A f \in [demo : Seeders, meeting : Meetings, n : 1..2] : f # Nothing

VARIABLES
  tenants,       \* development tenants, by the seeder that inserted each
  demos,         \* engagements of the demo's name: [by, tenant]
  ingested,        \* sources rows: [demo, item, fact], fact being the marker baked in
  decided,       \* decision facts: [demo, meeting, n]
  extracting,    \* extraction workflows started and not ended: <<demo, meeting>>
  seeder,        \* [Seeders -> the script's step and what it holds]
  overlapped     \* two seeders were at work at once

seedVars == <<tenants, demos, ingested, decided, extracting, seeder, overlapped>>

Bakes(i) == i \in DOMAIN MarkerOf
Sync == [granola |-> Meetings \cup Notes, linear |-> Issues, github |-> Pulls, custom |-> Payloads]
NoSeed == [pc |-> "idle", reset |-> FALSE, tenant |-> Nothing, found |-> Nothing,
           todo |-> {}, extracted |-> {}, picked |-> [m \in Meetings |-> Nothing]]

SeedInit ==
  /\ tenants = {} /\ demos = {} /\ ingested = {} /\ decided = {} /\ extracting = {}
  /\ seeder = [s \in Seeders |-> NoSeed] /\ overlapped = FALSE

AtWork(s) == seeder[s].pc \notin {"idle", "stopped", "exists", "seeded"}
Goes(s, r) == seeder' = [seeder EXCEPT ![s] = r]
To(s, pc) == Goes(s, [seeder[s] EXCEPT !.pc = pc])
Stops(s) == Goes(s, [NoSeed EXCEPT !.pc = "stopped"])
Alive(s) == \E d \in demos : d.by = s   \* its engagement was not reset away
Demo(d) == {x \in ingested : x.demo = d}
Has(s, at) == {x.item : x \in Demo(s)} \cap Sync[at]

---------------------------------------------------------------------------
SeedStarts(s, reset) ==
  /\ seeder[s].pc = "idle"
  /\ Goes(s, [NoSeed EXCEPT !.pc = "tenant", !.reset = reset])
  /\ overlapped' = (overlapped \/ \E o \in Seeders \ {s} : AtWork(o) \/ \E e \in extracting : e[1] = o)
  /\ UNCHANGED <<tenants, demos, ingested, decided, extracting>>

(* ensureDevTenant: a look, then an insert; nothing makes the name unique. *)
LooksForTenant(s) ==
  /\ seeder[s].pc = "tenant"
  /\ IF tenants = {} THEN To(s, "newTenant")
     ELSE \E t \in tenants : Goes(s, [seeder[s] EXCEPT !.pc = "look", !.tenant = t])
  /\ UNCHANGED <<tenants, demos, ingested, decided, extracting, overlapped>>
InsertsTenant(s) ==
  /\ seeder[s].pc = "newTenant"
  /\ tenants' = tenants \cup {s}
  /\ Goes(s, [seeder[s] EXCEPT !.pc = "look", !.tenant = s])
  /\ UNCHANGED <<demos, ingested, decided, extracting, overlapped>>

(* findExistingEngagement: any one of that name will do. *)
Looks(s) == {d \in demos : d.tenant = seeder[s].tenant}
LooksForDemo(s) ==
  /\ seeder[s].pc = "look"
  /\ IF Looks(s) = {} THEN To(s, "create")
     ELSE \E d \in Looks(s) :
            Goes(s, [seeder[s] EXCEPT !.pc = IF seeder[s].reset THEN "reset" ELSE "exists",
                                      !.found = d.by])
  /\ UNCHANGED <<tenants, demos, ingested, decided, extracting, overlapped>>

(* --reset deletes the engagement, which cascades to every row of it. *)
Resets(s) ==
  /\ seeder[s].pc = "reset"
  /\ LET d == seeder[s].found
     IN /\ demos' = {x \in demos : x.by # d}
        /\ ingested' = ingested \ Demo(d)
        /\ decided' = {f \in decided : f.demo # d}
  /\ Goes(s, [seeder[s] EXCEPT !.pc = "create", !.found = Nothing])
  /\ UNCHANGED <<tenants, extracting, overlapped>>
CreatesEngagement(s) ==
  /\ seeder[s].pc = "create"
  /\ demos' = demos \cup {[by |-> s, tenant |-> seeder[s].tenant]}
  /\ To(s, "config")
  /\ UNCHANGED <<tenants, ingested, decided, extracting, overlapped>>

(* seedConnectorConfig and the start of a sync: both need the engagement. *)
StartsSync(s, at) == Goes(s, [seeder[s] EXCEPT !.pc = at, !.todo = Sync[at]])
ConfiguresConnectors(s) ==
  /\ seeder[s].pc = "config" /\ Alive(s)
  /\ StartsSync(s, "granola")
  /\ UNCHANGED <<tenants, demos, ingested, decided, extracting, overlapped>>

(* One artifact of the running sync lands, with the marker baked into it. *)
MarkerIn(s, i) == IF Bakes(i) THEN seeder[s].picked[MarkerOf[i]] ELSE Nothing
Ingests(s) ==
  /\ seeder[s].pc \in DOMAIN Sync /\ Alive(s)
  /\ \E i \in seeder[s].todo :
       /\ ingested' = ingested \cup {[demo |-> s, item |-> i, fact |-> MarkerIn(s, i)]}
       /\ Goes(s, [seeder[s] EXCEPT !.todo = @ \ {i}])
  /\ UNCHANGED <<tenants, demos, decided, extracting, overlapped>>

(* What comes after a sync: extraction, resolving the decisions, the custom
   integration if the demo has one, the summary. *)
After == [granola |-> "extract", linear |-> "githubMarkers", github |-> "pushes", custom |-> "summary"]
SyncDrains(s) ==
  /\ seeder[s].pc \in DOMAIN Sync /\ seeder[s].todo = {}
  /\ To(s, After[seeder[s].pc])
  /\ UNCHANGED <<tenants, demos, ingested, decided, extracting, overlapped>>

(* runExtraction: one workflow after the other, each waited for. *)
StartsExtraction(s) ==
  /\ seeder[s].pc = "extract"
  /\ \E m \in Meetings \ seeder[s].extracted :
       /\ extracting' = extracting \cup {<<s, m>>}
       /\ Goes(s, [seeder[s] EXCEPT !.pc = "waiting", !.extracted = @ \cup {m}])
  /\ UNCHANGED <<tenants, demos, ingested, decided, overlapped>>
(* The worker runs it whatever became of the script: the model finds no, one or
   two decisions; an engagement reset meanwhile fails it, as the model may. *)
WorkerExtracts ==
  \E e \in extracting :
    /\ extracting' = extracting \ {e}
    /\ \/ /\ Alive(e[1])
          /\ \E n \in 0..2 :
               decided' = decided \cup {[demo |-> e[1], meeting |-> e[2], n |-> k] : k \in 1..n}
          /\ IF seeder[e[1]].pc = "waiting" THEN To(e[1], "extract") ELSE UNCHANGED seeder
       \/ /\ IF seeder[e[1]].pc = "waiting" THEN Stops(e[1]) ELSE UNCHANGED seeder
          /\ UNCHANGED decided
    /\ UNCHANGED <<tenants, demos, ingested, overlapped>>
ExtractionDone(s) ==
  /\ seeder[s].pc = "extract" /\ seeder[s].extracted = Meetings
  /\ To(s, "linearMarkers")
  /\ UNCHANGED <<tenants, demos, ingested, decided, extracting, overlapped>>

(* findDecisionFactId, memoized by meeting: the script stops where the meeting
   did not land, was not extracted or yielded no decision. *)
Candidates(s, m) ==
  {f \in decided : f.demo = s /\ f.meeting = m /\ m \in Has(s, "granola") \cap seeder[s].extracted}
Wanted(s, items) == {MarkerOf[i] : i \in {j \in items : Bakes(j)}}
ResolvesDecision(s, pc, items) ==
  /\ seeder[s].pc = pc
  /\ \E m \in {w \in Wanted(s, items) : seeder[s].picked[w] = Nothing} :
       IF Candidates(s, m) = {} THEN Stops(s)
       ELSE \E f \in Candidates(s, m) : Goes(s, [seeder[s] EXCEPT !.picked[m] = f])
  /\ UNCHANGED <<tenants, demos, ingested, decided, extracting, overlapped>>
MutResolved(s, items) == TRUE
Resolved(s, items) == \A m \in Wanted(s, items) : seeder[s].picked[m] # Nothing
MarkersResolved(s) ==
  /\ \/ seeder[s].pc = "linearMarkers" /\ Resolved(s, Issues) /\ StartsSync(s, "linear")
     \/ seeder[s].pc = "githubMarkers" /\ Resolved(s, Pulls) /\ StartsSync(s, "github")
  /\ UNCHANGED <<tenants, demos, ingested, decided, extracting, overlapped>>

(* seedCustomIntegration inserts its row, then pushes through the connector. *)
CreatesIntegration(s) ==
  /\ seeder[s].pc = "pushes" /\ Alive(s)
  /\ StartsSync(s, "custom")
  /\ UNCHANGED <<tenants, demos, ingested, decided, extracting, overlapped>>
PrintsSummary(s) ==
  /\ seeder[s].pc = "summary" /\ To(s, "seeded")
  /\ UNCHANGED <<tenants, demos, ingested, decided, extracting, overlapped>>

(* An error, a kill, or a step that finds its engagement gone. *)
SeedStops(s) ==
  /\ AtWork(s) /\ Stops(s)
  /\ UNCHANGED <<tenants, demos, ingested, decided, extracting, overlapped>>

SeedNext ==
  \/ \E s \in Seeders :
       \/ \E reset \in BOOLEAN : SeedStarts(s, reset)
       \/ LooksForTenant(s) \/ InsertsTenant(s) \/ LooksForDemo(s) \/ Resets(s)
       \/ CreatesEngagement(s) \/ ConfiguresConnectors(s) \/ Ingests(s) \/ SyncDrains(s)
       \/ StartsExtraction(s) \/ ExtractionDone(s)
       \/ ResolvesDecision(s, "linearMarkers", Issues) \/ ResolvesDecision(s, "githubMarkers", Pulls)
       \/ MarkersResolved(s) \/ CreatesIntegration(s) \/ PrintsSummary(s) \/ SeedStops(s)
  \/ WorkerExtracts

SeedSpec == SeedInit /\ [][SeedNext]_seedVars

---------------------------------------------------------------------------
(* No ticket or pull request is ever ingested with a marker that points at
   nothing, wherever scripts stop, overlap or reset one another: orchestrate.ts
   refuses rather than leave the dangling marker its dataset is there to disprove. *)
MarkersPoint ==
  \A x \in ingested : Bakes(x.item) => x.fact \in decided /\ x.fact.demo = x.demo

(* A script that printed its summary left a whole demo, unless it was reset away. *)
SummaryMeansWhole ==
  \A s \in Seeders : seeder[s].pc = "seeded" /\ Alive(s) =>
    \A at \in DOMAIN Sync : Has(s, at) = Sync[at]

(* Scripts run one after another leave one demo in one tenant, wherever each of
   them stopped. *)
OneDemo == ~overlapped => Cardinality(demos) <= 1 /\ Cardinality(tenants) <= 1
=============================================================================
