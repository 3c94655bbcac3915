--------------------------- MODULE AgenticLinking ---------------------------
(***************************************************************************)
(* Work items that arrive by webhook (GitHub, Linear) and the pipeline     *)
(* that links them: WebhookLandingService lands each artifact of a         *)
(* delivery in a transaction of its own and starts, without waiting, one   *)
(* AgenticLinking workflow for every work item the landing created; its    *)
(* activity scans for identifiers, gathers semantic candidates, asks the   *)
(* model and writes relates_to edges, each database part a transaction of  *)
(* its own.  The sender repeats a delivery that was not answered with 200. *)
(***************************************************************************)
EXTENDS Naturals, FiniteSets, Sequences, SequencesExt

CONSTANTS Items,        \* work items; one artifact each, the source has its name
          Deliveries,   \* [delivery -> sequence of its items]
          Mentions,     \* [Items -> items whose identifier its text has]
          Notes,        \* facts evidenced by a source: [id, source]
          ScanLimit, CandidateLimit, MaxAttempts, MaxTries,
          MaxJudged     \* bounds: of the scan, the candidates, the retries,
                        \* the times a delivery is sent, the nodes judged

ASSUME LinkingAssumption ==
  /\ \A d \in DOMAIN Deliveries : Deliveries[d] \in Seq(Items)
  /\ Mentions \in [Items -> SUBSET Items]
  /\ {ScanLimit, CandidateLimit, MaxAttempts} \subseteq Nat \ {0}
  /\ MaxTries \in [DOMAIN Deliveries -> Nat]

VARIABLES created,    \* sequence of the committed work items, oldest first
          notes,      \* committed facts
          links,      \* relationships: [from, to, confidence]
          delivery,   \* [DOMAIN Deliveries -> request under way]
          flow,       \* [Items -> its workflow]
          approved,   \* history: <<item, node>> some judgment approved
          present     \* history: [Items -> items there when it was created]

linkingVars == <<created, notes, links, delivery, flow, approved, present>>

Landed == Range(created)
NoRequest == [pc |-> "idle", at |-> 1, tries |-> 0]
Answered  == [NoRequest EXCEPT !.pc = "answered"]
NoFlow == [pc |-> "none", attempts |-> 0, matches |-> {}, offered |-> {}, chosen |-> {}]
(* A node is the text "entity" or "fact" with the id of its row. *)
EntityNode(i) == <<"entity", i>>
FactNode(f)   == <<"fact", f.id>>

LinkingInit ==
  /\ created = <<>> /\ notes = {} /\ links = {} /\ approved = {}
  /\ delivery = [d \in DOMAIN Deliveries |-> NoRequest]
  /\ flow = [i \in Items |-> NoFlow]
  /\ present = [i \in Items |-> {}]

-----------------------------------------------------------------------------
(* The receiver: the signature, then whether the payload carries an artifact
   and a scope. *)
Receives(d) ==
  /\ delivery[d].pc \in {"idle", "failed"} /\ delivery[d].tries < MaxTries[d]
  /\ \/ delivery' = [delivery EXCEPT ![d] = [pc |-> "verified", at |-> 1, tries |-> @.tries + 1]]
     \/ delivery' = [delivery EXCEPT ![d] = Answered]
  /\ UNCHANGED <<created, notes, links, flow, approved, present>>

(* The engagement whose configuration claims the scope, its retention policy
   and credential: no engagement, and the delivery is ignored. *)
Routes(d) ==
  /\ delivery[d].pc = "verified"
  /\ \/ delivery' = [delivery EXCEPT ![d].pc = "landing"]
     \/ delivery' = [delivery EXCEPT ![d] = Answered]
  /\ UNCHANGED <<created, notes, links, flow, approved, present>>

Starts(i) == flow[i].pc \in {"none", "done", "failed"}

(* One artifact: its source and its entity, unless they are there; a start of
   the workflow that fails is logged and forgotten. *)
LandsNext(d) ==
  /\ delivery[d].pc = "landing" /\ delivery[d].at <= Len(Deliveries[d])
  /\ LET i == Deliveries[d][delivery[d].at]
     IN IF i \in Landed THEN UNCHANGED <<created, flow, present>>
        ELSE /\ created' = Append(created, i)
             /\ present' = [present EXCEPT ![i] = Landed]
             /\ \/ UNCHANGED flow
                \/ Starts(i) /\ flow' = [flow EXCEPT ![i] = [NoFlow EXCEPT !.pc = "queued"]]
  /\ delivery' = [delivery EXCEPT ![d].at = delivery[d].at + 1]
  /\ UNCHANGED <<notes, links, approved>>

(* resolveAcl, a transaction or the process fails: the answer is not 200. *)
DeliveryFails(d) ==
  /\ delivery[d].pc \in {"verified", "landing"}
  /\ delivery' = [delivery EXCEPT ![d].pc = "failed"]
  /\ UNCHANGED <<created, notes, links, flow, approved, present>>

Answers(d) ==
  /\ delivery[d].pc = "landing" /\ delivery[d].at > Len(Deliveries[d])
  /\ delivery' = [delivery EXCEPT ![d] = Answered]
  /\ UNCHANGED <<created, notes, links, flow, approved, present>>

(* An extraction writes the facts of a source, or replaces them. *)
Extracts(i) ==
  /\ i \in Landed
  /\ \E found \in SUBSET {f \in Notes : f.source = i} :
       notes' = {f \in notes : f.source # i} \cup found
  /\ notes' # notes
  /\ UNCHANGED <<created, links, delivery, flow, approved, present>>

-----------------------------------------------------------------------------
(* The activity. *)
At(i, pc) == flow[i].pc = pc

Attempt(i) ==
  /\ At(i, "queued") /\ flow[i].attempts < MaxAttempts
  /\ flow' = [flow EXCEPT ![i] = [NoFlow EXCEPT !.pc = "loading", !.attempts = flow[i].attempts + 1]]
  /\ UNCHANGED <<created, notes, links, delivery, approved, present>>

(* The identifier scan: the ScanLimit youngest of the other work items. *)
Younger(i, n) == {m \in (n + 1)..Len(created) : created[m] # i}
Scanned(i) ==
  {created[n] : n \in {m \in DOMAIN created : created[m] # i /\ Cardinality(Younger(i, m)) < ScanLimit}}

Loads(i) ==
  /\ At(i, "loading")
  /\ flow' = [flow EXCEPT ![i].pc = "gathering", ![i].matches = Scanned(i) \cap Mentions[i]]
  /\ UNCHANGED <<created, notes, links, delivery, approved, present>>

(* The semantic candidates: facts evidenced by, and work items named by, the
   sources nearest to the text, its own excluded; facts come first. *)
Gathers(i) ==
  /\ At(i, "gathering")
  /\ \E near \in SUBSET (Landed \ {i}) :
       LET facts == {FactNode(f) : f \in {g \in notes : g.source \in near}}
           items == {EntityNode(j) : j \in near}
       IN \E offered \in SUBSET (facts \cup items) :
            /\ Cardinality(offered) <= CandidateLimit
            /\ offered # facts \cup items => Cardinality(offered) = CandidateLimit
            /\ offered \cap items # {} => facts \subseteq offered
            /\ flow' = [flow EXCEPT ![i].offered = offered,
                                    ![i].pc = IF offered = {} THEN "writing" ELSE "judging"]
  /\ UNCHANGED <<created, notes, links, delivery, approved, present>>

(* The judgment: the nodes the model relates with a confidence at or above the
   threshold; it may name one that was not offered. *)
WasOffered(i, node) == node \in flow[i].offered

AllNodes == {EntityNode(j) : j \in Items} \cup {FactNode(f) : f \in Notes}

Judges(i) ==
  /\ At(i, "judging")
  /\ \E likely \in {s \in SUBSET AllNodes : Cardinality(s) <= MaxJudged} :
       /\ flow' = [flow EXCEPT ![i].pc = "writing", ![i].chosen = {n \in likely : WasOffered(i, n)}]
       /\ approved' = approved \cup {<<i, n>> : n \in likely \cap flow[i].offered}
  /\ UNCHANGED <<created, notes, links, delivery, present>>

(* A judgment that fails is logged; the identifier edges are written anyway. *)
MutForgetsMatches(i) == [flow[i] EXCEPT !.pc = "writing", !.matches = {}]
WithoutJudgment(i) == [flow[i] EXCEPT !.pc = "writing"]

JudgmentFails(i) ==
  /\ At(i, "judging")
  /\ flow' = [flow EXCEPT ![i] = WithoutJudgment(i)]
  /\ UNCHANGED <<created, notes, links, delivery, approved, present>>

(* One transaction: identifier edges first, then the approved ones; an edge
   that is there is left as it is. *)
Linked(i, node) == \E e \in links : e.from = i /\ e.to = node
Writes(i) ==
  /\ At(i, "writing")
  /\ LET matched == {EntityNode(j) : j \in flow[i].matches}
         edge(n, c) == [from |-> i, to |-> n, confidence |-> c]
     IN links' = links \cup {edge(n, "none") : n \in {m \in matched : ~Linked(i, m)}}
                       \cup {edge(n, "high") : n \in {m \in flow[i].chosen \ matched : ~Linked(i, m)}}
  /\ \E pc \in {"done", "retry"} :
       flow' = [flow EXCEPT ![i] = [NoFlow EXCEPT !.pc = pc, !.attempts = flow[i].attempts]]
  /\ UNCHANGED <<created, notes, delivery, approved, present>>

(* The attempt dies before or after its write, or times out. *)
AttemptFails(i) ==
  /\ flow[i].pc \in {"loading", "gathering", "judging", "writing", "retry"}
  /\ flow' = [flow EXCEPT ![i] = [NoFlow EXCEPT !.attempts = flow[i].attempts,
                    !.pc = IF flow[i].attempts < MaxAttempts THEN "queued" ELSE "failed"]]
  /\ UNCHANGED <<created, notes, links, delivery, approved, present>>

LinkingNext ==
  \/ \E d \in DOMAIN Deliveries : Receives(d) \/ Routes(d) \/ LandsNext(d) \/ DeliveryFails(d) \/ Answers(d)
  \/ \E i \in Items : \/ Extracts(i) \/ Attempt(i) \/ Loads(i) \/ Gathers(i)
                      \/ Judges(i) \/ JudgmentFails(i) \/ Writes(i) \/ AttemptFails(i)

LinkingSpec == LinkingInit /\ [][LinkingNext]_linkingVars

-----------------------------------------------------------------------------
(* Every agentic edge rests on something: an identifier in the text of the work
   item, or a judgment that approved exactly that node after it was offered,
   over retries, failed judgments and facts replaced meanwhile; and the edges
   the text alone proves carry no confidence. *)
EdgesJustified ==
  \A e \in links :
    IF e.confidence = "none" THEN e.to \in {EntityNode(j) : j \in Mentions[e.from] \ {e.from}}
    ELSE <<e.from, e.to>> \in approved

(* A workflow that completed linked every work item its text names that was
   there before it, as long as the scan reaches that far back, whatever became
   of the model's judgment. *)
CompletedLinksMentions ==
  \A i \in Items : flow[i].pc = "done" /\ Len(created) <= ScanLimit + 1 =>
    \A j \in (Mentions[i] \cap present[i]) \ {i} : Linked(i, EntityNode(j))
=============================================================================
