---------------------------- MODULE CryptoShred ----------------------------
(***************************************************************************)
(* Crypto-shredding one engagement end to end: POST :id/crypto-shred       *)
(* destroys the DEK synchronously (EngagementKey's shred transaction) and  *)
(* then starts, best effort, the Temporal workflow that destroys it again  *)
(* (a no-op by then) and blanks the dead ciphertext table by table, batch  *)
(* by batch.  Requests race; activities are retried; an attempt the server *)
(* gave up on may go on running beside its successor.                      *)
(* apps/api engagements.controller.ts and temporal.module.ts,              *)
(* apps/workers workflows/crypto-shred.ts and activities/crypto-shred.ts,  *)
(* packages/db/src/crypto-shred-purge.ts.                                  *)
(***************************************************************************)
EXTENDS EngagementKey, FiniteSets, FiniteSetsExt

CONSTANTS Requests,        \* POST :id/crypto-shred calls
          MaxExecutions,   \* bound: workflow executions started
          ShredAttempts,   \* maximumAttempts of shredEngagementDekActivity
          PurgeAttempts,   \* maximumAttempts of purgeShreddedCiphertextActivity
          BatchSize,       \* rows blanked per transaction
          Tables,          \* number of tables with encrypted columns
          TableOf          \* [Rows -> 1..Tables]

Executions == 1..MaxExecutions
ShredActs  == Executions \X (1..ShredAttempts)
PurgeActs  == Executions \X (1..PurgeAttempts)

ASSUME ShredAssumption ==
  /\ MaxExecutions \in Nat /\ ShredAttempts \in Nat \ {0}
  /\ PurgeAttempts \in Nat \ {0} /\ BatchSize \in Nat \ {0}
  /\ Tables \in Nat \ {0} /\ TableOf \in [Rows -> 1..Tables]
  /\ Rows \subseteq Nat /\ IsFiniteSet(Rows)
  /\ Shredders = Requests \cup ShredActs

VARIABLES request,      \* [Requests -> where the HTTP handler stands]
          workflow,     \* [Executions -> [phase, attempt of its activity]]
          purge,        \* [PurgeActs -> where that purge attempt stands]
          purgeAudits   \* access_log rows 'crypto_shred_purge_completed'

flowVars == <<request, workflow, purge, purgeAudits>>
vars == <<keyVars, flowVars>>

NoExecution == [phase |-> "none", attempt |-> 0]
IdlePurge   == [pc |-> "idle", table |-> 0, batch |-> {}]

Init ==
  /\ KeyInit
  /\ request = [q \in Requests |-> "shredding"]
  /\ workflow = [e \in Executions |-> NoExecution]
  /\ purge = [p \in PurgeActs |-> IdlePurge]
  /\ purgeAudits = 0

-----------------------------------------------------------------------------
(* The HTTP handler. *)

RequestShred(q) ==
  /\ request[q] = "shredding"
  /\ ShredStep(q)
  /\ UNCHANGED flowVars

(* A failed shred transaction fails the request. *)
RequestFails(q) ==
  /\ request[q] = "shredding" /\ shredder[q] = "failed"
  /\ request' = [request EXCEPT ![q] = "answered"]
  /\ UNCHANGED <<keyVars, workflow, purge, purgeAudits>>

(* One workflow id per engagement: a running execution makes start fail, a
   closed one does not. *)
Running(e) == workflow[e].phase \in {"shred", "purge"}

StartExecution(e) ==
  /\ \A f \in Executions : ~Running(f)
  /\ workflow[e] = NoExecution
  /\ \A f \in 1..(e - 1) : workflow[f] # NoExecution
  /\ workflow' = [workflow EXCEPT ![e] = [phase |-> "shred", attempt |-> 1]]

(* TemporalCryptoShred.start, then the response.  Every failure (unreachable,
   already started, not configured) is swallowed, and so is a crash between
   the shred and the start; a start whose reply is lost still started. *)
RequestStartsPurge(q) ==
  /\ request[q] = "shredding" /\ shredder[q] = "done"
  /\ \/ /\ \E e \in Executions : StartExecution(e)
        /\ \E answer \in {"started", "answered"} :
             request' = [request EXCEPT ![q] = answer]
     \/ /\ request' = [request EXCEPT ![q] = "answered"]
        /\ UNCHANGED workflow
  /\ UNCHANGED <<keyVars, purge, purgeAudits>>

(* The execution is generally reachable: an operator may start it, on a live
   engagement too. *)
ExternalStart ==
  /\ \E e \in Executions : StartExecution(e)
  /\ UNCHANGED <<keyVars, request, purge, purgeAudits>>

-----------------------------------------------------------------------------
(* Temporal: an attempt that errors or times out is retried until its
   maximum, then the workflow fails. *)

NextAttempt(e, max) ==
  IF workflow[e].attempt < max
  THEN workflow' = [workflow EXCEPT ![e].attempt = @ + 1]
  ELSE workflow' = [workflow EXCEPT ![e].phase = "failed"]

InPhase(e, ph, i) == workflow[e].phase = ph /\ workflow[e].attempt = i

(* shredEngagementDekActivity: an attempt begins when it is the current one
   and runs on even after the server has given up on it. *)
ActivityShred(a) ==
  /\ shredder[a] = "idle" => InPhase(a[1], "shred", a[2])
  /\ ShredStep(a)
  /\ UNCHANGED flowVars

ShredActivityCompletes(e) ==
  /\ workflow[e].phase = "shred"
  /\ shredder[<<e, workflow[e].attempt>>] = "done"
  /\ workflow' = [workflow EXCEPT ![e] = [phase |-> "purge", attempt |-> 1]]
  /\ UNCHANGED <<keyVars, request, purge, purgeAudits>>

ShredActivityFails(e) ==
  /\ workflow[e].phase = "shred"
  /\ NextAttempt(e, ShredAttempts)
  /\ UNCHANGED <<keyVars, request, purge, purgeAudits>>

-----------------------------------------------------------------------------
(* purgeShreddedCiphertextActivity: re-check the status, blank every table,
   then audit. *)

PurgeCheck(p) ==
  /\ InPhase(p[1], "purge", p[2])
  /\ purge[p].pc = "idle"
  /\ IF engagement.status = "shredded"
     THEN /\ purge' = [purge EXCEPT ![p] = [@ EXCEPT !.pc = "select", !.table = 1]]
          /\ UNCHANGED workflow
     ELSE /\ purge' = [purge EXCEPT ![p].pc = "dead"]     \* EngagementNotShredded
          /\ workflow' = [workflow EXCEPT ![p[1]].phase = "failed"]
  /\ UNCHANGED <<keyVars, request, purgeAudits>>

(* The rows of a table that still carry ciphertext, the first BatchSize of
   them by id. *)
Unpurged(table) == {r \in Rows : TableOf[r] = table /\ sealed[r] # None}

Batch(table) ==
  {r \in Unpurged(table) : Cardinality({x \in Unpurged(table) : x < r}) < BatchSize}

(* A batch shorter than its limit is the last of its table. *)
MutFullBatchIsLast(batch) == Cardinality(batch) <= BatchSize
ShortBatch(batch) == Cardinality(batch) < BatchSize

MutTableStuck(st) == [pc |-> "select", table |-> st.table, batch |-> {}]
AfterTable(st) ==
  IF st.table < Tables
  THEN [pc |-> "select", table |-> st.table + 1, batch |-> {}]
  ELSE [pc |-> "audit", table |-> st.table, batch |-> {}]

PurgeSelect(p) ==
  /\ purge[p].pc = "select"
  /\ LET b == Batch(purge[p].table) IN
     purge' = [purge EXCEPT ![p] = IF b = {} THEN AfterTable(@)
                                   ELSE [@ EXCEPT !.pc = "update", !.batch = b]]
  /\ UNCHANGED <<keyVars, request, workflow, purgeAudits>>

(* The UPDATE of the selected ids commits; a short batch ends the table. *)
PurgeUpdate(p) ==
  /\ purge[p].pc = "update"
  /\ sealed' = [r \in Rows |-> IF r \in purge[p].batch THEN None ELSE sealed[r]]
  /\ purge' = [purge EXCEPT ![p] =
        IF ShortBatch(purge[p].batch)
        THEN AfterTable(@) ELSE [@ EXCEPT !.pc = "select", !.batch = {}]]
  /\ UNCHANGED <<engagement, session, rotation, shredder, audit,
                 request, workflow, purgeAudits>>

PurgeAudit(p) ==
  /\ purge[p].pc = "audit"
  /\ purgeAudits' = purgeAudits + 1
  /\ purge' = [purge EXCEPT ![p].pc = "done"]
  /\ UNCHANGED <<keyVars, request, workflow>>

(* A database error or the death of the worker ends an attempt. *)
PurgeDies(p) ==
  /\ purge[p].pc \in {"select", "update", "audit"}
  /\ purge' = [purge EXCEPT ![p] = [IdlePurge EXCEPT !.pc = "dead"]]
  /\ UNCHANGED <<keyVars, request, workflow, purgeAudits>>

PurgeActivityCompletes(e) ==
  /\ workflow[e].phase = "purge"
  /\ purge[<<e, workflow[e].attempt>>].pc = "done"
  /\ workflow' = [workflow EXCEPT ![e].phase = "completed"]
  /\ UNCHANGED <<keyVars, request, purge, purgeAudits>>

(* Error, or a heartbeat or start-to-close timeout of the current attempt. *)
PurgeActivityFails(e) ==
  /\ workflow[e].phase = "purge"
  /\ NextAttempt(e, PurgeAttempts)
  /\ UNCHANGED <<keyVars, request, purge, purgeAudits>>

-----------------------------------------------------------------------------
PurgeProgress(p) == PurgeCheck(p) \/ PurgeSelect(p) \/ PurgeUpdate(p) \/ PurgeAudit(p)

RequestStep(q) == RequestShred(q) \/ RequestFails(q) \/ RequestStartsPurge(q)

WorkflowStep(e) ==
  \/ ShredActivityCompletes(e)
  \/ ShredActivityFails(e)
  \/ PurgeActivityCompletes(e)
  \/ PurgeActivityFails(e)

(* The current attempt has ended without an answer. *)
AttemptOver(e) ==
  \/ workflow[e].phase = "shred" /\ shredder[<<e, workflow[e].attempt>>] = "failed"
  \/ workflow[e].phase = "purge" /\ purge[<<e, workflow[e].attempt>>].pc = "dead"

(* Every request is answered, every execution closed, every attempt over. *)
Quiescent ==
  /\ \A s \in Sessions : session[s].pc = "done"
  /\ \A t \in Rotators : rotation[t].pc = "done"
  /\ \A q \in Requests : request[q] # "shredding"
  /\ \A a \in ShredActs : shredder[a] # "updated"
  /\ \A e \in Executions : ~Running(e)
  /\ \A p \in PurgeActs : purge[p].pc \in {"idle", "done", "dead"}
  /\ UNCHANGED vars

Next ==
  \/ \E s \in Sessions : SessionStep(s) /\ UNCHANGED flowVars
  \/ \E t \in Rotators : RotateStep(t) /\ UNCHANGED flowVars
  \/ \E q \in Requests : RequestStep(q)
  \/ ExternalStart
  \/ \E a \in ShredActs : ActivityShred(a)
  \/ \E e \in Executions : WorkflowStep(e)
  \/ \E p \in PurgeActs : PurgeProgress(p) \/ PurgeDies(p)
  \/ Quiescent

Spec == Init /\ [][Next]_vars

(* Transactions end; Temporal dispatches the current attempt of an open
   execution, a worker that does not die runs it to its end, and the server
   learns of an attempt that returned or (by its heartbeat timeout) died.
   Nothing obliges a running attempt to fail or to time out, or anyone to
   start an execution. *)
Fairness ==
  /\ \A s \in Sessions : WF_vars(SessionStep(s) /\ UNCHANGED flowVars)
  /\ \A t \in Rotators : WF_vars(RotateStep(t) /\ UNCHANGED flowVars)
  /\ \A q \in Requests : WF_vars(RequestStep(q))
  /\ \A a \in ShredActs : WF_vars(ActivityShred(a))
  /\ \A p \in PurgeActs : WF_vars(PurgeProgress(p))
  /\ \A e \in Executions :
       /\ WF_vars(ShredActivityCompletes(e))
       /\ WF_vars(PurgeActivityCompletes(e))
       /\ WF_vars(AttemptOver(e) /\ WorkflowStep(e))

FairSpec == Spec /\ Fairness

-----------------------------------------------------------------------------
TypeOK ==
  /\ KeyTypeOK
  /\ request \in [Requests -> {"shredding", "started", "answered"}]
  /\ workflow \in [Executions ->
       [phase : {"none", "shred", "purge", "completed", "failed"}, attempt : Nat]]
  /\ purge \in [PurgeActs ->
       [pc : {"idle", "select", "update", "audit", "done", "dead"},
        table : 0..Tables, batch : SUBSET Rows]]
  /\ purgeAudits \in Nat

Clean == \A r \in Rows : sealed[r] = None

(* "Ciphertext purged" in the audit trail is a fact about the tables: the key
   is gone, not one row still carries ciphertext, and no session that was in
   flight during the shred brings any back. *)
PurgeAuditMeansClean ==
  purgeAudits > 0 => engagement.status = "shredded" /\ Clean

(* An execution that reports success really purged, through whatever mix of
   retried, abandoned and overlapping attempts. *)
CompletedMeansAuditedPurge ==
  \A e \in Executions : workflow[e].phase = "completed" => purgeAudits > 0 /\ Clean

(* Two attempts may purge at once; what one of them selected is never a row of
   an engagement whose key still exists. *)
PurgeOnlyDeadCiphertext ==
  \A p \in PurgeActs : purge[p].pc \in {"select", "update", "audit", "done"} =>
    engagement.wrappedDek = None

(* A started execution ends with the key destroyed and the tables clean, or
   has used up every attempt of an activity. *)
StartedPurgeEnds ==
  \A e \in Executions : Running(e) ~>
    workflow[e].phase = "failed" \/ (engagement.status = "shredded" /\ Clean)

(* temporal.module.ts: the workflow id is derived from the engagement id alone
   so that a retried request resolves to the same execution "instead of
   starting a duplicate purge". *)
NoDuplicatePurge ==
  \A q, u \in Requests :
    q # u /\ request[q] = "started" /\ request[u] = "started" =>
      \E e \in Executions : workflow[e].phase = "failed"
=============================================================================
