--------------------------- MODULE ConnectorSync ---------------------------
(***************************************************************************)
(* connectorSyncWorkflow and runConnectorSyncActivity: an activity attempt *)
(* reads the persisted cursor, streams artifacts from the connector, lands *)
(* each (SourceLanding), persists checkpoints as they come, and returns    *)
(* the transcripts it landed; the workflow then starts one extraction per  *)
(* returned transcript.  Workflows of one connector overlap (a manual sync *)
(* beside the poll schedule); attempts are retried, and an attempt the     *)
(* server gave up on may go on beside its successor.                       *)
(*                                                                         *)
(* The origin's current versions are numbered in the order of their        *)
(* `updatedAt`; a cursor is such a number, 0 for null.  The connector is   *)
(* taken at its contract: ConnectorPaging shows which connectors keep it.  *)
(***************************************************************************)
EXTENDS SourceLanding, FiniteSetsExt

CONSTANTS MaxSyncs,      \* bound: workflow executions
          SyncAttempts,  \* bound: maximumAttempts of runConnectorSyncActivity is up to it
          MaxVersion,    \* bound: versions the origin ever emits
          Transcripts    \* the versions that are transcripts

Syncs    == 1..MaxSyncs
Attempts == Syncs \X (1..SyncAttempts)

ASSUME SyncAssumption ==
  /\ MaxSyncs \in Nat /\ SyncAttempts \in Nat \ {0} /\ MaxVersion \in Nat
  /\ Versions = 1..MaxVersion /\ Transcripts \subseteq Versions
  /\ Landers = Attempts

VARIABLES origin,       \* the newest version at the origin
          syncState,    \* the connector_sync_state row
          sync,         \* [Syncs -> workflow execution]
          attempt,      \* [Attempts -> activity attempt]
          extractions   \* [Versions -> extraction workflows started]

syncVars == <<origin, syncState, sync, attempt, extractions>>
vars == <<landVars, syncVars>>

IdleAttempt == [pc |-> "idle", cursor |-> 0, todo |-> {}, upto |-> 0,
                transcripts |-> {}, aborted |-> FALSE]

Init ==
  /\ LandInit
  /\ origin \in 0..MaxVersion
  /\ syncState = [cursor |-> 0, status |-> "idle"]
  /\ \E tries \in 1..SyncAttempts :
       sync = [w \in Syncs |-> [phase |-> "none", mode |-> "incremental",
                                attempt |-> 0, tries |-> tries, children |-> {}]]
  /\ attempt = [a \in Attempts |-> IdleAttempt]
  /\ extractions = [v \in Versions |-> 0]

-----------------------------------------------------------------------------
OriginChanges ==
  /\ origin < MaxVersion
  /\ origin' = origin + 1
  /\ UNCHANGED <<landVars, syncState, sync, attempt, extractions>>

(* Workflow ids carry a timestamp, so nothing keeps two syncs apart. *)
StartSync(w, mode) ==
  /\ sync[w].phase = "none"
  /\ sync' = [sync EXCEPT ![w].phase = "sync", ![w].mode = mode, ![w].attempt = 1]
  /\ UNCHANGED <<landVars, origin, syncState, attempt, extractions>>

-----------------------------------------------------------------------------
(* One attempt of the activity. *)

Streaming(a) == attempt[a].pc = "streaming" /\ lander[a].pc = "idle"

(* A backfill starts from the beginning; the bound is inclusive. *)
AttemptReads(a) ==
  /\ sync[a[1]].phase = "sync" /\ sync[a[1]].attempt = a[2]
  /\ attempt[a].pc = "idle"
  /\ attempt' = [attempt EXCEPT ![a].pc = "read",
        ![a].cursor = IF sync[a[1]].mode = "incremental" THEN syncState.cursor ELSE 0]
  /\ UNCHANGED <<landVars, origin, syncState, sync, extractions>>

AttemptMarksRunning(a) ==
  /\ attempt[a].pc = "read"
  /\ syncState' = [syncState EXCEPT !.status = "running"]
  /\ attempt' = [attempt EXCEPT ![a].pc = "streaming", ![a].upto = origin,
                    ![a].todo = {v \in 1..origin : v >= attempt[a].cursor}]
  /\ UNCHANGED <<landVars, origin, sync, extractions>>

AttemptIngests(a) ==
  /\ Streaming(a)
  /\ \E v \in attempt[a].todo : LandBegin(a, v)
  /\ UNCHANGED syncVars

AttemptLands(a) ==
  attempt[a].pc = "streaming" /\ (LandProgress(a) \/ LandFails(a)) /\ UNCHANGED syncVars

(* The stream goes on; only an inserted transcript is remembered. *)
MutRemembersDuplicates(a) == lander[a].version \in Transcripts
Remembers(a) == lander[a].pc = "landed" /\ lander[a].version \in Transcripts

Ingested(a) == lander[a].pc \in {"landed", "duplicate"}

AttemptCollects(a) ==
  /\ attempt[a].pc = "streaming" /\ Ingested(a)
  /\ attempt' = [attempt EXCEPT ![a].todo = @ \ {lander[a].version},
        ![a].transcripts = @ \cup (IF Remembers(a) THEN {lander[a].version} ELSE {})]
  /\ lander' = [lander EXCEPT ![a] = [pc |-> "idle", version |-> None]]
  /\ UNCHANGED <<sources, acls, graph, origin, syncState, sync, extractions>>

(* A connector may checkpoint c only when every version up to c was emitted. *)
MutCheckpointsNewest(a) == {attempt[a].upto}
Checkpoints(a) == {c \in 1..attempt[a].upto : \A v \in attempt[a].todo : v > c}

AttemptCheckpoints(a) ==
  /\ Streaming(a) /\ ~attempt[a].aborted
  /\ \E c \in Checkpoints(a) :
       /\ c > attempt[a].cursor
       /\ attempt' = [attempt EXCEPT ![a].cursor = c]
       /\ syncState' = [syncState EXCEPT !.cursor = c]
  /\ UNCHANGED <<landVars, origin, sync, extractions>>

(* Cancellation or worker shutdown: the stream just stops. *)
AttemptAborts(a) ==
  /\ Streaming(a) /\ attempt[a].todo # {}
  /\ attempt' = [attempt EXCEPT ![a].todo = {}, ![a].aborted = TRUE]
  /\ UNCHANGED <<landVars, origin, syncState, sync, extractions>>

AttemptReturns(a) ==
  /\ Streaming(a) /\ attempt[a].todo = {}
  /\ syncState' = [cursor |-> attempt[a].cursor, status |-> "idle"]
  /\ attempt' = [attempt EXCEPT ![a].pc = "returned"]
  /\ UNCHANGED <<landVars, origin, sync, extractions>>

(* An ingest or the connector throws. *)
AttemptErrors(a) ==
  /\ \/ lander[a].pc = "failed" /\ attempt[a].pc = "streaming"
     \/ Streaming(a)
  /\ syncState' = [syncState EXCEPT !.status = "error"]
  /\ attempt' = [attempt EXCEPT ![a].pc = "dead"]
  /\ UNCHANGED <<landVars, origin, sync, extractions>>

(* The worker dies; its open transaction rolls back. *)
MutDeathKeepsTransaction(a) ==
  /\ attempt[a].pc \in {"read", "streaming"}
  /\ attempt' = [attempt EXCEPT ![a].pc = "dead"]
  /\ UNCHANGED <<landVars, origin, syncState, sync, extractions>>
AttemptDies(a) ==
  /\ attempt[a].pc \in {"read", "streaming"}
  /\ attempt' = [attempt EXCEPT ![a].pc = "dead"]
  /\ lander' = [lander EXCEPT ![a].pc = IF Ended(a) THEN @ ELSE "failed"]
  /\ UNCHANGED <<sources, acls, graph, origin, syncState, sync, extractions>>

-----------------------------------------------------------------------------
(* The workflow. *)

Handed(w) == attempt[<<w, sync[w].attempt>>].transcripts

SyncReturns(w) ==
  /\ sync[w].phase = "sync"
  /\ attempt[<<w, sync[w].attempt>>].pc = "returned"
  /\ sync' = [sync EXCEPT ![w].phase = "children", ![w].children = Handed(w)]
  /\ UNCHANGED <<landVars, origin, syncState, attempt, extractions>>

(* Error or timeout of the current attempt. *)
SyncRetries(w) ==
  /\ sync[w].phase = "sync"
  /\ sync' = IF sync[w].attempt < sync[w].tries
             THEN [sync EXCEPT ![w].attempt = @ + 1]
             ELSE [sync EXCEPT ![w].phase = "failed"]
  /\ UNCHANGED <<landVars, origin, syncState, attempt, extractions>>

StartExtraction(w) ==
  /\ sync[w].phase = "children"
  /\ \E v \in sync[w].children :
       /\ extractions' = [extractions EXCEPT ![v] = @ + 1]
       /\ sync' = [sync EXCEPT ![w].children = @ \ {v}]
  /\ UNCHANGED <<landVars, origin, syncState, attempt>>

SyncCompletes(w) ==
  /\ sync[w].phase = "children" /\ sync[w].children = {}
  /\ sync' = [sync EXCEPT ![w].phase = "completed"]
  /\ UNCHANGED <<landVars, origin, syncState, attempt, extractions>>

-----------------------------------------------------------------------------
AttemptProgress(a) ==
  \/ AttemptReads(a)
  \/ AttemptMarksRunning(a)
  \/ AttemptIngests(a)
  \/ attempt[a].pc = "streaming" /\ LandProgress(a) /\ UNCHANGED syncVars
  \/ AttemptCollects(a)
  \/ AttemptCheckpoints(a)
  \/ AttemptReturns(a)

AttemptStep(a) ==
  \/ AttemptReads(a)
  \/ AttemptMarksRunning(a)
  \/ AttemptIngests(a)
  \/ AttemptLands(a)
  \/ AttemptCollects(a)
  \/ AttemptCheckpoints(a)
  \/ AttemptAborts(a)
  \/ AttemptReturns(a)
  \/ AttemptErrors(a)
  \/ AttemptDies(a)

WorkflowProgress(w) == SyncReturns(w) \/ StartExtraction(w) \/ SyncCompletes(w)

Quiescent ==
  /\ \A w \in Syncs : sync[w].phase \in {"none", "completed", "failed"}
  /\ \A a \in Attempts : attempt[a].pc \in {"idle", "returned", "dead"}
  /\ UNCHANGED vars

Next ==
  \/ OriginChanges
  \/ \E w \in Syncs, mode \in {"incremental", "backfill"} : StartSync(w, mode)
  \/ \E a \in Attempts : AttemptStep(a)
  \/ \E w \in Syncs : WorkflowProgress(w) \/ SyncRetries(w)
  \/ Quiescent

Spec == Init /\ [][Next]_vars

(* A live worker runs its attempt; the server hears of one that returned or
   died.  Nothing obliges an attempt to fail. *)
AttemptOver(w) ==
  sync[w].phase = "sync" /\ attempt[<<w, sync[w].attempt>>].pc = "dead"

SyncFairness ==
  /\ \A a \in Attempts :
       WF_vars(AttemptProgress(a)) /\ WF_vars(lander[a].pc = "failed" /\ AttemptErrors(a))
  /\ \A w \in Syncs : WF_vars(WorkflowProgress(w)) /\ WF_vars(AttemptOver(w) /\ SyncRetries(w))

FairSpec == Spec /\ SyncFairness

-----------------------------------------------------------------------------
TypeOK ==
  /\ LandTypeOK
  /\ origin \in 0..MaxVersion
  /\ syncState \in [cursor : 0..MaxVersion, status : {"idle", "running", "error"}]
  /\ sync \in [Syncs -> [phase : {"none", "sync", "children", "completed", "failed"},
                         mode : {"incremental", "backfill"},
                         attempt : 0..SyncAttempts, tries : 1..SyncAttempts, children : SUBSET Versions]]
  /\ attempt \in [Attempts ->
       [pc : {"idle", "read", "streaming", "returned", "dead"}, cursor : 0..MaxVersion,
        todo : SUBSET Versions, upto : 0..MaxVersion,
        transcripts : SUBSET Versions, aborted : BOOLEAN]]
  /\ extractions \in [Versions -> Nat]

(* Whatever crashed, was retried or overlapped, the persisted cursor stands for
   landed rows: a sync that resumes from it skips nothing. *)
CursorSound == \A v \in 1..syncState.cursor : Landed(v)

(* "Deterministic id: a re-run of the sync (or a retry) never spawns a second
   extraction for the same source": because one caller ever inserts a row, not
   because of the id, whose reuse is allowed once the first has closed.  And
   only a committed transcript is extracted. *)
ExtractedAtMostOnce ==
  \A v \in Versions :
    /\ extractions[v] <= 1
    /\ extractions[v] > 0 => Landed(v) /\ v \in Transcripts

(* A completed sync that was not cut short has landed all there was when it
   listed the origin. *)
CompletedMeansLanded ==
  \A w \in Syncs : LET a == <<w, sync[w].attempt>> IN
    sync[w].phase \in {"children", "completed"} /\ ~attempt[a].aborted =>
      \A v \in 1..attempt[a].upto : Landed(v)

(* architecture.md: "kill a worker mid-backfill; Temporal resumes from the last
   cursor": a backfill that completes is a full import. *)
BackfillIsFull ==
  \A w \in Syncs : sync[w].phase = "completed" /\ sync[w].mode = "backfill" =>
    \A v \in 1..attempt[<<w, sync[w].attempt>>].upto : Landed(v)

(* connectorSyncWorkflow: starts extraction "for every transcript source that
   newly landed". *)
TranscriptsHandedOff ==
  \A w \in Syncs : sync[w].phase = "completed" =>
    \A row \in sources :
      row.by[1] = w /\ row.version \in Transcripts => extractions[row.version] > 0

(* A started sync ends: completed, or out of attempts. *)
SyncEnds ==
  \A w \in Syncs : sync[w].phase = "sync" ~> sync[w].phase \in {"completed", "failed"}
=============================================================================
