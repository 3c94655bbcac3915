------------------------- MODULE ExtractionPipeline -------------------------
(***************************************************************************)
(* extractionPipelineWorkflow over transcript sources: runExtractionActivity *)
(* is one engagement transaction that wipes what its run wrote before,     *)
(* registers the run and writes facts, evidence and embeddings; under      *)
(* derived-ephemeral-raw a durable timer then leads to                     *)
(* purgeRawBodyActivity, which nulls the encrypted body.                   *)
(*                                                                         *)
(* Each source has the one run its workflow id allows.  An attempt that    *)
(* the server timed out may go on beside its retry.  READ COMMITTED: a     *)
(* DELETE sees the rows committed when it starts and waits for a rival     *)
(* that is deleting the same ones; the INSERT of the run row waits for a   *)
(* rival's uncommitted row of the same id.                                 *)
(*                                                                         *)
(* A wall-clock time is the number of ticks left until it, at most Window. *)
(***************************************************************************)
EXTENDS Naturals, FiniteSets

CONSTANTS Sources,         \* transcript sources of one capture session
          RunAttempts,     \* maximumAttempts of runExtractionActivity
          PurgeAttempts,   \* maximumAttempts of purgeRawBodyActivity
          Window,          \* REPROCESSING_WINDOW_MS, in ticks
          None

ASSUME ExtractionAssumption ==
  /\ RunAttempts \in Nat \ {0} /\ PurgeAttempts \in Nat \ {0}
  /\ Window \in Nat \ {0} /\ None \notin Sources

Policies == {"full-retention", "derived-ephemeral-raw", "reference-only"}
Runs     == Sources \X (1..RunAttempts)

VARIABLES policy,    \* the retention policy in force
          source,    \* [Sources -> sources row: raw_body, age since created_at]
          session,   \* the capture_sessions row
          runRows,   \* sources with a committed extraction_runs row
          output,    \* attempts whose facts, evidence and embeddings are committed
          ex,        \* [Sources -> extraction workflow]
          extract    \* [Runs -> activity attempt]

extractVars == <<policy, source, session, runRows, output, ex, extract>>

Ephemeral == policy = "derived-ephemeral-raw"

OutputOf(s) == {a \in output : a[1] = s}

(* The capture session's marker for s, if its row names s. *)
MarkedLeft(s) == IF session.source = s THEN session.left ELSE 0

ExtractInit ==
  /\ runRows = {} /\ output = {}
  /\ ex = [s \in Sources |-> [phase |-> "none", attempt |-> 0, left |-> 0,
                              purge |-> "idle", tries |-> 0]]
  /\ extract = [a \in Runs |-> [pc |-> "idle", targets |-> {}, left |-> 0]]

-----------------------------------------------------------------------------
(* One attempt of runExtractionActivity. *)

Step(a, from, to) ==
  /\ extract[a].pc = from
  /\ extract' = [extract EXCEPT ![a].pc = to]

(* A body that is gone is a non-retryable failure. *)
ExtractReads(a) == LET s == a[1] IN
  /\ ex[s].phase = "extract" /\ ex[s].attempt = a[2]
  /\ IF source[s].raw = "kept" THEN Step(a, "idle", "read") ELSE Step(a, "idle", "rejected")
  /\ UNCHANGED <<policy, source, session, runRows, output, ex>>

(* DELETE of what this run (and this source's embeddings) has committed. *)
ExtractWipes(a) ==
  /\ extract[a].pc = "read"
  /\ extract' = [extract EXCEPT ![a].pc = "wiping", ![a].targets = OutputOf(a[1])]
  /\ UNCHANGED <<policy, source, session, runRows, output, ex>>

MutWipeCommitsAtOnce(a) ==
  /\ Step(a, "wiping", "wiped")
  /\ output' = output \ extract[a].targets
  /\ UNCHANGED <<policy, source, session, runRows, ex>>
ExtractWiped(a) ==
  /\ extract[a].pc = "wiping"
  /\ \A b \in Runs \ {a} : extract[b].pc \in {"wiped", "registered"} =>
       extract[a].targets \cap extract[b].targets = {}
  /\ extract' = [extract EXCEPT ![a].pc = "wiped", ![a].targets = @ \cap output]
  /\ UNCHANGED <<policy, source, session, runRows, output, ex>>

(* INSERT INTO extraction_runs ... ON CONFLICT DO NOTHING. *)
ExtractRegisters(a) ==
  /\ \A b \in Runs : b[1] = a[1] /\ extract[b].pc = "registered" => a[1] \in runRows
  /\ Step(a, "wiped", "registered")
  /\ UNCHANGED <<policy, source, session, runRows, output, ex>>

(* Every chunk is extracted and written, the cost set, the deadline read. *)
ExtractCommits(a) == LET s == a[1] IN
  /\ extract[a].pc = "registered"
  /\ output' = (output \ extract[a].targets) \cup {a}
  /\ runRows' = runRows \cup {s}
  /\ extract' = [extract EXCEPT ![a].pc = "committed",
       ![a].left = IF ~Ephemeral THEN 0 ELSE IF session.source = s THEN session.left ELSE Window]
  /\ UNCHANGED <<policy, source, session, ex>>

(* A model call fails or the worker dies; the transaction rolls back. *)
ExtractFails(a) ==
  /\ extract[a].pc \in {"read", "wiping", "wiped", "registered"}
  /\ extract' = [extract EXCEPT ![a].pc = "failed"]
  /\ UNCHANGED <<policy, source, session, runRows, output, ex>>

-----------------------------------------------------------------------------
(* The workflow. *)

CurrentRun(s) == extract[<<s, ex[s].attempt>>]

ExtractionReturns(s) ==
  /\ ex[s].phase = "extract" /\ CurrentRun(s).pc = "committed"
  /\ ex' = [ex EXCEPT ![s].phase = IF Ephemeral THEN "sleep" ELSE "completed",
                      ![s].left = CurrentRun(s).left]
  /\ UNCHANGED <<policy, source, session, runRows, output, extract>>

(* The server saw a failure or a timeout of the current attempt. *)
ExtractionRetries(s) ==
  /\ ex[s].phase = "extract"
  /\ ex' = IF CurrentRun(s).pc # "rejected" /\ ex[s].attempt < RunAttempts
           THEN [ex EXCEPT ![s].attempt = @ + 1] ELSE [ex EXCEPT ![s].phase = "failed"]
  /\ UNCHANGED <<policy, source, session, runRows, output, extract>>

TimerFires(s) ==
  /\ ex[s].phase = "sleep" /\ ex[s].left = 0
  /\ ex' = [ex EXCEPT ![s].phase = "purge", ![s].tries = 1]
  /\ UNCHANGED <<policy, source, session, runRows, output, extract>>

(* The two guards of purgeRawBodyActivity, then its UPDATE. *)
PurgeChecks(s) ==
  /\ ex[s].phase = "purge" /\ ex[s].purge = "idle"
  /\ ex' = [ex EXCEPT ![s].purge =
       IF s \in runRows /\ MarkedLeft(s) = 0 THEN "checked" ELSE "skipped"]
  /\ UNCHANGED <<policy, source, session, runRows, output, extract>>

PurgeNulls(s) ==
  /\ ex[s].phase = "purge" /\ ex[s].purge = "checked"
  /\ source' = [source EXCEPT ![s].raw = "null"]
  /\ ex' = [ex EXCEPT ![s].purge = "purged"]
  /\ UNCHANGED <<policy, session, runRows, output, extract>>

PurgeFails(s) ==
  /\ ex[s].phase = "purge" /\ ex[s].purge \in {"idle", "checked"}
  /\ ex' = IF ex[s].tries < PurgeAttempts
           THEN [ex EXCEPT ![s].tries = @ + 1, ![s].purge = "idle"]
           ELSE [ex EXCEPT ![s].phase = "failed"]
  /\ UNCHANGED <<policy, source, session, runRows, output, extract>>

PurgeReturns(s) ==
  /\ ex[s].phase = "purge" /\ ex[s].purge \in {"purged", "skipped"}
  /\ ex' = [ex EXCEPT ![s].phase = "completed"]
  /\ UNCHANGED <<policy, source, session, runRows, output, extract>>

-----------------------------------------------------------------------------
AttemptProgress(a) ==
  \/ ExtractReads(a)
  \/ ExtractWipes(a)
  \/ ExtractWiped(a)
  \/ ExtractRegisters(a)
  \/ ExtractCommits(a)

ExtractionProgress(s) ==
  \/ ExtractionReturns(s)
  \/ TimerFires(s)
  \/ PurgeChecks(s)
  \/ PurgeNulls(s)
  \/ PurgeReturns(s)

ExtractNext ==
  \/ \E a \in Runs : AttemptProgress(a) \/ ExtractFails(a)
  \/ \E s \in Sources : ExtractionProgress(s) \/ ExtractionRetries(s) \/ PurgeFails(s)

ExtractionOver(s) ==
  ex[s].phase = "extract" /\ CurrentRun(s).pc \in {"failed", "rejected"}

ExtractFairness ==
  /\ \A a \in Runs : WF_extractVars(AttemptProgress(a))
  /\ \A s \in Sources : /\ WF_extractVars(ExtractionProgress(s))
                        /\ WF_extractVars(ExtractionOver(s) /\ ExtractionRetries(s))

-----------------------------------------------------------------------------
ExtractTypeOK ==
  /\ policy \in Policies
  /\ source \in [Sources -> [raw : {"absent", "kept", "null"}, age : 0..Window]]
  /\ runRows \subseteq Sources /\ output \subseteq Runs
  /\ ex \in [Sources ->
       [phase : {"none", "extract", "sleep", "purge", "completed", "failed"},
        attempt : 0..RunAttempts, left : 0..Window,
        purge : {"idle", "checked", "skipped", "purged"}, tries : 0..PurgeAttempts]]
  /\ extract \in [Runs ->
       [pc : {"idle", "read", "wiping", "wiped", "registered", "committed", "failed", "rejected"},
        targets : SUBSET Runs, left : 0..Window]]

(* "The raw body is the only copy": it is gone only when its run's facts,
   evidence and embeddings are there, whatever an abandoned attempt of the run
   wipes meanwhile. *)
PurgeKeepsOutput ==
  \A s \in Sources : Ephemeral /\ source[s].raw = "null" => OutputOf(s) # {}

(* No body is purged within the reprocessing window of its row, however often
   the row's deadline was written. *)
WindowKept ==
  \A s \in Sources : Ephemeral /\ source[s].raw = "null" => source[s].age = Window

(* runExtractionActivity: the wipe "makes an activity retry (same
   extractionRunId) safe": a run's output is that of one attempt. *)
RunWrittenOnce == \A s \in Sources : Cardinality(OutputOf(s)) <= 1

(* extractionPipelineWorkflow: under derived-ephemeral-raw "the raw body is then
   purged once a durable timer reaches purge_raw_after". *)
EphemeralRawPurged ==
  \A s \in Sources : Ephemeral /\ ex[s].phase = "completed" => source[s].raw = "null"
=============================================================================
