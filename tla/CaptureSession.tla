--------------------------- MODULE CaptureSession ---------------------------
(***************************************************************************)
(* captureSessionWorkflow, one execution: schedule a Recall bot, poll it   *)
(* (woken early by the transcriptReady signal), store its transcript as a  *)
(* source, start the source's extraction.  Activities are retried, and a   *)
(* timed-out attempt may go on beside its retry.  Executions share no row: *)
(* each makes its own session id and so its own bot.                       *)
(*                                                                         *)
(* Recall is external: bot k is the one schedule attempt k created; its    *)
(* transcript reads as empty or as one of Sources, which names both the    *)
(* content and the row that content hashes to.                             *)
(***************************************************************************)
EXTENDS ExtractionPipeline

CONSTANTS ScheduleTries,   \* maximumAttempts of scheduleCaptureBotActivity
          StoreTries,      \* maximumAttempts of storeTranscriptSourceActivity
          MaxPolls         \* maxPollAttempts

ASSUME CaptureAssumption ==
  ScheduleTries \in Nat \ {0} /\ StoreTries \in Nat \ {0} /\ MaxPolls \in Nat

VARIABLES bot,         \* [1..ScheduleTries -> state of the bot at Recall]
          capture,     \* the workflow
          schedule,    \* [1..ScheduleTries -> attempts of scheduleCaptureBotActivity]
          store,       \* [1..StoreTries -> attempts of storeTranscriptSourceActivity]
          signalled    \* transcriptReady was delivered

captureVars == <<bot, capture, schedule, store, signalled>>
vars == <<extractVars, captureVars>>

Init ==
  /\ ExtractInit
  /\ policy \in Policies
  /\ source = [s \in Sources |-> [raw |-> "absent", age |-> 0]]
  /\ session = [status |-> "none", bot |-> 0, source |-> None, left |-> 0]
  /\ bot = [k \in 1..ScheduleTries |-> "none"]
  /\ capture = [phase |-> "schedule", attempt |-> 1, polls |-> 0, nudged |-> FALSE,
                seen |-> "none", bot |-> 0, source |-> None]
  /\ schedule = [k \in 1..ScheduleTries |-> [pc |-> "idle", bot |-> 0]]
  /\ store = [k \in 1..StoreTries |-> [pc |-> "idle", content |-> None, source |-> None, left |-> 0, age |-> 0]]
  /\ signalled = FALSE

-----------------------------------------------------------------------------
(* Recall: the meeting ends or the bot fails; a webhook says so.  What becomes
   of a bot that is not polled, and a signal after the polling, change nothing
   that is read. *)
Polls == capture.phase \in {"poll", "polling", "polled", "waiting"}

BotEnds(k) ==
  /\ Polls /\ capture.bot = k /\ bot[k] = "recording"
  /\ bot' = [bot EXCEPT ![k] = "done"] \/ bot' = [bot EXCEPT ![k] = "failed"]
  /\ UNCHANGED <<extractVars, capture, schedule, store, signalled>>

TranscriptReady ==
  /\ Polls /\ ~signalled /\ bot[capture.bot] = "done"
  /\ signalled' = TRUE
  /\ capture' = [capture EXCEPT !.nudged = TRUE]
  /\ UNCHANGED <<extractVars, bot, schedule, store>>

-----------------------------------------------------------------------------
(* scheduleCaptureBotActivity. *)

(* The tracking row is created, or tells what an earlier attempt got to. *)
ScheduleReads(k) ==
  /\ capture.phase = "schedule" /\ capture.attempt = k /\ schedule[k].pc = "idle"
  /\ session' = IF session.status = "none" THEN [session EXCEPT !.status = "scheduled"]
                ELSE session
  /\ schedule' = [schedule EXCEPT ![k] =
       IF session.bot = 0 THEN [pc |-> "fresh", bot |-> 0]
       ELSE [pc |-> "returned", bot |-> session.bot]]
  /\ UNCHANGED <<policy, source, runRows, output, ex, extract, bot, capture, store, signalled>>

ScheduleCalls(k) ==
  /\ schedule[k].pc = "fresh"
  /\ bot' = [bot EXCEPT ![k] = "recording"]
  /\ schedule' = [schedule EXCEPT ![k] = [pc |-> "called", bot |-> k]]
  /\ UNCHANGED <<extractVars, capture, store, signalled>>

ScheduleRecords(k) ==
  /\ schedule[k].pc = "called"
  /\ session' = [session EXCEPT !.bot = k]
  /\ schedule' = [schedule EXCEPT ![k].pc = "returned"]
  /\ UNCHANGED <<policy, source, runRows, output, ex, extract, bot, capture, store, signalled>>

ScheduleFails(k) ==
  /\ schedule[k].pc \in {"fresh", "called"}
  /\ schedule' = [schedule EXCEPT ![k].pc = "failed"]
  /\ UNCHANGED <<extractVars, bot, capture, store, signalled>>

-----------------------------------------------------------------------------
(* storeTranscriptSourceActivity. *)

StoreFetches(k) ==
  /\ capture.phase = "store" /\ capture.attempt = k /\ store[k].pc = "idle"
  /\ \/ \E c \in Sources :
          store' = [store EXCEPT ![k].pc = "fetched", ![k].content = c]
     \/ store' = [store EXCEPT ![k].pc = "failed"]
  /\ UNCHANGED <<extractVars, bot, capture, schedule, signalled>>

(* Date.now() + REPROCESSING_WINDOW_MS. *)
PurgeDeadline == IF Ephemeral THEN Window ELSE 0

(* INSERT ... ON CONFLICT DO NOTHING under the dedupe key; on a conflict the
   row is looked up by the bot alone, whatever its content. *)
Exists(s) == source[s].raw # "absent"

StoreInserts(k) ==
  /\ store[k].pc = "fetched"
  /\ ~\E j \in 1..StoreTries : store[j].pc = "inserted" /\ store[j].content = store[k].content
  /\ LET c == store[k].content IN
     \/ /\ ~Exists(c)
        /\ store' = [store EXCEPT ![k].pc = "inserted", ![k].source = c,
                                  ![k].left = PurgeDeadline]
     \/ /\ Exists(c)
        /\ \E s \in {x \in Sources : Exists(x)} :
             store' = [store EXCEPT ![k].pc = "found", ![k].source = s,
                                    ![k].left = PurgeDeadline]
  /\ UNCHANGED <<extractVars, bot, capture, schedule, signalled>>

StoreCommits(k) ==
  /\ store[k].pc \in {"inserted", "found"}
  /\ source' = IF store[k].pc = "found" THEN source
               ELSE [source EXCEPT ![store[k].source] =
                       [raw |-> IF policy = "reference-only" THEN "null" ELSE "kept",
                        age |-> store[k].age]]
  /\ session' = [session EXCEPT !.status = "captured", !.source = store[k].source,
                                !.left = store[k].left]
  /\ store' = [store EXCEPT ![k].pc = "committed"]
  /\ UNCHANGED <<policy, runRows, output, ex, extract, bot, capture, schedule, signalled>>

StoreFails(k) ==
  /\ store[k].pc \in {"fetched", "inserted", "found"}
  /\ store' = [store EXCEPT ![k].pc = "failed"]
  /\ UNCHANGED <<extractVars, bot, capture, schedule, signalled>>

-----------------------------------------------------------------------------
(* The workflow. *)

ScheduleReturns ==
  /\ capture.phase = "schedule" /\ schedule[capture.attempt].pc = "returned"
  /\ capture' = [capture EXCEPT !.phase = "poll", !.bot = schedule[capture.attempt].bot]
  /\ UNCHANGED <<extractVars, bot, schedule, store, signalled>>

(* The nudge is consumed before the poll, not after it. *)
PollStarts ==
  /\ capture.phase = "poll"
  /\ capture' = IF capture.polls < MaxPolls
                THEN [capture EXCEPT !.phase = "polling", !.nudged = FALSE, !.polls = @ + 1]
                ELSE [capture EXCEPT !.phase = "failed"]
  /\ UNCHANGED <<extractVars, bot, schedule, store, signalled>>

PollReads ==
  /\ capture.phase = "polling"
  /\ capture' = [capture EXCEPT !.phase = "polled", !.seen = bot[capture.bot]]
  /\ UNCHANGED <<extractVars, bot, schedule, store, signalled>>

AfterPoll == CASE capture.seen = "done" -> "store"
               [] capture.seen = "failed" -> "failed"
               [] OTHER -> "waiting"

MutClearsAfterPoll ==
  /\ capture.phase = "polled"
  /\ capture' = [capture EXCEPT !.phase = AfterPoll, !.attempt = 1, !.nudged = FALSE]
  /\ UNCHANGED <<extractVars, bot, schedule, store, signalled>>
PollReturns ==
  /\ capture.phase = "polled"
  /\ capture' = [capture EXCEPT !.phase = AfterPoll, !.attempt = 1]
  /\ UNCHANGED <<extractVars, bot, schedule, store, signalled>>

(* getBot failed in every attempt. *)
PollFails ==
  /\ capture.phase = "polling"
  /\ capture' = [capture EXCEPT !.phase = "failed"]
  /\ UNCHANGED <<extractVars, bot, schedule, store, signalled>>

(* condition(() => nudged, pollInterval): the signal or the timer. *)
MutWaitsForSignal ==
  /\ capture.phase = "waiting" /\ capture.nudged
  /\ capture' = [capture EXCEPT !.phase = "poll"]
  /\ UNCHANGED <<extractVars, bot, schedule, store, signalled>>
WaitEnds ==
  /\ capture.phase = "waiting"
  /\ capture' = [capture EXCEPT !.phase = "poll"]
  /\ UNCHANGED <<extractVars, bot, schedule, store, signalled>>

StoreReturns ==
  /\ capture.phase = "store" /\ store[capture.attempt].pc = "committed"
  /\ capture' = [capture EXCEPT !.phase = "handoff", !.source = store[capture.attempt].source]
  /\ UNCHANGED <<extractVars, bot, schedule, store, signalled>>

(* The child's id is the source's; a duplicate start is a success. *)
StartExtraction ==
  /\ capture.phase = "handoff"
  /\ ex' = IF policy # "reference-only" /\ ex[capture.source].phase = "none"
           THEN [ex EXCEPT ![capture.source].phase = "extract", ![capture.source].attempt = 1]
           ELSE ex
  /\ capture' = [capture EXCEPT !.phase = "completed"]
  /\ UNCHANGED <<policy, source, session, runRows, output, extract, bot, schedule, store, signalled>>

(* The server saw a failure or a timeout of the current attempt. *)
CaptureRetries ==
  /\ capture.phase \in {"schedule", "store"}
  /\ capture' = IF capture.attempt < (IF capture.phase = "store" THEN StoreTries ELSE ScheduleTries)
                THEN [capture EXCEPT !.attempt = @ + 1]
                ELSE [capture EXCEPT !.phase = "failed"]
  /\ UNCHANGED <<extractVars, bot, schedule, store, signalled>>

-----------------------------------------------------------------------------
Less(n) == IF n > 0 THEN n - 1 ELSE 0

(* Every deadline draws nearer, every row older. *)
Tick ==
  /\ session' = [session EXCEPT !.left = Less(@)]
  /\ ex' = [s \in Sources |-> [ex[s] EXCEPT !.left = Less(@)]]
  /\ extract' = [a \in Runs |-> [extract[a] EXCEPT !.left = Less(@)]]
  /\ store' = [k \in 1..StoreTries |-> [store[k] EXCEPT
                 !.left = Less(@),
                 !.age = IF @ < Window /\ store[k].pc = "inserted" THEN @ + 1 ELSE @]]
  /\ source' = [s \in Sources |-> [source[s] EXCEPT
                  !.age = IF @ < Window /\ Exists(s) THEN @ + 1 ELSE @]]
  /\ UNCHANGED <<policy, runRows, output, bot, capture, schedule, signalled>>

CaptureProgress ==
  \/ ScheduleReturns
  \/ PollStarts
  \/ PollReads
  \/ PollReturns
  \/ WaitEnds
  \/ StoreReturns
  \/ StartExtraction

ScheduleProgress(k) == ScheduleReads(k) \/ ScheduleCalls(k) \/ ScheduleRecords(k)
StoreProgress(k) == StoreFetches(k) \/ StoreInserts(k) \/ StoreCommits(k)

CaptureOver ==
  \/ capture.phase = "schedule" /\ schedule[capture.attempt].pc = "failed"
  \/ capture.phase = "store" /\ store[capture.attempt].pc = "failed"

Next ==
  \/ ExtractNext /\ UNCHANGED captureVars
  \/ \E k \in 1..ScheduleTries : BotEnds(k) \/ ScheduleProgress(k) \/ ScheduleFails(k)
  \/ \E k \in 1..StoreTries : StoreProgress(k) \/ StoreFails(k)
  \/ TranscriptReady
  \/ CaptureProgress
  \/ PollFails
  \/ CaptureRetries
  \/ Tick

Spec == Init /\ [][Next]_vars

(* Timers fire, workers run their attempts, the server notices dead ones. *)
FairSpec ==
  /\ Spec
  /\ ExtractFairness
  /\ WF_vars(Tick) /\ WF_vars(CaptureProgress) /\ WF_vars(CaptureOver /\ CaptureRetries)
  /\ \A k \in 1..ScheduleTries : WF_vars(ScheduleProgress(k))
  /\ \A k \in 1..StoreTries : WF_vars(StoreProgress(k))

-----------------------------------------------------------------------------
TypeOK ==
  /\ ExtractTypeOK
  /\ session \in [status : {"none", "scheduled", "captured"}, bot : 0..ScheduleTries,
                  source : Sources \cup {None}, left : 0..Window]
  /\ bot \in [1..ScheduleTries -> {"none", "recording", "done", "failed"}]
  /\ capture \in [phase : {"schedule", "poll", "polling", "polled", "waiting", "store",
                           "handoff", "completed", "failed"},
                  attempt : Nat \ {0}, polls : 0..MaxPolls, nudged : BOOLEAN,
                  seen : {"none", "recording", "done", "failed"},
                  bot : 0..ScheduleTries, source : Sources \cup {None}]
  /\ schedule \in [1..ScheduleTries -> [pc : {"idle", "fresh", "called", "returned", "failed"},
                                bot : 0..ScheduleTries]]
  /\ store \in [1..StoreTries ->
       [pc : {"idle", "fetched", "inserted", "found", "committed", "failed"},
        content : Sources \cup {None}, source : Sources \cup {None}, left : 0..Window,
        age : 0..Window]]

(* "Worst case: one redundant poll, never a missed signal": a workflow that
   waits after the signal came has been woken. *)
SignalNeverMissed == capture.phase = "waiting" /\ signalled => capture.nudged

(* The capture ends even when the meeting does not, and every extraction that
   starts ends. *)
WorkflowsEnd ==
  /\ <>(capture.phase \in {"completed", "failed"})
  /\ \A s \in Sources : ex[s].phase = "extract" ~> ex[s].phase \in {"completed", "failed"}
=============================================================================
