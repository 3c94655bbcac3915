--------------------------- MODULE CaptureProofs ---------------------------
(***************************************************************************)
(* A capture session and the extraction of what it captured, for any       *)
(* number of sources, attempts, polls and ticks of the window.  Three      *)
(* arguments that meet only in the types: a transcriptReady signal is      *)
(* about the bot that is polled; a registered run has output; and every    *)
(* deadline, wherever it has been copied to, is at least as far away as    *)
(* the row it is about is young.                                           *)
(***************************************************************************)
EXTENDS CaptureSession, TLAPS

ExStates == [phase : {"none", "extract", "sleep", "purge", "completed", "failed"},
             attempt : 0..RunAttempts, left : 0..Window,
             purge : {"idle", "checked", "skipped", "purged"}, tries : 0..PurgeAttempts]

RunStates == [pc : {"idle", "read", "wiping", "wiped", "registered", "committed", "failed", "rejected"},
              targets : SUBSET Runs, left : 0..Window]

CaptureStates == [phase : {"schedule", "poll", "polling", "polled", "waiting", "store",
                           "handoff", "completed", "failed"},
                  attempt : Nat \ {0}, polls : 0..MaxPolls, nudged : BOOLEAN,
                  seen : {"none", "recording", "done", "failed"},
                  bot : 0..ScheduleTries, source : Sources \cup {None}]

ScheduleStates == [pc : {"idle", "fresh", "called", "returned", "failed"}, bot : 0..ScheduleTries]

StoreStates == [pc : {"idle", "fetched", "inserted", "found", "committed", "failed"},
                content : Sources \cup {None}, source : Sources \cup {None}, left : 0..Window,
                age : 0..Window]

SessionStates == [status : {"none", "scheduled", "captured"}, bot : 0..ScheduleTries,
                  source : Sources \cup {None}, left : 0..Window]

SourceStates == [raw : {"absent", "kept", "null"}, age : 0..Window]

(* Types, and the attempt a workflow looks at is one it may have. *)
ExtractTypes ==
  /\ policy \in Policies
  /\ source \in [Sources -> SourceStates]
  /\ runRows \subseteq Sources /\ output \subseteq Runs
  /\ ex \in [Sources -> ExStates]
  /\ extract \in [Runs -> RunStates]
  /\ \A s \in Sources : ex[s].phase = "extract" => ex[s].attempt \in 1..RunAttempts

CaptureTypes ==
  /\ session \in SessionStates
  /\ bot \in [1..ScheduleTries -> {"none", "recording", "done", "failed"}]
  /\ capture \in CaptureStates
  /\ schedule \in [1..ScheduleTries -> ScheduleStates]
  /\ store \in [1..StoreTries -> StoreStates]
  /\ capture.phase = "schedule" => capture.attempt \in 1..ScheduleTries
  /\ capture.phase = "store" => capture.attempt \in 1..StoreTries
  /\ capture.phase = "handoff" => capture.source \in Sources
  /\ \A k \in 1..StoreTries :
       /\ store[k].pc = "fetched" => store[k].content \in Sources
       /\ store[k].pc \in {"inserted", "found", "committed"} => store[k].source \in Sources

TypeInv == ExtractTypes /\ CaptureTypes

(* A bot that is reported to the workflow is one whose creation has returned. *)
BotKnown(b) == b \in 1..ScheduleTries /\ schedule[b].pc = "returned"

SignalInv ==
  /\ session.bot # 0 => BotKnown(session.bot)
  /\ \A k \in 1..ScheduleTries :
       /\ schedule[k].pc = "called" => schedule[k].bot = k
       /\ schedule[k].pc = "returned" => BotKnown(schedule[k].bot)
  /\ capture.phase \notin {"schedule", "failed"} => BotKnown(capture.bot)
  /\ signalled => capture.phase # "schedule"
  /\ signalled /\ capture.phase \in {"poll", "polling", "polled", "waiting"} => bot[capture.bot] = "done"
  /\ signalled /\ capture.phase = "polled" => capture.nudged \/ capture.seen = "done"
  /\ SignalNeverMissed

OutputInv ==
  /\ \A a \in Runs : \A b \in extract[a].targets : b[1] = a[1]
  /\ \A s \in runRows : OutputOf(s) # {}
  /\ \A s \in Sources : ex[s].purge \in {"checked", "purged"} => s \in runRows
  /\ \A s \in Sources : Ephemeral /\ source[s].raw = "null" => s \in runRows

(* A deadline is no nearer than the end of the window that began with the row. *)
InTime(left, s) == Exists(s) /\ left + source[s].age >= Window

(* A store attempt's: of the row it is inserting, alone, or of one that it found. *)
StoreDeadlines ==
  \A k \in 1..StoreTries :
    /\ store[k].pc = "inserted" =>
         /\ store[k].content = store[k].source /\ ~Exists(store[k].source)
         /\ \A j \in 1..StoreTries :
              store[j].pc = "inserted" /\ store[j].source = store[k].source => j = k
         /\ Ephemeral => store[k].left + store[k].age >= Window
    /\ store[k].pc = "found" /\ Ephemeral => InTime(store[k].left, store[k].source)

SessionDeadline == session.source # None /\ Ephemeral => InTime(session.left, session.source)

RunDeadlines ==
  \A a \in Runs :
    /\ extract[a].pc \notin {"idle", "rejected"} => Exists(a[1])
    /\ extract[a].pc = "committed" /\ Ephemeral => InTime(extract[a].left, a[1])

TimerDeadlines ==
  \A s \in Sources :
    /\ ex[s].phase = "sleep" => Ephemeral /\ InTime(ex[s].left, s)
    /\ ex[s].phase = "purge" => Ephemeral /\ Exists(s) /\ source[s].age = Window

DeadlineInv == StoreDeadlines /\ SessionDeadline /\ RunDeadlines /\ TimerDeadlines /\ WindowKept

CaptureInv == TypeInv /\ SignalInv /\ OutputInv /\ DeadlineInv

-----------------------------------------------------------------------------
(* Types. *)

LEMMA CaptureTypesKept ==
  ASSUME CaptureTypes, UNCHANGED captureVars, UNCHANGED session
  PROVE  CaptureTypes'
BY DEF CaptureTypes, captureVars

LEMMA TypesOfAttempt ==
  ASSUME TypeInv, NEW a \in Runs, AttemptProgress(a) \/ ExtractFails(a)
  PROVE  ExtractTypes' /\ UNCHANGED session
<1> USE DEF TypeInv, ExtractTypes
<1>0. extract[a] \in RunStates /\ extract \in [Runs -> RunStates]
  OBVIOUS
<1>1. a[1] \in Sources /\ OutputOf(a[1]) \in SUBSET Runs
  BY DEF Runs, OutputOf
<1>2. CASE ExtractReads(a)
  BY <1>2 DEF ExtractReads, Step, RunStates
<1>3. CASE ExtractWipes(a)
  <2>1. extract' = [extract EXCEPT ![a].pc = "wiping", ![a].targets = OutputOf(a[1])]
    BY <1>3 DEF ExtractWipes
  <2>2. extract' \in [Runs -> RunStates]
    BY <1>0, <1>1, <2>1 DEF RunStates
  <2> QED BY <1>3, <2>2 DEF ExtractWipes
<1>4. CASE ExtractWiped(a)
  <2>1. extract' = [extract EXCEPT ![a].pc = "wiped", ![a].targets = @ \cap output]
    BY <1>4 DEF ExtractWiped
  <2>2. extract' \in [Runs -> RunStates]
    BY <1>0, <2>1 DEF RunStates
  <2> QED BY <1>4, <2>2 DEF ExtractWiped
<1>5. CASE ExtractRegisters(a)
  BY <1>5 DEF ExtractRegisters, Step, RunStates
<1>6. CASE ExtractCommits(a)
  <2> DEFINE left == IF ~Ephemeral THEN 0 ELSE IF session.source = a[1] THEN session.left ELSE Window
  <2>1. left \in 0..Window
    BY ExtractionAssumption DEF CaptureTypes, SessionStates
  <2>2. /\ extract' = [extract EXCEPT ![a].pc = "committed", ![a].left = left]
        /\ UNCHANGED <<policy, source, session, ex>>
        /\ output' \subseteq Runs /\ runRows' \subseteq Sources
    BY <1>1, <1>6 DEF ExtractCommits
  <2> HIDE DEF left
  <2>3. extract' \in [Runs -> RunStates]
    BY <1>0, <2>1, <2>2 DEF RunStates
  <2> QED BY <2>2, <2>3
<1>7. CASE ExtractFails(a)
  BY <1>7 DEF ExtractFails, RunStates
<1> QED BY <1>2, <1>3, <1>4, <1>5, <1>6, <1>7 DEF AttemptProgress

LEMMA TypesOfExtraction ==
  ASSUME TypeInv, NEW s \in Sources,
         ExtractionProgress(s) \/ ExtractionRetries(s) \/ PurgeFails(s)
  PROVE  ExtractTypes' /\ UNCHANGED session
<1> USE DEF TypeInv, ExtractTypes
<1>0. ex[s] \in ExStates /\ ex \in [Sources -> ExStates]
  OBVIOUS
<1>1. CASE ExtractionReturns(s)
  <2>1. <<s, ex[s].attempt>> \in Runs
    BY <1>1 DEF ExtractionReturns, Runs
  <2>2. CurrentRun(s).left \in 0..Window
    BY <2>1 DEF CurrentRun, RunStates
  <2>3. PICK to \in {"sleep", "completed"} :
          ex' = [ex EXCEPT ![s].phase = to, ![s].left = CurrentRun(s).left]
    BY <1>1 DEF ExtractionReturns
  <2>4. ex' \in [Sources -> ExStates]
    BY <1>0, <2>2, <2>3 DEF ExStates
  <2>5. \A x \in Sources : ex'[x].phase = "extract" => ex'[x] = ex[x]
    BY <1>0, <2>3 DEF ExStates
  <2> QED BY <1>1, <2>4, <2>5 DEF ExtractionReturns
<1>2. CASE ExtractionRetries(s)
  <2>1. CASE ex[s].attempt < RunAttempts /\ ex' = [ex EXCEPT ![s].attempt = @ + 1]
    <3>1. ex[s].attempt + 1 \in 1..RunAttempts /\ ex[s].attempt + 1 \in 0..RunAttempts
      BY <1>0, <2>1, ExtractionAssumption DEF ExStates
    <3>2. ex' \in [Sources -> ExStates] /\ ex'[s].attempt = ex[s].attempt + 1
      BY <1>0, <2>1, <3>1 DEF ExStates
    <3>3. \A x \in Sources : x # s => ex'[x] = ex[x]
      BY <2>1
    <3> QED BY <1>2, <3>1, <3>2, <3>3 DEF ExtractionRetries
  <2>2. CASE ex' = [ex EXCEPT ![s].phase = "failed"]
    BY <1>2, <2>2 DEF ExtractionRetries, ExStates
  <2> QED BY <1>2, <2>1, <2>2 DEF ExtractionRetries
<1>3. CASE TimerFires(s)
  <2>1. 1 \in 0..PurgeAttempts
    BY ExtractionAssumption
  <2>2. ex' = [ex EXCEPT ![s].phase = "purge", ![s].tries = 1]
    BY <1>3 DEF TimerFires
  <2>3. ex' \in [Sources -> ExStates] /\ ex'[s].phase = "purge"
    BY <1>0, <2>1, <2>2 DEF ExStates
  <2>4. \A x \in Sources : x # s => ex'[x] = ex[x]
    BY <2>2
  <2> QED BY <1>3, <2>3, <2>4 DEF TimerFires
<1>4. CASE PurgeChecks(s)
  BY <1>4 DEF PurgeChecks, ExStates
<1>5. CASE PurgeNulls(s)
  BY <1>5 DEF PurgeNulls, ExStates, SourceStates
<1>6. CASE PurgeReturns(s)
  BY <1>6 DEF PurgeReturns, ExStates
<1>7. CASE PurgeFails(s)
  <2>1. CASE ex[s].tries < PurgeAttempts /\ ex' = [ex EXCEPT ![s].tries = @ + 1, ![s].purge = "idle"]
    <3>1. ex[s].tries + 1 \in 0..PurgeAttempts
      BY <1>0, <2>1, ExtractionAssumption DEF ExStates
    <3>2. ex' \in [Sources -> ExStates] /\ ex'[s].phase = ex[s].phase
      BY <1>0, <2>1, <3>1 DEF ExStates
    <3>3. \A x \in Sources : x # s => ex'[x] = ex[x]
      BY <2>1
    <3> QED BY <1>7, <3>2, <3>3 DEF PurgeFails
  <2>2. CASE ex' = [ex EXCEPT ![s].phase = "failed"]
    BY <1>7, <2>2 DEF PurgeFails, ExStates
  <2> QED BY <1>7, <2>1, <2>2 DEF PurgeFails
<1> QED BY <1>1, <1>2, <1>3, <1>4, <1>5, <1>6, <1>7 DEF ExtractionProgress

LEMMA ExtractTypesKept ==
  ASSUME ExtractTypes, UNCHANGED <<policy, source, runRows, output, ex, extract>>
  PROVE  ExtractTypes'
BY DEF ExtractTypes

LEMMA TypesOfSchedule ==
  ASSUME TypeInv, NEW k \in 1..ScheduleTries, BotEnds(k) \/ ScheduleProgress(k) \/ ScheduleFails(k)
  PROVE  TypeInv'
<1> USE DEF TypeInv
<1>1. ExtractTypes'
  BY ExtractTypesKept DEF BotEnds, ScheduleProgress, ScheduleReads, ScheduleCalls, ScheduleRecords,
     ScheduleFails, extractVars
<1>2. k \in 0..ScheduleTries
  BY CaptureAssumption
<1>3. CaptureTypes'
  <2> USE DEF CaptureTypes
  <2>1. CASE BotEnds(k)
    BY <2>1 DEF BotEnds, extractVars
  <2>2. CASE ScheduleReads(k)
    BY <2>2, CaptureAssumption DEF ScheduleReads, ScheduleStates, SessionStates
  <2>3. CASE ScheduleCalls(k)
    BY <2>3, <1>2 DEF ScheduleCalls, ScheduleStates, extractVars
  <2>4. CASE ScheduleRecords(k)
    BY <2>4, <1>2 DEF ScheduleRecords, ScheduleStates, SessionStates
  <2>5. CASE ScheduleFails(k)
    BY <2>5 DEF ScheduleFails, ScheduleStates, extractVars
  <2> QED BY <2>1, <2>2, <2>3, <2>4, <2>5 DEF ScheduleProgress
<1> QED BY <1>1, <1>3

(* An attempt of the store moves. *)
LEMMA StoreMoves ==
  ASSUME CaptureTypes, NEW k \in 1..StoreTries, NEW st \in StoreStates,
         store' = [store EXCEPT ![k] = st], UNCHANGED <<session, bot, capture, schedule>>,
         st.pc = "fetched" => st.content \in Sources,
         st.pc \in {"inserted", "found", "committed"} => st.source \in Sources
  PROVE  CaptureTypes'
<1>1. store' \in [1..StoreTries -> StoreStates] /\ store'[k] = st
  BY DEF CaptureTypes
<1>2. \A j \in 1..StoreTries : j # k => store'[j] = store[j]
  BY DEF CaptureTypes
<1> QED BY <1>1, <1>2 DEF CaptureTypes

(* The workflow moves. *)
LEMMA CaptureMoves ==
  ASSUME CaptureTypes, capture' \in CaptureStates, UNCHANGED <<session, bot, schedule, store>>,
         capture'.phase = "schedule" => capture'.attempt \in 1..ScheduleTries,
         capture'.phase = "store" => capture'.attempt \in 1..StoreTries,
         capture'.phase = "handoff" => capture'.source \in Sources
  PROVE  CaptureTypes'
BY DEF CaptureTypes

LEMMA TypesOfStore ==
  ASSUME TypeInv, NEW k \in 1..StoreTries, StoreProgress(k) \/ StoreFails(k)
  PROVE  TypeInv'
<1> USE DEF TypeInv
<1>1. PurgeDeadline \in 0..Window
  BY ExtractionAssumption DEF PurgeDeadline
<1>2. CASE StoreFetches(k) \/ StoreFails(k)
  <2>1. ExtractTypes'
    BY <1>2, ExtractTypesKept DEF StoreFetches, StoreFails, extractVars
  <2>2. store[k] \in StoreStates /\ UNCHANGED <<session, bot, capture, schedule>>
    BY <1>2 DEF StoreFetches, StoreFails, CaptureTypes, extractVars
  <2>3. CASE store' = [store EXCEPT ![k].pc = "failed"]
    <3> DEFINE st == [store[k] EXCEPT !.pc = "failed"]
    <3>1. st \in StoreStates /\ st.pc = "failed" /\ store' = [store EXCEPT ![k] = st]
      BY <2>2, <2>3 DEF StoreStates
    <3> HIDE DEF st
    <3> QED BY <2>1, <2>2, <3>1, StoreMoves
  <2>4. ASSUME NEW c \in Sources, store' = [store EXCEPT ![k].pc = "fetched", ![k].content = c]
        PROVE  TypeInv'
    <3> DEFINE st == [store[k] EXCEPT !.pc = "fetched", !.content = c]
    <3>1. st \in StoreStates /\ st.pc = "fetched" /\ st.content = c
      BY <2>2 DEF StoreStates
    <3>2. store' = [store EXCEPT ![k] = st]
      BY <2>4
    <3> HIDE DEF st
    <3> QED BY <2>1, <2>2, <3>1, <3>2, StoreMoves
  <2> QED BY <1>2, <2>3, <2>4 DEF StoreFetches, StoreFails
<1>3. CASE StoreInserts(k)
  <2>1. ExtractTypes'
    BY <1>3, ExtractTypesKept DEF StoreInserts, extractVars
  <2>2. PICK s \in Sources, to \in {"inserted", "found"} :
          store' = [store EXCEPT ![k].pc = to, ![k].source = s, ![k].left = PurgeDeadline]
    BY <1>3 DEF StoreInserts, CaptureTypes
  <2> DEFINE st == [store[k] EXCEPT !.pc = to, !.source = s, !.left = PurgeDeadline]
  <2>3. store[k] \in StoreStates /\ UNCHANGED <<session, bot, capture, schedule>>
    BY <1>3 DEF StoreInserts, CaptureTypes, extractVars
  <2>4. st \in StoreStates /\ st.pc = to /\ st.source = s
    BY <1>1, <2>3 DEF StoreStates
  <2>5. store' = [store EXCEPT ![k] = st]
    BY <2>2
  <2> HIDE DEF st
  <2> QED BY <2>1, <2>3, <2>4, <2>5, StoreMoves
<1>4. CASE StoreCommits(k)
  <2>1. store[k].source \in Sources /\ store[k] \in StoreStates
    BY <1>4 DEF StoreCommits, CaptureTypes
  <2>2. source' \in [Sources -> SourceStates]
    <3>1. CASE store[k].pc = "found"
      BY <1>4, <3>1 DEF StoreCommits, ExtractTypes
    <3>2. CASE store[k].pc # "found"
      <4> DEFINE row == [raw |-> IF policy = "reference-only" THEN "null" ELSE "kept",
                         age |-> store[k].age]
      <4>1. row \in SourceStates
        BY <2>1 DEF SourceStates, StoreStates
      <4>2. source' = [source EXCEPT ![store[k].source] = row]
        BY <1>4, <3>2 DEF StoreCommits
      <4> QED BY <4>1, <4>2 DEF ExtractTypes
    <3> QED BY <3>1, <3>2
  <2>3. ExtractTypes'
    BY <1>4, <2>2 DEF StoreCommits, ExtractTypes
  <2>4. session' \in SessionStates
    BY <1>4, <2>1 DEF StoreCommits, CaptureTypes, SessionStates, StoreStates
  <2>5. CaptureTypes'
    BY <1>4, <2>1, <2>4 DEF StoreCommits, CaptureTypes, StoreStates
  <2> QED BY <2>3, <2>5
<1> QED BY <1>2, <1>3, <1>4 DEF StoreProgress

LEMMA TypesOfCapture ==
  ASSUME TypeInv, SignalInv, TranscriptReady \/ CaptureProgress \/ PollFails \/ CaptureRetries
  PROVE  TypeInv'
<1> USE DEF TypeInv
<1>1. CASE TranscriptReady \/ PollFails \/ CaptureRetries
  <2>1. ExtractTypes'
    BY <1>1, ExtractTypesKept DEF TranscriptReady, PollFails, CaptureRetries, extractVars
  <2>2. CASE TranscriptReady \/ PollFails
    <3>1. capture' = [capture EXCEPT !.nudged = TRUE] \/ capture' = [capture EXCEPT !.phase = "failed"]
      BY <2>2 DEF TranscriptReady, PollFails
    <3>2. /\ capture' \in CaptureStates
          /\ capture'.phase \in {capture.phase, "failed"} /\ capture'.attempt = capture.attempt
          /\ capture'.source = capture.source
      BY <3>1, ZenonT(30) DEF CaptureTypes, CaptureStates
    <3>3. UNCHANGED <<session, bot, schedule, store>>
      BY <2>2 DEF TranscriptReady, PollFails, extractVars
    <3> QED BY <2>1, <3>2, <3>3, CaptureMoves DEF CaptureTypes
  <2>3. CASE CaptureRetries
    <3> DEFINE tries == IF capture.phase = "store" THEN StoreTries ELSE ScheduleTries
    <3>1. capture.attempt \in 1..tries /\ tries \in Nat /\ capture.phase \in {"schedule", "store"}
      BY <2>3, CaptureAssumption DEF CaptureRetries, CaptureTypes
    <3>2. \/ capture.attempt + 1 \in 1..tries /\ capture' = [capture EXCEPT !.attempt = @ + 1]
          \/ capture' = [capture EXCEPT !.phase = "failed"]
      BY <2>3, <3>1 DEF CaptureRetries
    <3>3. capture' \in CaptureStates
      BY <3>1, <3>2, SMTT(30) DEF CaptureTypes, CaptureStates
    <3>4. /\ capture'.phase = "schedule" => capture'.attempt \in 1..ScheduleTries
          /\ capture'.phase = "store" => capture'.attempt \in 1..StoreTries
          /\ capture'.phase # "handoff"
      BY <3>1, <3>2 DEF CaptureTypes, CaptureStates
    <3> QED BY <2>1, <2>3, <3>3, <3>4 DEF CaptureRetries, CaptureTypes, extractVars
  <2> QED BY <1>1, <2>1, <2>2, <2>3
<1>2. CASE StartExtraction
  <2>1. capture.source \in Sources /\ UNCHANGED <<policy, source, session, runRows, output, extract,
                                                  bot, schedule, store, signalled>>
    BY <1>2 DEF StartExtraction, CaptureTypes
  <2>2. capture' = [capture EXCEPT !.phase = "completed"]
    BY <1>2 DEF StartExtraction
  <2>3. CaptureTypes'
    BY <2>1, <2>2 DEF CaptureTypes, CaptureStates
  <2>4. CASE ex' = ex
    BY <2>1, <2>3, <2>4 DEF ExtractTypes
  <2>5. CASE ex' = [ex EXCEPT ![capture.source].phase = "extract", ![capture.source].attempt = 1]
    <3>1. 1 \in 1..RunAttempts /\ 1 \in 0..RunAttempts
      BY ExtractionAssumption
    <3>2. ex' \in [Sources -> ExStates] /\ ex'[capture.source].attempt = 1
      BY <2>1, <2>5, <3>1 DEF ExtractTypes, ExStates
    <3>3. \A s \in Sources : s # capture.source => ex'[s] = ex[s]
      BY <2>5 DEF ExtractTypes
    <3> QED BY <2>1, <2>3, <3>1, <3>2, <3>3 DEF ExtractTypes
  <2> QED BY <1>2, <2>4, <2>5 DEF StartExtraction
<1>3. CASE CaptureProgress /\ ~StartExtraction
  <2> DEFINE Others == ScheduleReturns \/ PollStarts \/ PollReads \/ PollReturns \/ WaitEnds \/ StoreReturns
  <2>1. Others /\ UNCHANGED <<extractVars, bot, schedule, store, signalled>>
    BY <1>3 DEF CaptureProgress, ScheduleReturns, PollStarts, PollReads, PollReturns, WaitEnds, StoreReturns
  <2>2. ExtractTypes'
    BY <2>1, ExtractTypesKept DEF extractVars
  <2>3. UNCHANGED <<session, bot, schedule, store>> /\ capture \in CaptureStates
    BY <2>1 DEF extractVars, CaptureTypes
  <2>4. CASE ScheduleReturns
    <3>1. schedule[capture.attempt].bot \in 0..ScheduleTries
      BY <2>4 DEF ScheduleReturns, CaptureTypes, ScheduleStates
    <3>2. capture' \in CaptureStates /\ capture'.phase = "poll"
      BY <2>3, <2>4, <3>1 DEF ScheduleReturns, CaptureStates
    <3> QED BY <2>2, <2>3, <3>2, CaptureMoves
  <2>5. CASE PollStarts
    <3>1. capture.polls < MaxPolls => capture.polls + 1 \in 0..MaxPolls
      BY <2>3, CaptureAssumption DEF CaptureStates
    <3>2. capture' \in CaptureStates /\ capture'.phase \in {"polling", "failed"}
      BY <2>3, <2>5, <3>1 DEF PollStarts, CaptureStates
    <3> QED BY <2>2, <2>3, <3>2, CaptureMoves
  <2>6. CASE PollReads
    <3>1. bot[capture.bot] \in {"none", "recording", "done", "failed"}
      BY <2>6 DEF PollReads, SignalInv, BotKnown, CaptureTypes
    <3>2. capture' \in CaptureStates /\ capture'.phase = "polled"
      BY <2>3, <2>6, <3>1 DEF PollReads, CaptureStates
    <3> QED BY <2>2, <2>3, <3>2, CaptureMoves
  <2>7. CASE PollReturns
    <3>1. AfterPoll \in {"store", "failed", "waiting"} /\ 1 \in 1..StoreTries
      BY CaptureAssumption DEF AfterPoll
    <3>2. capture' = [capture EXCEPT !.phase = AfterPoll, !.attempt = 1] /\ 1 \in Nat \ {0}
      BY <2>7 DEF PollReturns
    <3>3. /\ capture' \in CaptureStates /\ capture'.attempt = 1
          /\ capture'.phase \in {"store", "failed", "waiting"}
      BY <2>3, <3>1, <3>2 DEF CaptureStates
    <3> QED BY <2>2, <2>3, <3>1, <3>3, CaptureMoves
  <2>8. CASE WaitEnds
    <3>1. capture' \in CaptureStates /\ capture'.phase = "poll"
      BY <2>3, <2>8 DEF WaitEnds, CaptureStates
    <3> QED BY <2>2, <2>3, <3>1, CaptureMoves
  <2>9. CASE StoreReturns
    <3>1. store[capture.attempt].source \in Sources
      BY <2>9 DEF StoreReturns, CaptureTypes
    <3>2. capture' \in CaptureStates /\ capture'.phase = "handoff" /\ capture'.source \in Sources
      BY <2>3, <2>9, <3>1 DEF StoreReturns, CaptureStates
    <3> QED BY <2>2, <2>3, <3>2, CaptureMoves
  <2> QED BY <2>1, <2>4, <2>5, <2>6, <2>7, <2>8, <2>9
<1> QED BY <1>1, <1>2, <1>3

LEMMA TypesOfTick ==
  ASSUME TypeInv, Tick
  PROVE  TypeInv'
<1> USE DEF TypeInv
<1>1. \A n \in 0..Window : Less(n) \in 0..Window
  BY ExtractionAssumption DEF Less
<1>2. \A n \in 0..Window : n < Window => n + 1 \in 0..Window
  BY ExtractionAssumption
<1>3. session' \in SessionStates
  BY <1>1 DEF Tick, CaptureTypes, SessionStates
<1>4. ex' \in [Sources -> ExStates] /\ \A s \in Sources :
        ex'[s].phase = ex[s].phase /\ ex'[s].attempt = ex[s].attempt
  BY <1>1 DEF Tick, ExtractTypes, ExStates
<1>5. extract' \in [Runs -> RunStates]
  <2> SUFFICES ASSUME NEW a \in Runs PROVE extract'[a] \in RunStates
    BY DEF Tick
  <2>1. extract[a] \in RunStates
    BY DEF ExtractTypes
  <2>2. extract'[a] = [extract[a] EXCEPT !.left = Less(@)]
    BY DEF Tick
  <2> QED BY <1>1, <2>1, <2>2 DEF RunStates
<1>6. source' \in [Sources -> SourceStates]
  <2> SUFFICES ASSUME NEW s \in Sources PROVE source'[s] \in SourceStates
    BY DEF Tick
  <2>1. source[s] \in SourceStates
    BY DEF ExtractTypes
  <2>2. source'[s] = [source[s] EXCEPT !.age = IF @ < Window /\ Exists(s) THEN @ + 1 ELSE @]
    BY DEF Tick
  <2> QED BY <1>2, <2>1, <2>2 DEF SourceStates
<1>7. /\ store' \in [1..StoreTries -> StoreStates]
      /\ \A k \in 1..StoreTries : /\ store'[k].pc = store[k].pc
                                  /\ store'[k].content = store[k].content
                                  /\ store'[k].source = store[k].source
  <2> SUFFICES ASSUME NEW k \in 1..StoreTries
               PROVE  /\ store'[k] \in StoreStates /\ store'[k].pc = store[k].pc
                      /\ store'[k].content = store[k].content /\ store'[k].source = store[k].source
    BY DEF Tick
  <2>1. store[k] \in StoreStates
    BY DEF CaptureTypes
  <2>2. store'[k] = [store[k] EXCEPT !.left = Less(@),
                      !.age = IF @ < Window /\ store[k].pc = "inserted" THEN @ + 1 ELSE @]
    BY DEF Tick
  <2> QED BY <1>1, <1>2, <2>1, <2>2 DEF StoreStates
<1>8. ExtractTypes'
  BY <1>4, <1>5, <1>6 DEF ExtractTypes, Tick
<1>9. CaptureTypes'
  BY <1>3, <1>7 DEF CaptureTypes, Tick
<1> QED BY <1>8, <1>9

LEMMA TypeInvNext ==
  ASSUME TypeInv, SignalInv, [Next]_vars
  PROVE  TypeInv'
<1>1. CASE ExtractNext /\ UNCHANGED captureVars
  BY <1>1, TypesOfAttempt, TypesOfExtraction, CaptureTypesKept DEF ExtractNext, TypeInv
<1>2. CASE UNCHANGED vars
  BY <1>2, ExtractTypesKept, CaptureTypesKept DEF vars, extractVars, TypeInv
<1> QED
  BY <1>1, <1>2, TypesOfSchedule, TypesOfStore, TypesOfCapture, TypesOfTick DEF Next

-----------------------------------------------------------------------------
(* The signal. *)

LEMMA SignalKept ==
  ASSUME SignalInv, UNCHANGED <<bot, capture, schedule, signalled>>, session'.bot = session.bot
  PROVE  SignalInv'
BY DEF SignalInv, BotKnown, SignalNeverMissed

LEMMA SignalInvSchedule ==
  ASSUME TypeInv, SignalInv, NEW k \in 1..ScheduleTries,
         BotEnds(k) \/ ScheduleProgress(k) \/ ScheduleFails(k)
  PROVE  SignalInv'
<1> USE DEF TypeInv, CaptureTypes, SignalInv
<1>1. CASE BotEnds(k)
  BY <1>1 DEF BotEnds, extractVars, BotKnown, SignalNeverMissed
<1>2. CASE ScheduleReads(k)
  <2>1. /\ schedule[k].pc = "idle" /\ capture.phase = "schedule" /\ session'.bot = session.bot
        /\ UNCHANGED <<bot, capture, signalled>>
    BY <1>2 DEF ScheduleReads, SessionStates
  <2>2. PICK st \in ScheduleStates :
          /\ schedule' = [schedule EXCEPT ![k] = st] /\ st.pc \in {"fresh", "returned"}
          /\ st.pc = "returned" => BotKnown(st.bot)
    <3>1. CASE session.bot = 0
      <4> DEFINE st == [pc |-> "fresh", bot |-> 0]
      <4>1. st \in ScheduleStates /\ st.pc = "fresh"
        BY CaptureAssumption DEF ScheduleStates
      <4>2. schedule' = [schedule EXCEPT ![k] = st]
        BY <1>2, <3>1 DEF ScheduleReads
      <4> HIDE DEF st
      <4> QED BY <4>1, <4>2
    <3>2. CASE session.bot # 0
      <4> DEFINE st == [pc |-> "returned", bot |-> session.bot]
      <4>1. st \in ScheduleStates /\ st.pc = "returned" /\ st.bot = session.bot
        BY DEF ScheduleStates, SessionStates
      <4>2. schedule' = [schedule EXCEPT ![k] = st]
        BY <1>2, <3>2 DEF ScheduleReads
      <4> HIDE DEF st
      <4> QED BY <3>2, <4>1, <4>2
    <3> QED BY <3>1, <3>2
  <2>3. \A b : BotKnown(b) => BotKnown(b)'
    BY <2>1, <2>2 DEF BotKnown
  <2> QED BY <2>1, <2>2, <2>3 DEF SignalNeverMissed
<1>3. CASE ScheduleCalls(k)
  <2>1. /\ schedule[k].pc = "fresh" /\ UNCHANGED <<session, capture, signalled>>
        /\ bot' = [bot EXCEPT ![k] = "recording"]
        /\ schedule' = [schedule EXCEPT ![k] = [pc |-> "called", bot |-> k]]
    BY <1>3 DEF ScheduleCalls, extractVars
  <2>2. \A b : BotKnown(b) => BotKnown(b)' /\ b # k /\ bot'[b] = bot[b]
    BY <2>1 DEF BotKnown
  <2> QED BY <2>1, <2>2 DEF SignalNeverMissed
<1>4. CASE ScheduleRecords(k)
  <2>1. /\ schedule[k].pc = "called" /\ UNCHANGED <<bot, capture, signalled>>
        /\ session' = [session EXCEPT !.bot = k]
        /\ schedule' = [schedule EXCEPT ![k].pc = "returned"]
    BY <1>4 DEF ScheduleRecords
  <2>2. BotKnown(k)' /\ \A b : BotKnown(b) => BotKnown(b)'
    BY <2>1 DEF BotKnown, ScheduleStates
  <2>3. /\ session'.bot = k
        /\ \A j \in 1..ScheduleTries :
             /\ schedule'[j].bot = schedule[j].bot
             /\ j # k => schedule'[j] = schedule[j]
        /\ schedule'[k].pc = "returned"
    BY <2>1 DEF ScheduleStates, SessionStates
  <2> QED BY <2>1, <2>2, <2>3 DEF SignalNeverMissed
<1>5. CASE ScheduleFails(k)
  <2>1. /\ schedule[k].pc \in {"fresh", "called"} /\ UNCHANGED <<session, bot, capture, signalled>>
        /\ schedule' = [schedule EXCEPT ![k].pc = "failed"]
    BY <1>5 DEF ScheduleFails, extractVars
  <2>2. \A b : BotKnown(b) => BotKnown(b)'
    BY <2>1 DEF BotKnown
  <2> QED BY <2>1, <2>2 DEF SignalNeverMissed, ScheduleStates
<1> QED BY <1>1, <1>2, <1>3, <1>4, <1>5 DEF ScheduleProgress

LEMMA SignalInvCapture ==
  ASSUME TypeInv, SignalInv, TranscriptReady \/ CaptureProgress \/ PollFails \/ CaptureRetries
  PROVE  SignalInv'
<1> USE DEF SignalInv, SignalNeverMissed
<1>0. capture \in CaptureStates
  BY DEF TypeInv, CaptureTypes
<1>1. UNCHANGED <<bot, schedule>> /\ session' = session
  BY DEF TranscriptReady, CaptureProgress, PollFails, CaptureRetries, ScheduleReturns, PollStarts,
     PollReads, PollReturns, WaitEnds, StoreReturns, StartExtraction, extractVars
<1>2. \A b : BotKnown(b) => BotKnown(b)'
  BY <1>1 DEF BotKnown
<1>3. CASE TranscriptReady
  <2>1. /\ Polls /\ bot[capture.bot] = "done" /\ capture.phase # "schedule"
        /\ capture' = [capture EXCEPT !.nudged = TRUE]
    BY <1>3 DEF TranscriptReady, Polls
  <2>2. /\ capture'.nudged /\ capture'.phase = capture.phase /\ capture'.bot = capture.bot
    BY <1>0, <2>1 DEF CaptureStates
  <2> QED BY <1>1, <1>2, <2>1, <2>2
<1>4. CASE ScheduleReturns
  <2>1. /\ ~signalled /\ ~signalled' /\ BotKnown(schedule[capture.attempt].bot)
        /\ capture' = [capture EXCEPT !.phase = "poll", !.bot = schedule[capture.attempt].bot]
    BY <1>4 DEF ScheduleReturns, TypeInv, CaptureTypes
  <2>2. capture'.phase = "poll" /\ capture'.bot = schedule[capture.attempt].bot
    BY <1>0, <2>1 DEF CaptureStates
  <2> QED BY <1>1, <1>2, <2>1, <2>2
<1>5. CASE PollStarts \/ WaitEnds \/ PollFails \/ StoreReturns \/ StartExtraction
  <2>1. /\ UNCHANGED signalled /\ capture'.bot = capture.bot /\ capture.phase # "schedule"
        /\ capture'.phase \in {"polling", "poll", "failed", "handoff", "completed"}
        /\ capture'.phase \in {"polling", "poll"} => capture.phase \in {"poll", "waiting"}
    BY <1>0, <1>5 DEF PollStarts, WaitEnds, PollFails, StoreReturns, StartExtraction, CaptureStates
  <2>2. capture'.phase # "failed" => capture.phase # "failed"
    BY <1>0, <1>5 DEF PollStarts, WaitEnds, PollFails, StoreReturns, StartExtraction, CaptureStates
  <2> QED BY <1>1, <1>2, <2>1, <2>2
<1>6. CASE PollReads
  <2>1. /\ UNCHANGED signalled /\ capture.phase = "polling" /\ capture'.bot = capture.bot
        /\ capture'.phase = "polled" /\ capture'.seen = bot[capture.bot]
    BY <1>0, <1>6 DEF PollReads, CaptureStates
  <2> QED BY <1>1, <1>2, <2>1
<1>7. CASE PollReturns
  <2>1. /\ UNCHANGED signalled /\ capture.phase = "polled" /\ capture'.bot = capture.bot
        /\ capture'.phase = AfterPoll /\ capture'.nudged = capture.nudged
    BY <1>0, <1>7 DEF PollReturns, CaptureStates
  <2>2. /\ AfterPoll \in {"store", "failed", "waiting"}
        /\ AfterPoll = "waiting" => capture.seen # "done"
    BY DEF AfterPoll
  <2> QED BY <1>1, <1>2, <2>1, <2>2
<1>8. CASE CaptureRetries
  <2>1. /\ UNCHANGED signalled /\ capture'.bot = capture.bot /\ capture.phase \in {"schedule", "store"}
        /\ capture'.phase \in {capture.phase, "failed"}
    BY <1>0, <1>8 DEF CaptureRetries, CaptureStates
  <2> QED BY <1>1, <1>2, <2>1
<1> QED BY <1>3, <1>4, <1>5, <1>6, <1>7, <1>8 DEF CaptureProgress

LEMMA SignalInvNext ==
  ASSUME TypeInv, SignalInv, [Next]_vars
  PROVE  SignalInv'
<1>1. CASE (ExtractNext /\ UNCHANGED captureVars) \/ UNCHANGED vars
  <2>1. UNCHANGED session
    BY <1>1, TypesOfAttempt, TypesOfExtraction DEF ExtractNext, vars, extractVars
  <2> QED BY <1>1, <2>1, SignalKept DEF captureVars, vars
<1>2. ASSUME NEW k \in 1..StoreTries, StoreProgress(k) \/ StoreFails(k) PROVE SignalInv'
  <2>1. session'.bot = session.bot /\ UNCHANGED <<bot, capture, schedule, signalled>>
    BY <1>2 DEF StoreProgress, StoreFetches, StoreInserts, StoreCommits, StoreFails, extractVars,
       TypeInv, CaptureTypes, SessionStates
  <2> QED BY <2>1, SignalKept
<1>3. CASE Tick
  <2>1. session'.bot = session.bot /\ UNCHANGED <<bot, capture, schedule, signalled>>
    BY <1>3 DEF Tick, TypeInv, CaptureTypes, SessionStates
  <2> QED BY <2>1, SignalKept
<1> QED BY <1>1, <1>2, <1>3, SignalInvSchedule, SignalInvCapture DEF Next

-----------------------------------------------------------------------------
(* The output. *)

LEMMA OutputKept ==
  ASSUME OutputInv, UNCHANGED <<policy, output, runRows>>,
         \A a \in Runs : extract'[a].targets = extract[a].targets,
         \A s \in Sources : ex'[s].purge \in {ex[s].purge, "idle", "skipped"},
         \A s \in Sources : Ephemeral /\ source'[s].raw = "null" => source[s].raw = "null"
  PROVE  OutputInv'
BY DEF OutputInv, OutputOf, Ephemeral

LEMMA OutputInvAttempt ==
  ASSUME TypeInv, OutputInv, NEW a \in Runs, AttemptProgress(a) \/ ExtractFails(a)
  PROVE  OutputInv'
<1> USE DEF TypeInv, ExtractTypes
<1>0. extract[a] \in RunStates /\ a[1] \in Sources
  BY DEF Runs
<1>1. CASE ExtractReads(a) \/ ExtractRegisters(a) \/ ExtractFails(a)
  <2>1. PICK to : extract' = [extract EXCEPT ![a].pc = to]
    BY <1>1 DEF ExtractReads, ExtractRegisters, ExtractFails, Step
  <2>2. \A b \in Runs : extract'[b].targets = extract[b].targets
    BY <1>0, <2>1 DEF RunStates
  <2> QED BY <1>1, <2>2, OutputKept DEF ExtractReads, ExtractRegisters, ExtractFails
<1>2. CASE ExtractWipes(a) \/ ExtractWiped(a)
  <2>1. UNCHANGED <<policy, source, session, runRows, output, ex>>
    BY <1>2 DEF ExtractWipes, ExtractWiped
  <2>2. \A b \in Runs : b # a => extract'[b] = extract[b]
    BY <1>2 DEF ExtractWipes, ExtractWiped
  <2>3. extract'[a].targets \in {OutputOf(a[1]), extract[a].targets \cap output}
    BY <1>0, <1>2 DEF ExtractWipes, ExtractWiped, RunStates
  <2>4. \A b \in extract'[a].targets : b[1] = a[1]
    BY <2>3 DEF OutputInv, OutputOf
  <2> QED BY <2>1, <2>2, <2>4 DEF OutputInv, OutputOf, Ephemeral
<1>3. CASE ExtractCommits(a)
  <2>1. /\ UNCHANGED <<policy, source, session, ex>>
        /\ output' = (output \ extract[a].targets) \cup {a}
        /\ runRows' = runRows \cup {a[1]}
    BY <1>3 DEF ExtractCommits
  <2>2. \A b \in Runs : extract'[b].targets = extract[b].targets
    BY <1>0, <1>3 DEF ExtractCommits, RunStates
  <2>3. \A s \in Sources : s # a[1] => OutputOf(s) \subseteq OutputOf(s)'
    BY <2>1 DEF OutputOf, OutputInv
  <2>4. a \in OutputOf(a[1])'
    BY <2>1 DEF OutputOf
  <2> QED BY <1>0, <2>1, <2>2, <2>3, <2>4 DEF OutputInv, Ephemeral
<1> QED BY <1>1, <1>2, <1>3 DEF AttemptProgress

LEMMA OutputInvExtraction ==
  ASSUME TypeInv, OutputInv, NEW s \in Sources,
         ExtractionProgress(s) \/ ExtractionRetries(s) \/ PurgeFails(s)
  PROVE  OutputInv'
<1> USE DEF TypeInv, ExtractTypes
<1>0. ex[s] \in ExStates /\ ex \in [Sources -> ExStates]
  OBVIOUS
<1>1. UNCHANGED <<policy, runRows, output, extract>> /\ \A x \in Sources : x # s => ex'[x] = ex[x]
  BY <1>0 DEF ExtractionProgress, ExtractionReturns, ExtractionRetries, TimerFires, PurgeChecks,
     PurgeNulls, PurgeFails, PurgeReturns
<1>2. CASE ~PurgeChecks(s) /\ ~PurgeNulls(s)
  <2>1. ex'[s].purge \in {ex[s].purge, "idle"} /\ UNCHANGED source
    BY <1>0, <1>2 DEF ExtractionProgress, ExtractionReturns, ExtractionRetries, TimerFires,
       PurgeFails, PurgeReturns, ExStates
  <2> QED BY <1>1, <2>1, OutputKept
<1>3. CASE PurgeChecks(s)
  <2>1. UNCHANGED source /\ ex'[s].purge \in {"checked", "skipped"}
        /\ (ex'[s].purge = "checked" => s \in runRows)
    BY <1>0, <1>3 DEF PurgeChecks, ExStates
  <2> QED BY <1>1, <2>1 DEF OutputInv, OutputOf, Ephemeral
<1>4. CASE PurgeNulls(s)
  <2>1. s \in runRows
    BY <1>4 DEF PurgeNulls, OutputInv
  <2>2. \A x \in Sources : x # s => source'[x] = source[x]
    BY <1>4 DEF PurgeNulls
  <2> QED BY <1>1, <2>1, <2>2 DEF OutputInv, OutputOf, Ephemeral
<1> QED BY <1>2, <1>3, <1>4

LEMMA OutputInvNext ==
  ASSUME TypeInv, OutputInv, [Next]_vars
  PROVE  OutputInv'
<1>1. CASE ExtractNext /\ UNCHANGED captureVars
  BY <1>1, OutputInvAttempt, OutputInvExtraction DEF ExtractNext
<1>2. CASE UNCHANGED vars
  BY <1>2, OutputKept DEF vars, extractVars
<1>3. ASSUME NEW k \in 1..ScheduleTries, BotEnds(k) \/ ScheduleProgress(k) \/ ScheduleFails(k)
      PROVE  OutputInv'
  BY <1>3, OutputKept DEF BotEnds, ScheduleProgress, ScheduleReads, ScheduleCalls, ScheduleRecords,
     ScheduleFails, extractVars
<1>4. ASSUME NEW k \in 1..StoreTries, StoreProgress(k) \/ StoreFails(k) PROVE OutputInv'
  <2>1. CASE StoreFetches(k) \/ StoreInserts(k) \/ StoreFails(k)
    BY <2>1, OutputKept DEF StoreFetches, StoreInserts, StoreFails, extractVars
  <2>2. CASE StoreCommits(k)
    <3>1. UNCHANGED <<policy, output, runRows, ex, extract>>
      BY <2>2 DEF StoreCommits
    <3>2. \A s \in Sources : Ephemeral /\ source'[s].raw = "null" => source[s].raw = "null"
      BY <2>2 DEF StoreCommits, Ephemeral, TypeInv, ExtractTypes, SourceStates
    <3> QED BY <3>1, <3>2, OutputKept
  <2> QED BY <1>4, <2>1, <2>2 DEF StoreProgress
<1>5. CASE TranscriptReady \/ CaptureProgress \/ PollFails \/ CaptureRetries
  <2>1. CASE StartExtraction
    <3>1. \A s \in Sources : ex'[s].purge = ex[s].purge
      BY <2>1 DEF StartExtraction, TypeInv, ExtractTypes, ExStates
    <3> QED BY <2>1, <3>1, OutputKept DEF StartExtraction
  <2>2. CASE ~StartExtraction
    BY <1>5, <2>2, OutputKept DEF TranscriptReady, CaptureProgress, PollFails, CaptureRetries,
       ScheduleReturns, PollStarts, PollReads, PollReturns, WaitEnds, StoreReturns, extractVars
  <2> QED BY <2>1, <2>2
<1>6. CASE Tick
  <2>1. UNCHANGED <<policy, output, runRows>>
    BY <1>6 DEF Tick
  <2>2. \A a \in Runs : extract'[a].targets = extract[a].targets
    BY <1>6, ZenonT(30) DEF Tick, TypeInv, ExtractTypes, RunStates
  <2>3. \A s \in Sources : ex'[s].purge = ex[s].purge
    BY <1>6 DEF Tick, TypeInv, ExtractTypes, ExStates
  <2>4. \A s \in Sources : source'[s].raw = source[s].raw
    BY <1>6 DEF Tick, TypeInv, ExtractTypes, SourceStates
  <2> QED BY <2>1, <2>2, <2>3, <2>4, OutputKept
<1> QED BY <1>1, <1>2, <1>3, <1>4, <1>5, <1>6 DEF Next

-----------------------------------------------------------------------------
(* The deadlines.  A row that exists goes on existing, and but for Tick keeps
   its age: what was in time of it is in time of it. *)

LEMMA InTimeKept ==
  ASSUME \A s \in Sources : Exists(s) => Exists(s)' /\ source'[s].age = source[s].age
  PROVE  \A left : \A s \in Sources : InTime(left, s) => InTime(left, s)'
BY DEF InTime

(* Only one of the copies of a deadline moves at a time. *)
LEMMA DeadlineKept ==
  ASSUME TypeInv, DeadlineInv, UNCHANGED <<policy, source>>,
         UNCHANGED store \/ StoreDeadlines',
         (session'.source = session.source /\ session'.left = session.left) \/ SessionDeadline',
         UNCHANGED extract \/ RunDeadlines',
         UNCHANGED ex \/ TimerDeadlines'
  PROVE  DeadlineInv'
<1> USE DEF DeadlineInv, Ephemeral, InTime, Exists
<1>1. StoreDeadlines'
  BY DEF StoreDeadlines
<1>2. SessionDeadline'
  BY DEF SessionDeadline
<1>3. RunDeadlines'
  BY DEF RunDeadlines
<1>4. TimerDeadlines'
  BY DEF TimerDeadlines
<1>5. WindowKept'
  BY DEF WindowKept
<1> QED BY <1>1, <1>2, <1>3, <1>4, <1>5

LEMMA DeadlinesOfAttempt ==
  ASSUME TypeInv, DeadlineInv, NEW a \in Runs, AttemptProgress(a) \/ ExtractFails(a), UNCHANGED store
  PROVE  DeadlineInv'
<1> USE DEF TypeInv, ExtractTypes
<1>0. extract[a] \in RunStates /\ a[1] \in Sources
  BY DEF Runs
<1>1. UNCHANGED <<policy, source, session, ex>> /\ \A b \in Runs : b # a => extract'[b] = extract[b]
  BY DEF AttemptProgress, ExtractReads, ExtractWipes, ExtractWiped, ExtractRegisters, ExtractCommits,
     ExtractFails, Step
<1>2. CASE ~ExtractCommits(a)
  <2>1. extract'[a].pc \notin {"idle", "rejected", "committed"} => Exists(a[1])
    BY <1>0, <1>2 DEF AttemptProgress, ExtractReads, ExtractWipes, ExtractWiped, ExtractRegisters,
       ExtractFails, Step, RunStates, DeadlineInv, RunDeadlines, Exists
  <2>2. extract'[a].pc # "committed"
    BY <1>0, <1>2 DEF AttemptProgress, ExtractReads, ExtractWipes, ExtractWiped, ExtractRegisters,
       ExtractFails, Step, RunStates
  <2>3. RunDeadlines'
    BY <1>1, <2>1, <2>2 DEF RunDeadlines, DeadlineInv, Exists, Ephemeral, InTime
  <2> QED BY <1>1, <2>3, DeadlineKept
<1>3. CASE ExtractCommits(a)
  <2>1. Exists(a[1])
    BY <1>3 DEF ExtractCommits, DeadlineInv, RunDeadlines
  <2>2. Ephemeral => extract'[a].left = IF session.source = a[1] THEN session.left ELSE Window
    BY <1>0, <1>3 DEF ExtractCommits, RunStates
  <2>3. Ephemeral => InTime(extract'[a].left, a[1])
    <3>1. CASE session.source = a[1]
      BY <1>0, <2>2, <3>1, ExtractionAssumption DEF DeadlineInv, SessionDeadline
    <3>2. CASE session.source # a[1]
      BY <1>0, <2>1, <2>2, <3>2, ExtractionAssumption DEF InTime, SourceStates
    <3> QED BY <3>1, <3>2
  <2>4. RunDeadlines'
    BY <1>1, <2>1, <2>3 DEF RunDeadlines, DeadlineInv, Exists, Ephemeral, InTime
  <2> QED BY <1>1, <2>4, DeadlineKept
<1> QED BY <1>2, <1>3

LEMMA DeadlinesOfExtraction ==
  ASSUME TypeInv, DeadlineInv, NEW s \in Sources, UNCHANGED store,
         ExtractionProgress(s) \/ ExtractionRetries(s) \/ PurgeFails(s)
  PROVE  DeadlineInv'
<1> USE DEF TypeInv, ExtractTypes
<1>0. ex[s] \in ExStates /\ ex \in [Sources -> ExStates]
  OBVIOUS
<1>1. UNCHANGED <<policy, session, extract>> /\ \A x \in Sources : x # s => ex'[x] = ex[x]
  BY <1>0 DEF ExtractionProgress, ExtractionReturns, ExtractionRetries, TimerFires, PurgeChecks,
     PurgeNulls, PurgeFails, PurgeReturns
<1>2. CASE ExtractionReturns(s)
  <2>1. <<s, ex[s].attempt>> \in Runs /\ CurrentRun(s).pc = "committed"
    BY <1>2 DEF ExtractionReturns, Runs
  <2>2. Ephemeral => InTime(CurrentRun(s).left, s)
    BY <2>1 DEF DeadlineInv, RunDeadlines, CurrentRun
  <2>3. /\ ex'[s].phase = IF Ephemeral THEN "sleep" ELSE "completed"
        /\ ex'[s].left = CurrentRun(s).left /\ UNCHANGED source
    BY <1>0, <1>2 DEF ExtractionReturns, ExStates
  <2>4. TimerDeadlines'
    BY <1>1, <2>2, <2>3 DEF TimerDeadlines, DeadlineInv, InTime, Exists, Ephemeral
  <2> QED BY <1>1, <2>3, <2>4, DeadlineKept
<1>3. CASE TimerFires(s)
  <2>1. ex[s].phase = "sleep" /\ ex[s].left = 0 /\ UNCHANGED source
    BY <1>3 DEF TimerFires
  <2>2. Ephemeral /\ Exists(s) /\ source[s].age = Window
    <3>1. Ephemeral /\ Exists(s) /\ 0 + source[s].age >= Window
      BY <2>1 DEF DeadlineInv, TimerDeadlines, InTime
    <3>2. source[s].age \in 0..Window
      BY DEF SourceStates
    <3> QED BY <3>1, <3>2, ExtractionAssumption
  <2>3. ex'[s].phase = "purge"
    BY <1>0, <1>3 DEF TimerFires, ExStates
  <2>4. TimerDeadlines'
    BY <1>1, <2>1, <2>2, <2>3 DEF TimerDeadlines, DeadlineInv, InTime, Exists, Ephemeral
  <2> QED BY <1>1, <2>1, <2>4, DeadlineKept
<1>4. CASE ExtractionRetries(s) \/ PurgeChecks(s) \/ PurgeFails(s) \/ PurgeReturns(s)
  <2>1. ex'[s].phase \in {ex[s].phase, "completed", "failed"} /\ ex'[s].left = ex[s].left /\ UNCHANGED source
    BY <1>0, <1>4 DEF ExtractionRetries, PurgeChecks, PurgeFails, PurgeReturns, ExStates
  <2>2. TimerDeadlines'
    BY <1>1, <2>1 DEF TimerDeadlines, DeadlineInv, InTime, Exists, Ephemeral
  <2> QED BY <1>1, <2>1, <2>2, DeadlineKept
<1>5. CASE PurgeNulls(s)
  <2>1. Ephemeral /\ Exists(s) /\ source[s].age = Window
    BY <1>5 DEF PurgeNulls, DeadlineInv, TimerDeadlines
  <2>2. source' = [source EXCEPT ![s].raw = "null"]
    BY <1>5 DEF PurgeNulls
  <2>3. \A x \in Sources : source'[x].age = source[x].age /\ (Exists(x)' <=> Exists(x))
                          /\ (x # s => source'[x] = source[x])
    BY <2>1, <2>2 DEF Exists, SourceStates
  <2>4. \A x \in Sources : ex'[x].phase = ex[x].phase /\ ex'[x].left = ex[x].left
    BY <1>0, <1>5 DEF PurgeNulls, ExStates
  <2>5. \A left : \A x \in Sources : InTime(left, x) => InTime(left, x)'
    BY <2>3, InTimeKept
  <2>6. StoreDeadlines'
    BY <1>1, <2>3, <2>5 DEF StoreDeadlines, DeadlineInv, CaptureTypes, Ephemeral
  <2>7. SessionDeadline'
    BY <1>1, <2>5 DEF SessionDeadline, DeadlineInv, CaptureTypes, SessionStates, Ephemeral
  <2>8. RunDeadlines'
    BY <1>1, <2>3, <2>5 DEF RunDeadlines, DeadlineInv, Runs, Ephemeral
  <2>9. TimerDeadlines'
    BY <1>1, <2>3, <2>4, <2>5 DEF TimerDeadlines, DeadlineInv, Ephemeral
  <2>10. WindowKept'
    BY <1>1, <2>1, <2>3 DEF WindowKept, DeadlineInv, Ephemeral
  <2> QED BY <2>6, <2>7, <2>8, <2>9, <2>10 DEF DeadlineInv
<1> QED BY <1>2, <1>3, <1>4, <1>5 DEF ExtractionProgress

LEMMA DeadlinesOfStore ==
  ASSUME TypeInv, DeadlineInv, NEW k \in 1..StoreTries, StoreProgress(k) \/ StoreFails(k)
  PROVE  DeadlineInv'
<1> USE DEF TypeInv, CaptureTypes
<1>0. store[k] \in StoreStates
  OBVIOUS
<1>1. UNCHANGED <<policy, ex, extract>> /\ \A j \in 1..StoreTries : j # k => store'[j] = store[j]
  BY DEF StoreProgress, StoreFetches, StoreInserts, StoreCommits, StoreFails, extractVars
<1>2. CASE StoreFetches(k) \/ StoreFails(k)
  <2>1. UNCHANGED <<source, session>>
    BY <1>2 DEF StoreFetches, StoreFails, extractVars
  <2>2. store'[k].pc \in {"fetched", "failed"}
    <3>1. CASE store' = [store EXCEPT ![k].pc = "failed"]
      BY <1>0, <3>1 DEF StoreStates
    <3>2. ASSUME NEW c \in Sources, store' = [store EXCEPT ![k].pc = "fetched", ![k].content = c]
          PROVE  store'[k].pc = "fetched"
      BY <1>0, <3>2 DEF StoreStates
    <3> QED BY <1>2, <3>1, <3>2 DEF StoreFetches, StoreFails
  <2>3. StoreDeadlines'
    BY <1>1, <2>1, <2>2 DEF StoreDeadlines, DeadlineInv, InTime, Exists, Ephemeral
  <2> QED BY <1>1, <2>1, <2>3, DeadlineKept
<1>3. CASE StoreInserts(k)
  <2>1. UNCHANGED <<source, session>>
    BY <1>3 DEF StoreInserts, extractVars
  <2>2. CASE store' = [store EXCEPT ![k].pc = "inserted", ![k].source = store[k].content,
                                    ![k].left = PurgeDeadline] /\ ~Exists(store[k].content)
    <3>1. /\ store'[k].pc = "inserted" /\ store'[k].source = store[k].content
          /\ store'[k].content = store[k].content /\ store'[k].left = PurgeDeadline
          /\ store'[k].age = store[k].age
      BY <1>0, <2>2 DEF StoreStates
    <3>2. Ephemeral => store'[k].left + store'[k].age >= Window
      BY <1>0, <3>1, ExtractionAssumption DEF PurgeDeadline, StoreStates
    <3>3. \A j \in 1..StoreTries : store[j].pc = "inserted" => store[j].source # store[k].content
      BY <1>3, ZenonT(30) DEF StoreInserts, DeadlineInv, StoreDeadlines
    <3>4. StoreDeadlines'
      <4>1. \A s \in Sources : Exists(s)' <=> Exists(s)
        BY <2>1 DEF Exists
      <4>2. \A j \in 1..StoreTries : store'[j].pc = "inserted" /\ j # k => store'[j].source # store'[k].source
        BY <1>1, <3>1, <3>3
      <4>3. ~Exists(store'[k].source)
        BY <2>1, <2>2, <3>1 DEF Exists
      <4>4. ASSUME NEW j \in 1..StoreTries, j # k
            PROVE  /\ store'[j].pc = "inserted" =>
                        /\ store'[j].content = store'[j].source /\ ~Exists(store'[j].source)
                        /\ \A i \in 1..StoreTries :
                             store'[i].pc = "inserted" /\ store'[i].source = store'[j].source => i = j
                        /\ Ephemeral => store'[j].left + store'[j].age >= Window
                   /\ store'[j].pc = "found" /\ Ephemeral => InTime(store'[j].left, store'[j].source)
        <5>1. store'[j] = store[j]
          BY <1>1, <4>4
        <5>2. store[j].pc = "inserted" =>
                /\ store[j].content = store[j].source /\ ~Exists(store[j].source)
                /\ \A i \in 1..StoreTries :
                     store[i].pc = "inserted" /\ store[i].source = store[j].source => i = j
                /\ Ephemeral => store[j].left + store[j].age >= Window
          BY DEF StoreDeadlines, DeadlineInv
        <5>3. store[j].pc = "found" /\ Ephemeral => InTime(store[j].left, store[j].source)
          BY DEF StoreDeadlines, DeadlineInv
        <5> QED BY <1>1, <4>2, <5>1, <5>2, <5>3
      <4>5. Ephemeral' <=> Ephemeral
        BY <1>1 DEF Ephemeral
      <4>6. \A left, s : InTime(left, s)' <=> InTime(left, s)
        BY <2>1 DEF InTime, Exists
      <4>7. \A s : Exists(s)' <=> Exists(s)
        BY <2>1 DEF Exists
      <4> QED BY <3>1, <3>2, <4>2, <4>3, <4>4, <4>5, <4>6, <4>7 DEF StoreDeadlines
    <3> QED BY <1>1, <2>1, <3>4, DeadlineKept
  <2>3. ASSUME NEW s \in Sources, Exists(s),
               store' = [store EXCEPT ![k].pc = "found", ![k].source = s, ![k].left = PurgeDeadline]
        PROVE  DeadlineInv'
    <3>1. store'[k].pc = "found" /\ store'[k].source = s /\ store'[k].left = PurgeDeadline
      BY <1>0, <2>3 DEF StoreStates
    <3>2. Ephemeral => InTime(PurgeDeadline, s)
      BY <2>3, ExtractionAssumption DEF PurgeDeadline, InTime, SourceStates, ExtractTypes
    <3>3. StoreDeadlines'
      BY <1>1, <2>1, <3>1, <3>2 DEF StoreDeadlines, DeadlineInv, InTime, Exists, Ephemeral
    <3> QED BY <1>1, <2>1, <3>3, DeadlineKept
  <2> QED BY <1>3, <2>2, <2>3 DEF StoreInserts
<1>4. CASE StoreCommits(k)
  <2>1. /\ store'[k].pc = "committed" /\ store[k].source \in Sources
        /\ session'.source = store[k].source /\ session'.left = store[k].left
    BY <1>0, <1>4 DEF StoreCommits, StoreStates, SessionStates
  <2>2. CASE store[k].pc = "found"
    <3>1. UNCHANGED source
      BY <1>4, <2>2 DEF StoreCommits
    <3>2. StoreDeadlines'
      BY <1>1, <2>1, <3>1 DEF StoreDeadlines, DeadlineInv, InTime, Exists, Ephemeral
    <3>3. SessionDeadline'
      BY <1>1, <2>1, <2>2, <3>1 DEF SessionDeadline, StoreDeadlines, DeadlineInv, InTime, Exists, Ephemeral
    <3> QED BY <1>1, <3>1, <3>2, <3>3, DeadlineKept
  <2>3. CASE store[k].pc = "inserted"
    <3> PICK s \in Sources : s = store[k].source
      BY <2>1
    <3> DEFINE row == [raw |-> IF policy = "reference-only" THEN "null" ELSE "kept",
                       age |-> store[k].age]
    <3>1. source' = [source EXCEPT ![s] = row]
      BY <1>4, <2>3 DEF StoreCommits
    <3>2. /\ ~Exists(s) /\ Exists(s)' /\ source'[s].age = store[k].age
          /\ Ephemeral => source'[s].raw = "kept" /\ store[k].left + store[k].age >= Window
      <4>1. source'[s] = row
        BY <2>1, <3>1 DEF ExtractTypes
      <4>2. ~Exists(s) /\ (Ephemeral => store[k].left + store[k].age >= Window)
        BY <2>3 DEF DeadlineInv, StoreDeadlines
      <4>3. Exists(s)' /\ source'[s].age = store[k].age
        BY <4>1 DEF Exists
      <4>4. Ephemeral => source'[s].raw = "kept"
        BY <4>1 DEF Ephemeral
      <4> QED BY <4>2, <4>3, <4>4
    <3>3. \A x \in Sources : x # s => source'[x] = source[x]
      BY <3>1 DEF ExtractTypes
    <3> HIDE DEF row
    <3>4. \A x \in Sources : Exists(x) => Exists(x)' /\ source'[x] = source[x]
      BY <3>2, <3>3 DEF Exists
    <3>5. \A left : \A x \in Sources : InTime(left, x) => InTime(left, x)'
      BY <3>4, InTimeKept
    <3>6. StoreDeadlines'
      <4>1. \A j \in 1..StoreTries : j # k /\ store[j].pc = "inserted" =>
              store[j].source # s /\ store[j].source \in Sources
        BY <2>3 DEF DeadlineInv, StoreDeadlines
      <4>2. \A j \in 1..StoreTries : j # k /\ store[j].pc = "inserted" => ~Exists(store[j].source)'
        BY <1>1, <3>3, <4>1 DEF DeadlineInv, StoreDeadlines, Exists
      <4> QED BY <1>1, <2>1, <3>5, <4>2 DEF DeadlineInv, StoreDeadlines, Ephemeral
    <3>7. SessionDeadline'
      <4>1. Ephemeral => Exists(s)' /\ session'.left + source'[s].age >= Window
        BY <2>1, <3>2
      <4> QED BY <1>1, <2>1, <4>1 DEF SessionDeadline, InTime, Exists, Ephemeral
    <3>8. RunDeadlines'
      BY <1>1, <3>4, <3>5 DEF RunDeadlines, DeadlineInv, Runs, Ephemeral
    <3>9. TimerDeadlines'
      BY <1>1, <3>4, <3>5 DEF TimerDeadlines, DeadlineInv, Ephemeral
    <3>10. WindowKept'
      BY <1>1, <3>2, <3>3 DEF WindowKept, DeadlineInv, Ephemeral
    <3> QED BY <3>6, <3>7, <3>8, <3>9, <3>10 DEF DeadlineInv
  <2> QED BY <1>4, <2>2, <2>3 DEF StoreCommits
<1> QED BY <1>2, <1>3, <1>4 DEF StoreProgress

LEMMA DeadlinesOfTick ==
  ASSUME TypeInv, DeadlineInv, Tick
  PROVE  DeadlineInv'
<1> USE DEF TypeInv, ExtractTypes, CaptureTypes
<1>1. /\ UNCHANGED policy
      /\ \A s \in Sources : /\ source'[s].raw = source[s].raw
                            /\ source'[s].age = IF source[s].age < Window /\ Exists(s)
                                                THEN source[s].age + 1 ELSE source[s].age
                            /\ ex'[s].phase = ex[s].phase /\ ex'[s].left = Less(ex[s].left)
      /\ \A a \in Runs : extract'[a].pc = extract[a].pc /\ extract'[a].left = Less(extract[a].left)
      /\ session'.source = session.source /\ session'.left = Less(session.left)
      /\ \A k \in 1..StoreTries :
           /\ store'[k].pc = store[k].pc /\ store'[k].content = store[k].content
           /\ store'[k].source = store[k].source /\ store'[k].left = Less(store[k].left)
           /\ store'[k].age = IF store[k].age < Window /\ store[k].pc = "inserted"
                               THEN store[k].age + 1 ELSE store[k].age
  <2>1. UNCHANGED policy
    BY DEF Tick
  <2>2. ASSUME NEW s \in Sources
        PROVE  /\ source'[s].raw = source[s].raw
               /\ source'[s].age = IF source[s].age < Window /\ Exists(s)
                                   THEN source[s].age + 1 ELSE source[s].age
    BY DEF Tick, SourceStates
  <2>3. ASSUME NEW s \in Sources
        PROVE  ex'[s].phase = ex[s].phase /\ ex'[s].left = Less(ex[s].left)
    BY DEF Tick, ExStates
  <2>4. ASSUME NEW a \in Runs
        PROVE  extract'[a].pc = extract[a].pc /\ extract'[a].left = Less(extract[a].left)
    <3>1. extract[a] \in RunStates
      OBVIOUS
    <3>2. extract'[a] = [extract[a] EXCEPT !.left = Less(@)]
      BY DEF Tick
    <3> QED BY <3>1, <3>2 DEF RunStates
  <2>5. session'.source = session.source /\ session'.left = Less(session.left)
    BY DEF Tick, SessionStates
  <2>6. ASSUME NEW k \in 1..StoreTries
        PROVE  /\ store'[k].pc = store[k].pc /\ store'[k].content = store[k].content
               /\ store'[k].source = store[k].source /\ store'[k].left = Less(store[k].left)
               /\ store'[k].age = IF store[k].age < Window /\ store[k].pc = "inserted"
                                   THEN store[k].age + 1 ELSE store[k].age
    <3> DEFINE age == IF store[k].age < Window /\ store[k].pc = "inserted"
                      THEN store[k].age + 1 ELSE store[k].age
               t == [store[k] EXCEPT !.left = Less(store[k].left), !.age = age]
    <3>1. store'[k] = t
      BY DEF Tick
    <3>2. store[k] \in StoreStates
      OBVIOUS
    <3> HIDE DEF age
    <3>3. /\ t.pc = store[k].pc /\ t.content = store[k].content /\ t.source = store[k].source
          /\ t.left = Less(store[k].left) /\ t.age = age
      BY <3>2 DEF StoreStates
    <3> HIDE DEF t
    <3> QED BY <3>1, <3>3 DEF age
  <2> QED BY <2>1, <2>2, <2>3, <2>4, <2>5, <2>6
<1>2. \A left \in 0..Window : \A age \in 0..Window :
        left + age >= Window => Less(left) + (IF age < Window THEN age + 1 ELSE age) >= Window
  BY ExtractionAssumption DEF Less
<1>3. \A left \in 0..Window : \A s \in Sources : InTime(left, s) => InTime(Less(left), s)'
  BY <1>1, <1>2 DEF InTime, Exists, SourceStates, Less
<1>4. \A s \in Sources : Exists(s)' <=> Exists(s)
  BY <1>1 DEF Exists
<1>5. Ephemeral' <=> Ephemeral
  BY <1>1 DEF Ephemeral
<1>6. StoreDeadlines'
  <2>1. \A k \in 1..StoreTries : store[k].left \in 0..Window /\ store[k].age \in 0..Window
    BY DEF StoreStates
  <2> QED BY <1>1, <1>2, <1>3, <1>4, <1>5, <2>1 DEF StoreDeadlines, DeadlineInv
<1>7. SessionDeadline'
  BY <1>1, <1>3, <1>5 DEF SessionDeadline, DeadlineInv, SessionStates
<1>8. RunDeadlines'
  BY <1>1, <1>3, <1>4, <1>5 DEF RunDeadlines, DeadlineInv, RunStates, Runs
<1>9. TimerDeadlines'
  <2> SUFFICES ASSUME NEW s \in Sources
               PROVE  /\ ex[s].phase = "sleep" =>
                           Ephemeral /\ Exists(s)' /\ Less(ex[s].left) + source'[s].age >= Window
                      /\ ex[s].phase = "purge" => Ephemeral /\ Exists(s) /\ source'[s].age = Window
    BY <1>1, <1>4, <1>5 DEF TimerDeadlines, InTime
  <2>1. ex[s].left \in 0..Window
    BY DEF ExStates
  <2>2. ex[s].phase = "sleep" =>
          Ephemeral /\ Exists(s)' /\ Less(ex[s].left) + source'[s].age >= Window
    BY <1>3, <2>1 DEF DeadlineInv, TimerDeadlines, InTime
  <2>3. ex[s].phase = "purge" => Ephemeral /\ Exists(s) /\ source'[s].age = Window
    BY <1>1, ExtractionAssumption DEF DeadlineInv, TimerDeadlines
  <2> QED BY <2>2, <2>3
<1>10. WindowKept'
  BY <1>1, <1>5, ExtractionAssumption DEF WindowKept, DeadlineInv
<1> QED BY <1>6, <1>7, <1>8, <1>9, <1>10 DEF DeadlineInv

LEMMA DeadlineInvNext ==
  ASSUME TypeInv, DeadlineInv, [Next]_vars
  PROVE  DeadlineInv'
<1>1. CASE ExtractNext /\ UNCHANGED captureVars
  BY <1>1, DeadlinesOfAttempt, DeadlinesOfExtraction DEF ExtractNext, captureVars
<1>2. CASE UNCHANGED vars
  BY <1>2, DeadlineKept DEF vars, extractVars, captureVars
<1>3. ASSUME NEW k \in 1..ScheduleTries, BotEnds(k) \/ ScheduleProgress(k) \/ ScheduleFails(k)
      PROVE  DeadlineInv'
  <2>1. UNCHANGED <<policy, source, store, extract, ex>>
    BY <1>3 DEF BotEnds, ScheduleProgress, ScheduleReads, ScheduleCalls, ScheduleRecords,
       ScheduleFails, extractVars
  <2>2. session'.source = session.source /\ session'.left = session.left
    BY <1>3 DEF BotEnds, ScheduleProgress, ScheduleReads, ScheduleCalls, ScheduleRecords,
       ScheduleFails, extractVars, TypeInv, CaptureTypes, SessionStates
  <2> QED BY <2>1, <2>2, DeadlineKept
<1>4. CASE TranscriptReady \/ CaptureProgress \/ PollFails \/ CaptureRetries
  <2>1. CASE StartExtraction
    <3>1. TimerDeadlines'
      BY <2>1 DEF StartExtraction, TypeInv, ExtractTypes, CaptureTypes, ExStates, DeadlineInv,
         TimerDeadlines, InTime, Exists, Ephemeral
    <3> QED BY <2>1, <3>1, DeadlineKept DEF StartExtraction
  <2>2. CASE ~StartExtraction
    BY <1>4, <2>2, DeadlineKept DEF TranscriptReady, CaptureProgress, PollFails, CaptureRetries,
       ScheduleReturns, PollStarts, PollReads, PollReturns, WaitEnds, StoreReturns, extractVars
  <2> QED BY <2>1, <2>2
<1> QED BY <1>1, <1>2, <1>3, <1>4, DeadlinesOfStore, DeadlinesOfTick DEF Next

-----------------------------------------------------------------------------
LEMMA CaptureInvInit ==
  ASSUME Init
  PROVE  CaptureInv
<1> USE DEF Init, ExtractInit
<1>1. TypeInv
  BY ExtractionAssumption, CaptureAssumption DEF TypeInv, ExtractTypes, CaptureTypes, SourceStates,
     ExStates, RunStates, SessionStates, CaptureStates, ScheduleStates, StoreStates
<1>2. SignalInv
  BY DEF SignalInv, SignalNeverMissed
<1>3. OutputInv
  BY DEF OutputInv
<1>4. DeadlineInv
  BY DEF DeadlineInv, StoreDeadlines, SessionDeadline, RunDeadlines, TimerDeadlines, WindowKept
<1> QED BY <1>1, <1>2, <1>3, <1>4 DEF CaptureInv

(* Whatever the workflow, the activities' abandoned attempts, Recall and the
   clock do in whatever order, the three arguments above hold together. *)
THEOREM CaptureInvariant == Spec => []CaptureInv
<1>1. Init => CaptureInv
  BY CaptureInvInit
<1>2. CaptureInv /\ [Next]_vars => CaptureInv'
  BY TypeInvNext, SignalInvNext, OutputInvNext, DeadlineInvNext DEF CaptureInv
<1> QED BY <1>1, <1>2, PTL DEF Spec

(* Every variable of the capture and the extraction keeps its type. *)
THEOREM CaptureTypeCorrect == Spec => []TypeOK
<1>1. CaptureInv => TypeOK
  BY DEF CaptureInv, TypeInv, ExtractTypes, CaptureTypes, TypeOK, ExtractTypeOK, SourceStates,
     ExStates, RunStates, SessionStates, CaptureStates, ScheduleStates, StoreStates
<1> QED BY <1>1, CaptureInvariant, PTL

(* captureSessionWorkflow, "never a missed signal": the nudge is cleared before
   the poll it makes redundant, so a workflow that goes to wait after the
   transcript was announced does not wait out its timer. *)
THEOREM NoSignalIsMissed == Spec => []SignalNeverMissed
<1>1. CaptureInv => SignalNeverMissed
  BY DEF CaptureInv, SignalInv
<1> QED BY <1>1, CaptureInvariant, PTL

(* purgeRawBodyActivity nulls the only copy of a transcript after its run was
   registered, and no later wipe of an abandoned attempt empties what a
   registered run wrote: a purged body has its facts, evidence, embeddings. *)
THEOREM PurgeIsAfterOutput == Spec => []PurgeKeepsOutput
<1>1. CaptureInv => PurgeKeepsOutput
  BY DEF CaptureInv, OutputInv, PurgeKeepsOutput
<1> QED BY <1>1, CaptureInvariant, PTL

(* Under derived-ephemeral-raw a body outlives its reprocessing window: every
   copy of the deadline, in a retried store, the session row, a run's result
   or the workflow's timer, is no nearer than the row's own window ends. *)
THEOREM WindowIsKept == Spec => []WindowKept
<1>1. CaptureInv => WindowKept
  BY DEF CaptureInv, DeadlineInv
<1> QED BY <1>1, CaptureInvariant, PTL
=============================================================================
