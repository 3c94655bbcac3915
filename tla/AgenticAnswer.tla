--------------------------- MODULE AgenticAnswer ---------------------------
(***************************************************************************)
(* One question asked through AgenticQaService.ask: the agent loop of      *)
(* Router.runAgentLoop over an in-process MCP server, each tool call in    *)
(* its own withEngagement transaction, the one-shot fallback, the redacted *)
(* trace, and the queue that bridges the loop to the server-sent events    *)
(* the caller reads.                                                       *)
(*                                                                         *)
(* The model chooses the text and the tool calls of each turn; the engage- *)
(* ment may be shredded and the caller's role revoked between any two      *)
(* steps.  A transaction that is open holds FOR SHARE on the engagement    *)
(* row, so a shred waits for it (EngagementKey).                           *)
(***************************************************************************)
EXTENDS Naturals, Sequences, FiniteSets

CONSTANTS MaxLlmTurns,     \* MAX_LLM_TURNS
          MaxToolCalls,    \* MAX_TOOL_CALLS
          MaxCallsPerTurn  \* bound: parallel tool calls a model turn requests

ASSUME AnswerAssumption ==
  /\ MaxLlmTurns \in Nat \ {0}
  /\ MaxToolCalls \in Nat
  /\ MaxCallsPerTurn \in Nat \ {0}

VARIABLES
  pc,          \* where runLoop / emitFallback stands
  turn,        \* LLM turns completed
  calls,       \* tool calls of this turn not yet made
  finalTurn,   \* this turn requested no tool call
  toolCount,   \* toolCallCount
  lastText,    \* a turn has produced text
  capExceeded, \* stepCapExceeded
  inTrace,     \* the code running is inside traceAgentLoop's scope
  trace,       \* the Langfuse trace: "open", "ended", or "refused" at the start
  items, waiter, handed, closed,   \* the AsyncQueue and its parked reader
  seen, finished,                  \* what the reader got
  live, allowed,                   \* the engagement's key; the caller's role
  responses, metered, traced,      \* model responses / onUsage calls / generations
  exposed, contentRead             \* reads given to a model; committed content_read rows

loopVars  == <<turn, calls, finalTurn, toolCount, lastText, capExceeded>>
queueVars == <<items, waiter, handed, closed>>
readerVars == <<seen, finished>>
envVars   == <<live, allowed>>
costVars  == <<responses, metered, traced>>
readVars  == <<exposed, contentRead>>
traceVars == <<inTrace, trace>>
vars == <<pc, loopVars, queueVars, readerVars, envVars, costVars, readVars, traceVars>>

TxOpen == pc \in {"tool-open", "tool-read", "fallback-open", "fallback-read"}

Init ==
  /\ pc = "connect"
  /\ turn = 0 /\ calls = 0 /\ finalTurn = FALSE /\ toolCount = 0
  /\ lastText = FALSE /\ capExceeded = FALSE
  /\ inTrace = TRUE /\ trace \in {"open", "refused"}
  /\ items = <<>> /\ waiter = FALSE /\ handed = "none" /\ closed = FALSE
  /\ seen = <<>> /\ finished = FALSE
  /\ live \in BOOLEAN /\ allowed \in BOOLEAN
  /\ responses = 0 /\ metered = 0 /\ traced = 0
  /\ exposed = 0 /\ contentRead = 0

-----------------------------------------------------------------------------
(* AsyncQueue.push: to the parked reader, or to the items. *)
Push(e) ==
  /\ IF waiter THEN handed' = e /\ waiter' = FALSE /\ UNCHANGED items
               ELSE items' = Append(items, e) /\ UNCHANGED <<waiter, handed>>
  /\ UNCHANGED closed

(* AsyncQueue.close: a parked reader is told the queue is done. *)
MutCloseLeavesParked == closed' = TRUE /\ UNCHANGED <<items, waiter, handed>>
Close ==
  /\ closed' = TRUE
  /\ handed' = IF waiter THEN "end" ELSE handed
  /\ waiter' = FALSE
  /\ UNCHANGED items

(* The reader resumes with the value it was handed. *)
ReaderResumes ==
  /\ handed # "none"
  /\ handed' = "none"
  /\ IF handed = "end" THEN finished' = TRUE /\ UNCHANGED seen
                       ELSE seen' = Append(seen, handed) /\ UNCHANGED finished
  /\ UNCHANGED <<pc, loopVars, items, waiter, closed, envVars, costVars, readVars, traceVars>>

(* The iterator: items first, then the end if closed, else park. *)
MutReaderStopsAtClose ==
  /\ ~finished /\ ~waiter /\ handed = "none"
  /\ IF closed THEN finished' = TRUE /\ UNCHANGED <<items, waiter, seen>>
     ELSE IF items # <<>>
     THEN /\ seen' = Append(seen, Head(items)) /\ items' = Tail(items)
          /\ UNCHANGED <<waiter, finished>>
     ELSE waiter' = TRUE /\ UNCHANGED <<items, seen, finished>>
  /\ UNCHANGED <<pc, loopVars, handed, closed, envVars, costVars, readVars, traceVars>>
ReaderPulls ==
  /\ ~finished /\ ~waiter /\ handed = "none"
  /\ IF items # <<>>
     THEN /\ seen' = Append(seen, Head(items)) /\ items' = Tail(items)
          /\ UNCHANGED <<waiter, finished>>
     ELSE IF closed THEN finished' = TRUE /\ UNCHANGED <<items, waiter, seen>>
     ELSE waiter' = TRUE /\ UNCHANGED <<items, seen, finished>>
  /\ UNCHANGED <<pc, loopVars, handed, closed, envVars, costVars, readVars, traceVars>>

-----------------------------------------------------------------------------
(* traceRun's guarded handle: a generation counts once the trace is open and
   not ended; end is idempotent. *)
Generation == traced' = IF trace = "open" THEN traced + 1 ELSE traced
TraceEnds  == trace' = IF trace = "open" THEN "ended" ELSE trace
EndsWithin == IF inTrace THEN TraceEnds ELSE UNCHANGED trace

(* The loop failed: traceRun's finally ends the trace, the catch leaves its
   scope and answers by the one-shot path. *)
LoopFails ==
  /\ pc' = "fallback"
  /\ inTrace' = FALSE /\ TraceEnds
  /\ UNCHANGED queueVars

(* Connecting the MCP client and server and listing the tools. *)
Connects ==
  /\ pc = "connect"
  /\ pc' = "turn"
  /\ UNCHANGED <<loopVars, queueVars, readerVars, envVars, costVars, readVars, traceVars>>

ConnectFails ==
  /\ pc = "connect"
  /\ LoopFails
  /\ UNCHANGED <<loopVars, readerVars, envVars, costVars, readVars>>

(* completeTurn answers with text, tool calls, both or neither.  A stop reason
   of max_tokens is not looked at. *)
Turn(text, n) ==
  /\ pc = "turn"
  /\ responses' = responses + 1
  /\ lastText' = (lastText \/ text)
  /\ calls' = n /\ finalTurn' = (n = 0)
  /\ pc' = "calls"
  /\ UNCHANGED <<turn, toolCount, capExceeded, queueVars, readerVars, envVars,
                 metered, traced, readVars, traceVars>>

(* completeTurn throws: the request failed, or the response had no message or
   a tool call whose arguments are not JSON. *)
TurnFails ==
  /\ pc = "turn"
  /\ LoopFails
  /\ UNCHANGED <<loopVars, readerVars, envVars, costVars, readVars>>

(* A tool_call event: the fifth call breaks out of the loop before it runs. *)
ToolCalled ==
  /\ pc = "calls" /\ calls > 0
  /\ toolCount' = toolCount + 1
  /\ calls' = calls - 1
  /\ Push("started")
  /\ capExceeded' = (toolCount + 1 > MaxToolCalls)
  /\ pc' = IF capExceeded' THEN "decide" ELSE "tool"
  /\ UNCHANGED <<turn, finalTurn, lastText, readerVars, envVars, costVars, readVars, traceVars>>

(* withToolContext: a shredded or missing engagement throws at once, which
   wrapToolHandler turns into an error result. *)
ToolOpens ==
  /\ pc = "tool"
  /\ live
  /\ pc' = "tool-open"
  /\ UNCHANGED <<loopVars, queueVars, readerVars, envVars, costVars, readVars, traceVars>>

(* searchContext and the other handlers: the gate, then the read, then the
   access_log rows, still uncommitted. *)
ToolReads ==
  /\ pc = "tool-open" /\ allowed
  /\ pc' = "tool-read"
  /\ UNCHANGED <<loopVars, queueVars, readerVars, envVars, costVars, readVars, traceVars>>

(* The transaction commits and the result goes to the model; get_graph and
   get_entity_provenance decrypt nothing and log nothing. *)
MutToolUnlogged(decrypts) ==
  /\ pc = "tool-read"
  /\ exposed' = IF decrypts THEN exposed + 1 ELSE exposed
  /\ UNCHANGED contentRead
  /\ Push("ok")
  /\ pc' = "calls"
  /\ UNCHANGED <<loopVars, readerVars, envVars, costVars, traceVars>>
ToolSucceeds(decrypts) ==
  /\ pc = "tool-read"
  /\ exposed' = IF decrypts THEN exposed + 1 ELSE exposed
  /\ contentRead' = IF decrypts THEN contentRead + 1 ELSE contentRead
  /\ Push("ok")
  /\ pc' = "calls"
  /\ UNCHANGED <<loopVars, readerVars, envVars, costVars, traceVars>>

(* A refusal, a bad input or a failure at any point rolls back; the model gets
   an error result and the loop goes on. *)
ToolErrs ==
  /\ pc \in {"tool", "tool-open", "tool-read"}
  /\ Push("failed")
  /\ pc' = "calls"
  /\ UNCHANGED <<loopVars, readerVars, envVars, costVars, readVars, traceVars>>

(* callTool itself throws: a timeout of the MCP client, a result without
   content.  The generator unwinds before this turn's usage is emitted. *)
ToolThrows ==
  /\ pc = "tool"
  /\ LoopFails
  /\ UNCHANGED <<loopVars, readerVars, envVars, costVars, readVars>>

(* The turn's calls are done: record, onUsage, the usage event; then the next
   turn, unless this one was final or the last allowed. *)
TurnEnds ==
  /\ pc = "calls" /\ calls = 0
  /\ turn' = turn + 1
  /\ metered' = metered + 1
  /\ Generation
  /\ pc' = IF finalTurn \/ turn' = MaxLlmTurns THEN "decide" ELSE "turn"
  /\ UNCHANGED <<calls, finalTurn, toolCount, lastText, capExceeded, queueVars,
                 readerVars, envVars, responses, readVars, traceVars>>

-----------------------------------------------------------------------------
(* After the loop: the fallback, still inside the trace, or the answer. *)
Decides ==
  /\ pc = "decide"
  /\ IF capExceeded \/ ~lastText
     THEN pc' = "fallback" /\ UNCHANGED <<queueVars, trace>>
     ELSE pc' = "closing" /\ Push("answer") /\ TraceEnds
  /\ UNCHANGED <<loopVars, readerVars, envVars, costVars, readVars, inTrace>>

FallbackOpens ==
  /\ pc = "fallback" /\ live
  /\ pc' = "fallback-open"
  /\ UNCHANGED <<loopVars, queueVars, readerVars, envVars, costVars, readVars, traceVars>>

(* answerQuestion: embed, search, gate, decrypt, log; the context then goes
   into the model call while the transaction is open. *)
FallbackReads ==
  /\ pc = "fallback-open" /\ allowed
  /\ exposed' = exposed + 1
  /\ pc' = "fallback-read"
  /\ UNCHANGED <<loopVars, queueVars, readerVars, envVars, costVars, contentRead, traceVars>>

(* Router.complete answers: metered; traced by tracingUsageSink only outside
   the loop's trace; the transaction commits with its log rows. *)
FallbackAnswers ==
  /\ pc = "fallback-read"
  /\ responses' = responses + 1 /\ metered' = metered + 1
  /\ traced' = IF inTrace THEN traced ELSE traced + 1
  /\ contentRead' = contentRead + 1
  /\ Push("answer")
  /\ EndsWithin
  /\ pc' = "closing"
  /\ UNCHANGED <<loopVars, readerVars, envVars, exposed, inTrace>>

(* Anything on the way throws: the transaction rolls back and the reader gets
   an error. *)
FallbackErrs ==
  /\ pc \in {"fallback", "fallback-open", "fallback-read"}
  /\ Push("error")
  /\ EndsWithin
  /\ pc' = "closing"
  /\ UNCHANGED <<loopVars, readerVars, envVars, costVars, readVars, inTrace>>

(* .finally(() => queue.close()) *)
Finishes ==
  /\ pc = "closing"
  /\ Close
  /\ pc' = "done"
  /\ UNCHANGED <<loopVars, readerVars, envVars, costVars, readVars, traceVars>>

-----------------------------------------------------------------------------
(* The rest of the system: a shred, which waits for open transactions, and a
   change of the caller's role. *)
Shreds ==
  /\ live /\ ~TxOpen
  /\ live' = FALSE
  /\ UNCHANGED <<pc, loopVars, queueVars, readerVars, allowed, costVars, readVars, traceVars>>

RoleRevoked ==
  /\ allowed
  /\ allowed' = FALSE
  /\ UNCHANGED <<pc, loopVars, queueVars, readerVars, live, costVars, readVars, traceVars>>

LoopStep ==
  \/ Connects \/ ConnectFails
  \/ \E text \in BOOLEAN, n \in 0..MaxCallsPerTurn : Turn(text, n)
  \/ TurnFails
  \/ ToolCalled \/ ToolOpens \/ ToolReads \/ (\E d \in BOOLEAN : ToolSucceeds(d)) \/ ToolErrs \/ ToolThrows
  \/ TurnEnds \/ Decides
  \/ FallbackOpens \/ FallbackReads \/ FallbackAnswers
  \/ FallbackErrs
  \/ Finishes

ReaderStep == ReaderResumes \/ ReaderPulls

Next == LoopStep \/ ReaderStep \/ Shreds \/ RoleRevoked

(* Every call the loop awaits has a timeout or an error, so the loop and the
   reader of its queue take their next step. *)
Spec == /\ Init /\ [][Next]_vars
        /\ WF_vars(LoopStep) /\ WF_vars(ReaderStep)

-----------------------------------------------------------------------------
(* The reader of the stream sees what AnswerStream promises: outcomes follow
   their tool steps, one terminal event and nothing after it, and no event is
   lost between push, close and a parked reader. *)
Stream == INSTANCE AnswerStream
StreamKept == Stream!StreamSpec

(* No question runs more than MAX_TOOL_CALLS tools or makes more than
   MAX_LLM_TURNS + 1 model calls, however the model spreads its calls over
   turns. *)
QuestionBounded ==
  /\ Cardinality({i \in 1..Len(seen) : seen[i] \in {"ok", "failed"}}) <= MaxToolCalls
  /\ pc \in {"tool-open", "tool-read"} => toolCount <= MaxToolCalls
  /\ responses <= MaxLlmTurns + 1

(* However a question ends, each read whose content reached a model, those of
   failed attempts included, has its committed content_read row; but for one, the
   fallback's, and only when its model call failed and the user saw an error. *)
Heard == IF seen = <<>> THEN "none" ELSE seen[Len(seen)]
ReadsLoggedOrFailed ==
  /\ exposed <= contentRead + 1
  /\ exposed > contentRead => IF finished THEN Heard = "error" ELSE Heard # "answer"

(* searchContext logs before "any caller's follow-up LLM call", since "the read
   has happened whether or not a model call over it succeeds": so the rows of a
   question that is over cover all of its reads.  They share the transaction of
   the model call, which takes them back with it. *)
ReadsLoggedRegardless == pc = "done" => exposed <= contentRead

(* Whatever failed on the way, the trace is closed when the question is over:
   an open one would use up a place of the bounded queue for good. *)
TraceNeverDangles == pc = "done" => trace # "open"

(* One usage event and one onUsage call per LLM turn that answered (router.ts),
   so that no model response goes unmetered. *)
OneUsagePerTurn == pc = "done" => metered = responses
=============================================================================
