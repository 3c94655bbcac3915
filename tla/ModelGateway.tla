---------------------------- MODULE ModelGateway ----------------------------
(***************************************************************************)
(* The model gateway (packages/llm): the message history a tool-calling    *)
(* loop threads through the provider's completeTurn, and the metering of   *)
(* the one-shot calls, Router.complete and Router.extract.  Both providers *)
(* build the history the same way; they differ in how a call can fail.     *)
(***************************************************************************)
EXTENDS Naturals, Sequences

CONSTANTS MaxRounds,      \* maxIterations of the loop
          MaxParallel,    \* bound: tool calls of one model turn
          MaxOneShots     \* bound: complete / extract calls

ASSUME GatewayAssumption ==
  MaxRounds \in Nat \ {0} /\ MaxParallel \in Nat /\ MaxOneShots \in Nat

VARIABLES
  history,      \* ProviderHistory: the wire messages, <<>> before the first turn
  toolResults,  \* results to fold into the next request
  nextResults,  \* results collected since this turn's answer
  todo,         \* ids of this turn's calls not yet executed
  round,        \* iterations completed
  loop,         \* "turn", "calls" or "over"
  oneShots, spent, metering   \* one-shot calls made / billed / given to onUsage

gatewayVars == <<history, toolResults, nextResults, todo, round, loop,
                 oneShots, spent, metering>>

Seed == <<[role |-> "user", ids |-> <<>>]>>

GatewayInit ==
  /\ history = <<>> /\ toolResults = <<>> /\ nextResults = <<>> /\ todo = <<>>
  /\ round = 0 /\ loop = "turn"
  /\ oneShots = 0 /\ spent = 0 /\ metering = 0

(* The tool results are answered in one user turn (Anthropic) or one
   role:"tool" message each (OpenAI-compatible); none when there are none. *)
Fold(results) ==
  IF results = <<>> THEN <<>> ELSE <<[role |-> "tool", ids |-> results]>>

(* completeTurn: the previous history, or the seed on the first turn, then the
   tool results, then the assistant's message with its own call ids. *)
Answered(ids) ==
  (IF history = <<>> THEN Seed ELSE history)
    \o Fold(toolResults) \o <<[role |-> "assistant", ids |-> ids]>>

ModelTurn(n) ==
  LET ids == [i \in 1..n |-> <<round, i>>] IN
  /\ loop = "turn"
  /\ history' = Answered(ids)
  /\ todo' = ids
  /\ nextResults' = <<>>
  /\ loop' = "calls"
  /\ UNCHANGED <<toolResults, round, oneShots, spent, metering>>

(* One call executed, ok or error: its result is kept under the call's id. *)
CallReturns ==
  /\ loop = "calls" /\ todo # <<>>
  /\ nextResults' = Append(nextResults, Head(todo))
  /\ todo' = Tail(todo)
  /\ UNCHANGED <<history, toolResults, round, loop, oneShots, spent, metering>>

MutKeepsOldResults == toolResults' = toolResults \o nextResults
HandOver == toolResults' = nextResults

(* A turn without calls, or the last allowed one, ends the loop. *)
RoundEnds ==
  /\ loop = "calls" /\ todo = <<>>
  /\ round' = round + 1
  /\ HandOver
  /\ loop' = IF nextResults = <<>> \/ round' = MaxRounds THEN "over" ELSE "turn"
  /\ UNCHANGED <<history, nextResults, todo, oneShots, spent, metering>>

(* The provider or a tool throws, or the consumer breaks out. *)
LoopBreaks ==
  /\ loop \in {"turn", "calls"}
  /\ loop' = "over"
  /\ UNCHANGED <<history, toolResults, nextResults, todo, round,
                 oneShots, spent, metering>>

-----------------------------------------------------------------------------
(* How a one-shot call can end.  All but "unreachable" were billed. *)
CompleteOutcomes == {"good", "unreachable", "truncated", "empty"}
ExtractOutcomes  == {"good", "unreachable", "truncated", "empty", "no-json",
                     "bad-json", "no-call", "invalid"}
IsBilled(outcome) == outcome # "unreachable"

(* complete meters after the provider returned; extract also meters a
   StructuredOutputError that carries usage and a value the schema refuses.
   JSON.parse's SyntaxError is neither. *)
CompleteMeters(outcome) == outcome = "good"
ExtractMeters(outcome) == IsBilled(outcome) /\ outcome # "bad-json"

OneShot(outcome, meters) ==
  /\ oneShots < MaxOneShots
  /\ oneShots' = oneShots + 1
  /\ spent' = IF IsBilled(outcome) THEN spent + 1 ELSE spent
  /\ metering' = IF meters THEN metering + 1 ELSE metering
  /\ UNCHANGED <<history, toolResults, nextResults, todo, round, loop>>

Complete == \E o \in CompleteOutcomes : OneShot(o, CompleteMeters(o))
Extract  == \E o \in ExtractOutcomes : OneShot(o, ExtractMeters(o))

GatewayNext ==
  \/ \E n \in 0..MaxParallel : ModelTurn(n)
  \/ CallReturns \/ RoundEnds \/ LoopBreaks
  \/ Complete \/ Extract

GatewaySpec == GatewayInit /\ [][GatewayNext]_gatewayVars

-----------------------------------------------------------------------------
(* The providers refuse a history in which a tool result does not answer a
   call of the assistant message just before it, or a call stays unanswered
   when the next request goes out: at every request each assistant message is
   followed by exactly the results of its calls, once each. *)
HistoryAnswersCalls ==
  \A i \in 1..Len(history) :
    /\ history[i].role = "tool" =>
         i > 1 /\ history[i - 1].role = "assistant"
               /\ history[i].ids = history[i - 1].ids
    /\ history[i].role = "assistant" /\ history[i].ids # <<>> /\ i < Len(history) =>
         history[i + 1].role = "tool"

(* A call that was paid for reaches the usage sink, parsed or not
   (router.ts: "so onUsage never misses a billed call"). *)
NeverMissesBilledCall == spent <= metering
=============================================================================
