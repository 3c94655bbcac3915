---------------------------- MODULE ReadsProofs ----------------------------
(***************************************************************************)
(* What a reader is shown, for any number of turns, tool calls, questions, *)
(* graphs and rows.  The components share no state; each has its own       *)
(* invariant and theorems here.                                            *)
(***************************************************************************)
EXTENDS AgenticAnswer, AskPanel, ModelGateway, GraphPanel, EngagementViews, FiniteOrders

(***************************************************************************)
(* AgenticQaService.ask.  An event is on its way in one of three places:   *)
(* the items, the hand of a reader that was parked, what was seen.  In     *)
(* whatever order push, close and the reader meet, the three laid end to   *)
(* end are one stream of the kind AnswerStream promises.                   *)
(***************************************************************************)
Events    == {"started", "ok", "failed", "answer", "error"}
Terminals == {"answer", "error"}

Follows(before, e) ==
  \/ e = "started" /\ before \notin Terminals \cup {"started"}
  \/ e \in {"ok", "failed"} /\ before = "started"
  \/ e \in Terminals /\ before \notin Terminals

Held    == IF handed \in Events THEN handed ELSE Heard
LastOut == IF items = <<>> THEN Held ELSE items[Len(items)]

Places == {"connect", "turn", "calls", "tool", "tool-open", "tool-read", "decide", "fallback",
           "fallback-open", "fallback-read", "closing", "done"}

QueueTypes ==
  /\ pc \in Places /\ items \in Seq(Events) /\ seen \in Seq(Events)
  /\ handed \in Events \cup {"none", "end"}
  /\ {waiter, closed, finished} \subseteq BOOLEAN

InOrder ==
  /\ handed \in Events => Follows(Heard, handed)
  /\ items # <<>> => Follows(Held, items[1])
  /\ \A i \in 1..(Len(items) - 1) : Follows(items[i], items[i + 1])

(* The reader is parked with nothing to read, and is told the end only when
   there is nothing more. *)
ReaderWaits ==
  /\ waiter => items = <<>> /\ handed = "none" /\ ~closed
  /\ handed = "end" => items = <<>> /\ closed /\ ~waiter
  /\ finished => items = <<>> /\ handed = "none" /\ closed /\ ~waiter

(* What the loop has written last says where it stands. *)
LoopInv ==
  /\ closed <=> pc = "done"
  /\ pc \in {"closing", "done"} <=> LastOut \in Terminals
  /\ pc \in {"tool", "tool-open", "tool-read"} => LastOut = "started"
  /\ pc \in {"connect", "turn", "calls"} => LastOut # "started"

AnswerInv == QueueTypes /\ InOrder /\ ReaderWaits /\ LoopInv

(* A push appends to what is out; a close does not. *)
LEMMA PushAppends ==
  ASSUME AnswerInv, NEW e \in Events, Push(e), Follows(LastOut, e), ~closed, seen' = seen,
         finished' = finished, pc' \in Places
  PROVE  QueueTypes' /\ InOrder' /\ ReaderWaits' /\ LastOut' = e /\ ~closed'
<1>1. CASE waiter
  <2>1. items = <<>> /\ handed = "none" /\ handed' = e /\ waiter' = FALSE /\ items' = <<>>
        /\ closed' = closed
    BY <1>1 DEF AnswerInv, ReaderWaits, Push
  <2>2. Held' = e /\ LastOut' = e /\ Heard' = Heard /\ LastOut = Heard
    BY <2>1 DEF Held, LastOut, Heard, Events
  <2>3. ~finished
    BY DEF AnswerInv, ReaderWaits
  <2> QED BY <2>1, <2>2, <2>3 DEF AnswerInv, QueueTypes, InOrder, ReaderWaits, Events
<1>2. CASE ~waiter
  <2>1. items' = Append(items, e) /\ handed' = handed /\ waiter' = waiter /\ closed' = closed
    BY <1>2 DEF Push
  <2>2. PICK n \in Nat : n = Len(items) /\ items \in Seq(Events)
    BY DEF AnswerInv, QueueTypes
  <2>3. /\ items' \in Seq(Events) /\ Len(items') = n + 1 /\ items'[n + 1] = e
        /\ \A i \in 1..n : items'[i] = items[i]
    BY <2>1, <2>2
  <2>4. items' # <<>>
    BY <2>3
  <2>5. LastOut' = e /\ Held' = Held /\ Heard' = Heard
    BY <2>1, <2>3, <2>4 DEF LastOut, Held, Heard
  <2>6. Follows(Held, items'[1])
    <3>1. CASE items = <<>>
      <4>1. n = 0
        BY <2>2, <3>1
      <4>2. items'[1] = e
        BY <2>3, <4>1
      <4> QED BY <3>1, <4>2 DEF LastOut
    <3>2. CASE items # <<>>
      <4>1. n > 0
        BY <2>2, <3>2
      <4> QED BY <2>2, <2>3, <3>2, <4>1 DEF AnswerInv, InOrder
    <3> QED BY <3>1, <3>2
  <2>7. ASSUME NEW i \in 1..n PROVE Follows(items'[i], items'[i + 1])
    <3>1. CASE i = n
      BY <2>2, <2>3, <3>1 DEF LastOut
    <3>2. CASE i < n
      BY <2>2, <2>3, <3>2 DEF AnswerInv, InOrder
    <3> QED BY <3>1, <3>2
  <2>8. InOrder'
    BY <2>1, <2>3, <2>5, <2>6, <2>7 DEF AnswerInv, InOrder
  <2>9. ReaderWaits'
    BY <1>2, <2>1 DEF AnswerInv, ReaderWaits
  <2> QED BY <2>1, <2>3, <2>5, <2>8, <2>9 DEF AnswerInv, QueueTypes
<1> QED BY <1>1, <1>2

(* The loop moves and writes nothing. *)
LEMMA QuietStep ==
  ASSUME AnswerInv, UNCHANGED <<queueVars, readerVars>>, pc' \in Places \ {"closing", "done"},
         pc \notin {"closing", "done"},
         pc' \in {"tool", "tool-open", "tool-read"} => pc \in {"tool", "tool-open", "tool-read"},
         pc' \in {"connect", "turn", "calls"} => pc \in {"connect", "turn", "calls"}
  PROVE  AnswerInv'
<1>1. LastOut' = LastOut /\ Held' = Held /\ Heard' = Heard
  BY DEF LastOut, Held, Heard, queueVars, readerVars
<1> QED BY <1>1 DEF AnswerInv, QueueTypes, InOrder, ReaderWaits, LoopInv, queueVars, readerVars

LEMMA LoopKeepsStream ==
  ASSUME AnswerInv, LoopStep
  PROVE  AnswerInv' /\ UNCHANGED readerVars
<1>0. pc \in Places
  BY DEF AnswerInv, QueueTypes
<1>1. UNCHANGED readerVars
  BY DEF LoopStep, Connects, ConnectFails, Turn, TurnFails, ToolCalled, ToolOpens, ToolReads,
     ToolSucceeds, ToolErrs, ToolThrows, TurnEnds, Decides, FallbackOpens, FallbackReads,
     FallbackAnswers, FallbackErrs, Finishes
<1>2. ASSUME NEW e \in Events, Push(e), pc \notin {"closing", "done"}, Follows(LastOut, e),
             pc' \in Places \ {"done"}, pc' = "closing" <=> e \in Terminals,
             pc' \in {"tool", "tool-open", "tool-read"} => e = "started",
             pc' \in {"connect", "turn", "calls"} => e # "started"
      PROVE  AnswerInv'
  <2>1. ~closed
    BY <1>2 DEF AnswerInv, LoopInv
  <2>2. QueueTypes' /\ InOrder' /\ ReaderWaits' /\ LastOut' = e /\ ~closed'
    BY <1>1, <1>2, <2>1, PushAppends DEF readerVars
  <2> QED BY <1>2, <2>2 DEF AnswerInv, LoopInv, Terminals
<1>3. CASE Connects \/ ConnectFails \/ TurnFails \/ ToolOpens \/ ToolReads \/ ToolThrows \/ TurnEnds
           \/ FallbackOpens \/ FallbackReads \/ (Decides /\ (capExceeded \/ ~lastText))
           \/ \E text \in BOOLEAN, n \in 0..MaxCallsPerTurn : Turn(text, n)
  BY <1>0, <1>1, <1>3, QuietStep DEF Connects, ConnectFails, TurnFails, ToolOpens, ToolReads, ToolThrows,
     TurnEnds, FallbackOpens, FallbackReads, Decides, Turn, LoopFails, Places
<1>4. CASE ToolCalled
  <2>1. pc = "calls" /\ Push("started") /\ pc' \in {"decide", "tool"}
    BY <1>4 DEF ToolCalled
  <2>2. Follows(LastOut, "started")
    BY <2>1 DEF AnswerInv, LoopInv, Follows
  <2> QED BY <1>1, <1>2, <2>1, <2>2 DEF Events, Terminals, Places
<1>5. CASE ToolErrs \/ \E d \in BOOLEAN : ToolSucceeds(d)
  <2>1. PICK e \in {"ok", "failed"} : pc \in {"tool", "tool-open", "tool-read"} /\ Push(e) /\ pc' = "calls"
    BY <1>5 DEF ToolErrs, ToolSucceeds
  <2>2. Follows(LastOut, e)
    BY <2>1 DEF AnswerInv, LoopInv, Follows
  <2> QED BY <1>1, <1>2, <2>1, <2>2 DEF Events, Terminals, Places
<1>6. CASE FallbackAnswers \/ FallbackErrs \/ (Decides /\ ~(capExceeded \/ ~lastText))
  <2>1. PICK e \in Terminals : pc \notin {"closing", "done"} /\ Push(e) /\ pc' = "closing"
    BY <1>6 DEF FallbackAnswers, FallbackErrs, Decides, Terminals
  <2>2. Follows(LastOut, e)
    BY <1>0, <2>1 DEF AnswerInv, LoopInv, Follows
  <2> QED BY <1>1, <1>2, <2>1, <2>2 DEF Events, Terminals, Places
<1>7. CASE Finishes
  <2>1. /\ pc = "closing" /\ pc' = "done" /\ closed' = TRUE /\ waiter' = FALSE /\ items' = items
        /\ handed' = IF waiter THEN "end" ELSE handed
        /\ seen' = seen /\ finished' = finished
    BY <1>1, <1>7 DEF Finishes, Close, readerVars
  <2>2. ~closed /\ ~finished /\ (waiter => items = <<>> /\ handed = "none") /\ handed # "end"
    BY <2>1 DEF AnswerInv, LoopInv, ReaderWaits
  <2>3. Heard' = Heard /\ Held' = Held /\ LastOut' = LastOut
    BY <2>1, <2>2 DEF Heard, Held, LastOut, Events
  <2>4. QueueTypes'
    BY <2>1 DEF AnswerInv, QueueTypes, Places
  <2>5. InOrder'
    BY <2>1, <2>2, <2>3 DEF AnswerInv, InOrder, Events
  <2>6. ReaderWaits' /\ LoopInv'
    BY <2>1, <2>2, <2>3 DEF AnswerInv, ReaderWaits, LoopInv
  <2> QED BY <1>1, <2>4, <2>5, <2>6 DEF AnswerInv
<1> QED BY <1>1, <1>3, <1>4, <1>5, <1>6, <1>7 DEF LoopStep

(* A reader takes what is next, whichever way it reaches it. *)
LEMMA ReaderKeepsStream ==
  ASSUME AnswerInv, ReaderStep
  PROVE  /\ AnswerInv' /\ pc' = pc /\ LastOut' = LastOut
         /\ \/ UNCHANGED <<seen, finished>>
            \/ /\ \E e \in Events : seen' = Append(seen, e) /\ Follows(Heard, e)
               /\ ~finished /\ UNCHANGED finished
            \/ Heard \in Terminals /\ ~finished /\ finished' = TRUE /\ UNCHANGED seen
<1>0. pc' = pc /\ closed' = closed /\ seen \in Seq(Events) /\ items \in Seq(Events)
  BY DEF ReaderStep, ReaderResumes, ReaderPulls, AnswerInv, QueueTypes
<1>1. ASSUME NEW e \in Events, seen' = Append(seen, e)
      PROVE  seen' \in Seq(Events) /\ Heard' = e
  <2>1. seen' \in Seq(Events) /\ Len(seen') = Len(seen) + 1 /\ seen'[Len(seen) + 1] = e /\ seen' # <<>>
    BY <1>0, <1>1
  <2> QED BY <2>1 DEF Heard
<1>2. CASE ReaderResumes /\ handed \in Events
  <2>1. /\ seen' = Append(seen, handed) /\ handed' = "none" /\ finished' = finished
        /\ UNCHANGED <<items, waiter>> /\ ~finished
    BY <1>2 DEF ReaderResumes, Events, AnswerInv, ReaderWaits
  <2>2. Heard' = handed /\ Held' = Held /\ LastOut' = LastOut /\ seen' \in Seq(Events)
    BY <1>1, <1>2, <2>1 DEF Held, LastOut, Events
  <2>3. QueueTypes' /\ InOrder'
    BY <1>0, <2>1, <2>2 DEF AnswerInv, QueueTypes, InOrder, Events
  <2>4. ReaderWaits' /\ LoopInv'
    BY <1>0, <1>2, <2>1, <2>2 DEF AnswerInv, ReaderWaits, LoopInv, Events
  <2>5. Follows(Heard, handed)
    BY <1>2 DEF AnswerInv, InOrder
  <2> QED BY <1>0, <1>2, <2>1, <2>2, <2>3, <2>4, <2>5 DEF AnswerInv
<1>3. CASE ReaderResumes /\ handed = "end"
  <2>1. /\ finished' = TRUE /\ seen' = seen /\ handed' = "none" /\ UNCHANGED <<items, waiter>>
        /\ items = <<>> /\ closed /\ ~waiter /\ ~finished
    BY <1>3 DEF ReaderResumes, AnswerInv, ReaderWaits
  <2>2. Heard' = Heard /\ Held' = Held /\ LastOut' = LastOut /\ LastOut = Heard
    BY <1>3, <2>1 DEF Heard, Held, LastOut, Events
  <2>3. AnswerInv'
    BY <1>0, <2>1, <2>2 DEF AnswerInv, QueueTypes, InOrder, ReaderWaits, LoopInv, Events
  <2>4. Heard \in Terminals
    BY <2>1, <2>2 DEF AnswerInv, LoopInv
  <2> QED BY <1>0, <2>1, <2>2, <2>3, <2>4
<1>4. CASE ReaderPulls /\ items # <<>>
  <2>1. /\ seen' = Append(seen, Head(items)) /\ items' = Tail(items) /\ UNCHANGED <<waiter, finished, handed>>
        /\ ~finished /\ ~waiter /\ handed = "none"
    BY <1>4 DEF ReaderPulls
  <2>2. PICK n \in Nat : n = Len(items) /\ n > 0
    BY <1>0, <1>4
  <2>3. /\ Head(items) = items[1] /\ items[1] \in Events /\ items' \in Seq(Events) /\ Len(items') = n - 1
        /\ \A i \in 1..(n - 1) : items'[i] = items[i + 1]
    BY <1>0, <1>4, <2>1, <2>2
  <2>4. seen' \in Seq(Events) /\ Heard' = items[1] /\ Held' = items[1] /\ Held = Heard
    BY <1>1, <2>1, <2>3 DEF Held, Events
  <2>5. LastOut' = LastOut
    <3>1. CASE n = 1
      BY <1>4, <2>2, <2>3, <2>4, <3>1 DEF LastOut
    <3>2. CASE n > 1
      BY <1>4, <2>2, <2>3, <3>2 DEF LastOut
    <3> QED BY <2>2, <3>1, <3>2
  <2>6. InOrder'
    <3>1. \A i \in 1..(n - 1) : Follows(items[i], items[i + 1])
      BY <2>2 DEF AnswerInv, InOrder
    <3>2. items' # <<>> => Follows(items[1], items'[1])
      <4>1. CASE n > 1
        BY <2>2, <2>3, <3>1, <4>1
      <4>2. CASE n = 1
        BY <2>3, <4>2
      <4> QED BY <2>2, <4>1, <4>2
    <3>3. \A i \in 1..(n - 2) : Follows(items'[i], items'[i + 1])
      BY <2>2, <2>3, <3>1
    <3> QED BY <2>1, <2>3, <2>4, <3>2, <3>3 DEF InOrder, Events
  <2>7. QueueTypes' /\ ReaderWaits' /\ LoopInv'
    BY <1>0, <2>1, <2>3, <2>4, <2>5 DEF AnswerInv, QueueTypes, ReaderWaits, LoopInv
  <2>8. Follows(Heard, items[1])
    BY <1>4, <2>4 DEF AnswerInv, InOrder
  <2> QED BY <1>0, <2>1, <2>3, <2>5, <2>6, <2>7, <2>8 DEF AnswerInv
<1>5. CASE ReaderPulls /\ items = <<>>
  <2>1. /\ seen' = seen /\ items' = items /\ handed' = handed /\ handed = "none" /\ ~finished /\ ~waiter
        /\ IF closed THEN finished' = TRUE /\ waiter' = waiter ELSE waiter' = TRUE /\ finished' = finished
    BY <1>5 DEF ReaderPulls
  <2>2. Heard' = Heard /\ Held' = Held /\ LastOut' = LastOut /\ LastOut = Heard
    BY <1>5, <2>1 DEF Heard, Held, LastOut, Events
  <2>3. AnswerInv'
    BY <1>0, <1>5, <2>1, <2>2 DEF AnswerInv, QueueTypes, InOrder, ReaderWaits, LoopInv
  <2>4. closed => Heard \in Terminals
    BY <2>2 DEF AnswerInv, LoopInv
  <2> QED BY <1>0, <2>1, <2>2, <2>3, <2>4
<1> QED BY <1>2, <1>3, <1>4, <1>5 DEF ReaderStep, ReaderResumes, AnswerInv, QueueTypes

LEMMA AnswerInvInit ==
  ASSUME Init
  PROVE  AnswerInv
<1>1. items = <<>> /\ seen = <<>> /\ handed = "none" /\ pc = "connect" /\ ~waiter /\ ~closed /\ ~finished
      /\ {waiter, closed, finished} \subseteq BOOLEAN
  BY DEF Init
<1>2. LastOut = "none"
  BY <1>1 DEF LastOut, Held, Heard, Events
<1>3. items \in Seq(Events) /\ seen \in Seq(Events) /\ Len(items) = 0
  BY <1>1
<1> QED BY <1>1, <1>2, <1>3 DEF AnswerInv, QueueTypes, InOrder, ReaderWaits, LoopInv, Places, Events, Terminals

LEMMA AnswerInvStep ==
  ASSUME AnswerInv, [Next]_vars
  PROVE  AnswerInv'
<1>1. CASE Shreds \/ RoleRevoked \/ UNCHANGED vars
  <2>1. pc' = pc /\ UNCHANGED <<queueVars, readerVars>>
    BY <1>1 DEF Shreds, RoleRevoked, vars
  <2>2. LastOut' = LastOut /\ Held' = Held /\ Heard' = Heard
    BY <2>1 DEF LastOut, Held, Heard, queueVars, readerVars
  <2> QED BY <2>1, <2>2 DEF AnswerInv, QueueTypes, InOrder, ReaderWaits, LoopInv, queueVars, readerVars
<1> QED BY <1>1, LoopKeepsStream, ReaderKeepsStream DEF Next

(* The reader of a question's stream sees what AnswerStream promises, for any
   number of turns and tool calls and however push, close and a parked reader
   interleave: tool steps with their outcomes, one terminal event, the end. *)
THEOREM AnswerImplementsStream == Spec => StreamKept
<1>1. Init => AnswerInv /\ Stream!StreamInit
  BY AnswerInvInit DEF Init, Stream!StreamInit
<1>2. AnswerInv /\ [Next]_vars => AnswerInv'
  BY AnswerInvStep
<1>3. AnswerInv /\ [Next]_vars => [Stream!StreamNext]_<<seen, finished>>
  <2> SUFFICES ASSUME AnswerInv, [Next]_vars, ~UNCHANGED <<seen, finished>>
               PROVE  Stream!StreamNext
    OBVIOUS
  <2> USE DEF Stream!StreamNext, Stream!ToolStarts, Stream!ToolEnds, Stream!Settles, Stream!Ends,
          Stream!Latest, Stream!Answered, Stream!Terminals, Stream!Outcomes
  <2>1. ReaderStep
    <3>1. CASE LoopStep
      BY <3>1, LoopKeepsStream DEF readerVars
    <3>2. CASE Shreds \/ RoleRevoked \/ UNCHANGED vars
      BY <3>2 DEF Shreds, RoleRevoked, vars, readerVars
    <3> QED BY <3>1, <3>2 DEF Next
  <2>2. CASE /\ \E e \in Events : seen' = Append(seen, e) /\ Follows(Heard, e)
             /\ ~finished /\ UNCHANGED finished
    BY <2>2 DEF Follows, Heard, Events, Terminals
  <2>3. CASE Heard \in Terminals /\ ~finished /\ finished' = TRUE /\ UNCHANGED seen
    BY <2>3 DEF Heard, Terminals
  <2> QED BY <2>1, <2>2, <2>3, ReaderKeepsStream
<1> QED BY <1>1, <1>2, <1>3, PTL DEF Spec, StreamKept, Stream!StreamSpec, Stream!streamVars

(* What a model was shown and what is committed in the access log. *)
ReadsLogged ==
  /\ exposed \in Nat /\ contentRead \in Nat
  /\ exposed <= contentRead + 1
  /\ pc # "fallback-read" /\ LastOut # "error" => exposed <= contentRead

LEMMA ReadsLoggedStep ==
  ASSUME AnswerInv, AnswerInv', ReadsLogged, [Next]_vars
  PROVE  ReadsLogged'
<1>0. pc \in Places
  BY DEF AnswerInv, QueueTypes
<1>1. ASSUME UNCHANGED <<exposed, contentRead>>, pc # "fallback-read", pc' # "fallback-read",
             LastOut = "error" => LastOut' = "error"
      PROVE  ReadsLogged'
  BY <1>1 DEF ReadsLogged
<1>2. CASE Shreds \/ RoleRevoked \/ UNCHANGED vars
  <2>1. pc' = pc /\ UNCHANGED <<queueVars, readerVars, exposed, contentRead>>
    BY <1>2 DEF Shreds, RoleRevoked, vars, readVars
  <2>2. LastOut' = LastOut
    BY <2>1 DEF LastOut, Held, Heard, queueVars, readerVars
  <2> QED BY <2>1, <2>2 DEF ReadsLogged
<1>3. CASE ReaderStep
  <2>1. UNCHANGED <<exposed, contentRead>>
    BY <1>3 DEF ReaderStep, ReaderResumes, ReaderPulls, readVars
  <2> QED BY <1>3, <2>1, ReaderKeepsStream DEF ReadsLogged
<1>4. pc \notin {"closing", "done"} => LastOut # "error"
  BY DEF AnswerInv, LoopInv, Terminals
<1>5. CASE Connects \/ ConnectFails \/ TurnFails \/ ToolOpens \/ ToolReads \/ ToolThrows \/ TurnEnds
           \/ ToolCalled \/ ToolErrs \/ FallbackOpens \/ Decides
           \/ \E text \in BOOLEAN, n \in 0..MaxCallsPerTurn : Turn(text, n)
  <2>1. UNCHANGED <<exposed, contentRead>> /\ pc \notin {"closing", "done", "fallback-read"}
        /\ pc' # "fallback-read"
    BY <1>5 DEF Connects, ConnectFails, TurnFails, ToolOpens, ToolReads, ToolThrows, TurnEnds,
       ToolCalled, ToolErrs, FallbackOpens, Decides, Turn, LoopFails, readVars
  <2> QED BY <1>1, <1>4, <2>1
<1>6. CASE \E d \in BOOLEAN : ToolSucceeds(d)
  <2>1. /\ pc = "tool-read" /\ pc' = "calls"
        /\ \/ exposed' = exposed + 1 /\ contentRead' = contentRead + 1
           \/ exposed' = exposed /\ contentRead' = contentRead
    BY <1>6 DEF ToolSucceeds
  <2> QED BY <1>4, <2>1 DEF ReadsLogged
<1>7. CASE FallbackReads
  <2>1. pc = "fallback-open" /\ pc' = "fallback-read" /\ exposed' = exposed + 1 /\ contentRead' = contentRead
    BY <1>7 DEF FallbackReads
  <2> QED BY <1>4, <2>1 DEF ReadsLogged
<1>8. CASE FallbackAnswers
  <2>1. pc = "fallback-read" /\ pc' = "closing" /\ exposed' = exposed /\ contentRead' = contentRead + 1
    BY <1>8 DEF FallbackAnswers
  <2> QED BY <2>1 DEF ReadsLogged
<1>9. CASE FallbackErrs
  <2>1. /\ pc \in {"fallback", "fallback-open", "fallback-read"} /\ Push("error") /\ pc' = "closing"
        /\ UNCHANGED <<exposed, contentRead>>
    BY <1>9 DEF FallbackErrs, readVars
  <2>2. UNCHANGED readerVars
    BY <1>9 DEF FallbackErrs
  <2>3. ~closed /\ Follows(LastOut, "error")
    BY <2>1 DEF AnswerInv, LoopInv, Follows, Terminals
  <2>4. LastOut' = "error"
    BY <2>1, <2>2, <2>3, PushAppends DEF Events, Places, readerVars
  <2> QED BY <2>1, <2>4 DEF ReadsLogged
<1>10. CASE Finishes
  <2>1. pc = "closing" /\ pc' = "done" /\ UNCHANGED <<exposed, contentRead, seen, items>>
        /\ handed' \in {handed, "end"} /\ (handed' # handed => waiter)
    BY <1>10 DEF Finishes, Close, readVars, readerVars
  <2>2. LastOut' = LastOut
    BY <2>1 DEF AnswerInv, ReaderWaits, LastOut, Held, Heard, Events
  <2> QED BY <1>1, <2>1, <2>2
<1> QED BY <1>2, <1>3, <1>5, <1>6, <1>7, <1>8, <1>9, <1>10 DEF Next, LoopStep

(* However a question ends, each read whose content reached a model has its committed
   content_read row, those of attempts that failed included; but for the fallback's,
   and that only when the user was told of an error. *)
THEOREM OnlyFailureLosesARow == Spec => []ReadsLoggedOrFailed
<1>1. Init => AnswerInv /\ ReadsLogged
  <2> SUFFICES ASSUME Init PROVE ReadsLogged
    BY AnswerInvInit
  <2>1. exposed = 0 /\ contentRead = 0
    BY DEF Init
  <2> QED BY <2>1 DEF ReadsLogged
<1>2. AnswerInv /\ ReadsLogged /\ [Next]_vars => AnswerInv' /\ ReadsLogged'
  BY AnswerInvStep, ReadsLoggedStep
<1>3. AnswerInv /\ ReadsLogged => ReadsLoggedOrFailed
  <2> SUFFICES ASSUME AnswerInv, ReadsLogged, exposed > contentRead
               PROVE  IF finished THEN Heard = "error" ELSE Heard # "answer"
    BY DEF ReadsLoggedOrFailed, ReadsLogged
  <2>1. pc = "fallback-read" \/ LastOut = "error"
    BY DEF ReadsLogged
  <2>2. CASE finished
    <3>1. items = <<>> /\ handed = "none" /\ closed
      BY <2>2 DEF AnswerInv, ReaderWaits
    <3>2. pc = "done" /\ LastOut = Heard
      BY <3>1 DEF AnswerInv, LoopInv, LastOut, Held, Events
    <3> QED BY <2>1, <2>2, <3>2
  <2>3. CASE ~finished /\ Heard = "answer"
    <3>1. handed \notin Events /\ items = <<>>
      BY <2>3 DEF AnswerInv, InOrder, Follows, Terminals, Held
    <3>2. LastOut = "answer"
      BY <2>3, <3>1 DEF LastOut, Held
    <3>3. pc # "fallback-read"
      BY <3>2 DEF AnswerInv, LoopInv, Terminals
    <3> QED BY <2>1, <3>2, <3>3
  <2> QED BY <2>2, <2>3
<1> QED BY <1>1, <1>2, <1>3, PTL DEF Spec

-----------------------------------------------------------------------------
(* What a question may cost.  A tool's outcome is on its way in one of the three
   places, so the bound is kept over all of them. *)
Results == {"ok", "failed"}
ResultsIn(s) == {i \in 1..Len(s) : s[i] \in Results}
Weight(e) == IF e \in Results THEN 1 ELSE 0
ResultsOut == Cardinality(ResultsIn(seen)) + Weight(handed) + Cardinality(ResultsIn(items))

ToolPlaces == {"tool", "tool-open", "tool-read"}

CostInv ==
  /\ {turn, toolCount, responses} \subseteq Nat
  /\ ResultsOut <= toolCount - (IF pc \in ToolPlaces THEN 1 ELSE 0) /\ ResultsOut <= MaxToolCalls
  /\ pc \in ToolPlaces \cup {"connect", "turn", "calls"} => toolCount <= MaxToolCalls
  /\ pc \in ToolPlaces \cup {"calls"} => responses = turn + 1 /\ turn < MaxLlmTurns
  /\ pc \in {"connect", "turn"} => responses = turn /\ turn < MaxLlmTurns
  /\ responses <= MaxLlmTurns + (IF pc \in {"closing", "done"} THEN 1 ELSE 0)

LEMMA CountedResults ==
  ASSUME NEW s \in Seq(Events)
  PROVE  IsFiniteSet(ResultsIn(s)) /\ Cardinality(ResultsIn(s)) \in Nat
<1>1. Len(s) \in Nat
  OBVIOUS
<1>2. IsFiniteSet(1..Len(s))
  BY <1>1, FS_Interval
<1>3. ResultsIn(s) \subseteq 1..Len(s)
  BY DEF ResultsIn
<1> QED BY <1>2, <1>3, FS_Subset, FS_CardinalityType

LEMMA AppendedResult ==
  ASSUME NEW s \in Seq(Events), NEW e \in Events
  PROVE  Cardinality(ResultsIn(Append(s, e))) = Cardinality(ResultsIn(s)) + Weight(e)
<1> DEFINE n == Len(s) + 1
<1>1. /\ Len(s) \in Nat /\ Len(Append(s, e)) = n /\ Append(s, e)[n] = e
      /\ \A i \in 1..Len(s) : Append(s, e)[i] = s[i]
  OBVIOUS
<1>2. n \notin ResultsIn(s)
  BY <1>1 DEF ResultsIn
<1>3. CASE e \in Results
  <2>1. ResultsIn(Append(s, e)) = ResultsIn(s) \cup {n}
    BY <1>1, <1>3 DEF ResultsIn
  <2> QED BY <1>2, <1>3, <2>1, CountedResults, FS_AddElement DEF Weight
<1>4. CASE e \notin Results
  <2>1. ResultsIn(Append(s, e)) = ResultsIn(s)
    BY <1>1, <1>4 DEF ResultsIn
  <2> QED BY <1>4, <2>1, CountedResults DEF Weight
<1> QED BY <1>3, <1>4

LEMMA TakenResult ==
  ASSUME NEW s \in Seq(Events), s # <<>>
  PROVE  Cardinality(ResultsIn(Tail(s))) + Weight(s[1]) <= Cardinality(ResultsIn(s))
<1>1. /\ Len(s) \in Nat \ {0} /\ Tail(s) \in Seq(Events) /\ Len(Tail(s)) = Len(s) - 1
      /\ \A i \in 1..(Len(s) - 1) : Tail(s)[i] = s[i + 1]
  OBVIOUS
<1> DEFINE rest == ResultsIn(s) \ {1}
           shift == [i \in ResultsIn(Tail(s)) |-> i + 1]
<1>2. IsFiniteSet(rest) /\ Cardinality(rest) = Cardinality(ResultsIn(s)) - Weight(s[1])
  <2>1. 1 \in ResultsIn(s) <=> s[1] \in Results
    BY <1>1 DEF ResultsIn
  <2>2. IsFiniteSet(rest) /\ Cardinality(rest) = IF 1 \in ResultsIn(s) THEN Cardinality(ResultsIn(s)) - 1
                                                 ELSE Cardinality(ResultsIn(s))
    BY CountedResults, FS_RemoveElement
  <2> QED BY <2>1, <2>2, CountedResults DEF Weight
<1>3. \A i \in ResultsIn(Tail(s)) : i \in Int /\ i + 1 \in rest
  BY <1>1 DEF ResultsIn
<1>4. shift \in Injection(ResultsIn(Tail(s)), rest)
  <2> HIDE DEF rest
  <2>1. shift \in [ResultsIn(Tail(s)) -> rest]
    BY <1>3
  <2>2. \A i, j \in ResultsIn(Tail(s)) : shift[i] = shift[j] => i = j
    BY <1>3
  <2> QED BY <2>1, <2>2 DEF Injection, IsInjective
<1> HIDE DEF rest, shift
<1>5. Cardinality(ResultsIn(Tail(s))) <= Cardinality(rest)
  BY <1>2, <1>4, FS_Injection
<1>6. Cardinality(ResultsIn(Tail(s))) \in Nat /\ Cardinality(ResultsIn(s)) \in Nat /\ Weight(s[1]) \in Nat
  BY <1>1, CountedResults DEF Weight
<1> QED BY <1>2, <1>5, <1>6

LEMMA OutIsNat ==
  ASSUME AnswerInv
  PROVE  ResultsOut \in Nat
BY CountedResults DEF AnswerInv, QueueTypes, ResultsOut, Weight

LEMMA PushedResult ==
  ASSUME AnswerInv, NEW e \in Events, Push(e), UNCHANGED seen
  PROVE  ResultsOut' = ResultsOut + Weight(e)
<1> USE DEF AnswerInv, QueueTypes
<1>1. CASE waiter
  <2>1. handed = "none" /\ handed' = e /\ items' = items
    BY <1>1 DEF ReaderWaits, Push
  <2>2. Weight("none") = 0
    BY DEF Weight, Results
  <2>3. Weight(e) \in Nat
    BY DEF Weight
  <2> QED BY <2>1, <2>2, <2>3, CountedResults DEF ResultsOut
<1>2. CASE ~waiter
  <2>1. handed' = handed /\ items' = Append(items, e)
    BY <1>2 DEF Push
  <2>2. Weight(e) \in Nat /\ Weight(handed) \in Nat
    BY DEF Weight
  <2> QED BY <2>1, <2>2, CountedResults, AppendedResult DEF ResultsOut
<1> QED BY <1>1, <1>2

LEMMA ReadResult ==
  ASSUME AnswerInv, ReaderStep
  PROVE  ResultsOut' <= ResultsOut
<1> USE DEF AnswerInv, QueueTypes
<1>1. \A e : Weight(e) \in Nat
  BY DEF Weight
<1>2. Weight("none") = 0 /\ Weight("end") = 0
  BY DEF Weight, Results
<1>3. CASE ReaderResumes /\ handed = "end"
  BY <1>2, <1>3, CountedResults DEF ReaderResumes, ResultsOut
<1>4. CASE ReaderResumes /\ handed \in Events
  <2>1. seen' = Append(seen, handed) /\ items' = items /\ handed' = "none"
    BY <1>4 DEF ReaderResumes, Events
  <2> QED BY <1>1, <1>2, <1>4, <2>1, CountedResults, AppendedResult DEF ResultsOut
<1>5. CASE ReaderPulls /\ items # <<>>
  <2>1. seen' = Append(seen, items[1]) /\ items' = Tail(items) /\ handed' = handed /\ items[1] \in Events
    BY <1>5 DEF ReaderPulls
  <2>2. /\ Cardinality(ResultsIn(seen')) = Cardinality(ResultsIn(seen)) + Weight(items[1])
        /\ Cardinality(ResultsIn(items')) + Weight(items[1]) <= Cardinality(ResultsIn(items))
    BY <1>5, <2>1, AppendedResult, TakenResult
  <2>3. items' \in Seq(Events)
    BY <1>5, <2>1
  <2>4. /\ Cardinality(ResultsIn(seen)) \in Nat /\ Cardinality(ResultsIn(items)) \in Nat
        /\ Cardinality(ResultsIn(items')) \in Nat
    BY <2>3, CountedResults
  <2>5. Weight(items[1]) \in Nat /\ Weight(handed) \in Nat
    BY <1>1
  <2> QED BY <2>1, <2>2, <2>4, <2>5 DEF ResultsOut
<1>6. CASE ReaderPulls /\ items = <<>>
  <2>1. seen' = seen /\ items' = items /\ handed' = handed
    BY <1>6 DEF ReaderPulls
  <2> QED BY <1>1, <2>1, CountedResults DEF ResultsOut
<1> QED BY <1>3, <1>4, <1>5, <1>6 DEF ReaderStep, ReaderResumes

LEMMA CostStep ==
  ASSUME AnswerInv, CostInv, [Next]_vars
  PROVE  CostInv'
<1> USE AnswerAssumption
<1>0. /\ turn \in Nat /\ toolCount \in Nat /\ responses \in Nat /\ pc \in Places /\ ResultsOut \in Nat
      /\ ToolPlaces = {"tool", "tool-open", "tool-read"}
  BY OutIsNat DEF CostInv, AnswerInv, QueueTypes, ToolPlaces
<1>1. AnswerInv' /\ ResultsOut' \in Nat
  <2>1. seen' \in Seq(Events) /\ items' \in Seq(Events)
    BY AnswerInvStep DEF AnswerInv, QueueTypes
  <2>2. Cardinality(ResultsIn(seen')) \in Nat /\ Cardinality(ResultsIn(items')) \in Nat /\ Weight(handed') \in Nat
    BY <2>1, CountedResults DEF Weight
  <2> QED BY <2>2, AnswerInvStep DEF ResultsOut
<1>2. ASSUME UNCHANGED <<pc, turn, toolCount, responses>>, ResultsOut' <= ResultsOut
      PROVE  CostInv'
  BY <1>0, <1>1, <1>2 DEF CostInv
<1>3. CASE ReaderStep
  BY <1>2, <1>3, ReadResult DEF ReaderStep, ReaderResumes, ReaderPulls, loopVars, costVars
<1>4. ASSUME UNCHANGED <<queueVars, readerVars>>
      PROVE  ResultsOut' = ResultsOut
  BY <1>4 DEF ResultsOut, queueVars, readerVars
<1>5. CASE Shreds \/ RoleRevoked \/ UNCHANGED vars
  <2>1. UNCHANGED <<pc, loopVars, queueVars, readerVars, costVars>>
    BY <1>5 DEF Shreds, RoleRevoked, vars
  <2> QED BY <1>0, <1>2, <1>4, <2>1 DEF loopVars, costVars
<1>6. \A e : Weight(e) = IF e \in {"ok", "failed"} THEN 1 ELSE 0
  BY DEF Weight, Results
<1>7. CASE Connects \/ ConnectFails \/ TurnFails \/ ToolOpens \/ ToolReads \/ ToolThrows
           \/ FallbackOpens \/ FallbackReads
  <2>1. UNCHANGED <<loopVars, queueVars, readerVars, responses>>
        /\ \/ pc = "connect" /\ pc' = "turn"
           \/ pc \in ToolPlaces /\ pc' \in ToolPlaces
           \/ pc' = "fallback" /\ pc \notin {"closing", "done"}
           \/ pc' \in {"fallback-open", "fallback-read"} /\ pc \in {"fallback", "fallback-open"}
    BY <1>0, <1>7 DEF Connects, ConnectFails, TurnFails, ToolOpens, ToolReads, ToolThrows, LoopFails,
       FallbackOpens, FallbackReads, costVars
  <2>2. ResultsOut' = ResultsOut
    BY <1>4, <2>1
  <2> QED BY <1>0, <2>1, <2>2 DEF CostInv, loopVars
<1>8. CASE \E text \in BOOLEAN, n \in 0..MaxCallsPerTurn : Turn(text, n)
  <2>1. /\ pc = "turn" /\ pc' = "calls" /\ responses' = responses + 1
        /\ UNCHANGED <<turn, toolCount, queueVars, readerVars>>
    BY <1>8 DEF Turn
  <2>2. ResultsOut' = ResultsOut
    BY <1>4, <2>1
  <2> QED BY <1>0, <2>1, <2>2 DEF CostInv
<1>9. CASE ToolCalled
  <2>1. /\ pc = "calls" /\ toolCount' = toolCount + 1 /\ Push("started") /\ UNCHANGED <<seen, turn, responses>>
        /\ capExceeded' = (toolCount + 1 > MaxToolCalls) /\ pc' = IF capExceeded' THEN "decide" ELSE "tool"
    BY <1>9 DEF ToolCalled, readerVars, costVars
  <2>2. ResultsOut' = ResultsOut
    BY <1>0, <1>6, <2>1, PushedResult DEF Events
  <2>3. CASE toolCount + 1 > MaxToolCalls
    <3>1. pc' = "decide"
      BY <2>1, <2>3
    <3> QED BY <1>0, <2>1, <2>2, <3>1 DEF CostInv
  <2>4. CASE ~(toolCount + 1 > MaxToolCalls)
    <3>1. pc' = "tool"
      BY <2>1, <2>4
    <3> QED BY <1>0, <2>1, <2>2, <2>4, <3>1 DEF CostInv
  <2> QED BY <2>3, <2>4
<1>10. CASE ToolErrs \/ \E d \in BOOLEAN : ToolSucceeds(d)
  <2>1. PICK e \in {"ok", "failed"} :
          pc \in ToolPlaces /\ pc' = "calls" /\ Push(e) /\ UNCHANGED <<seen, turn, toolCount, responses>>
    BY <1>0, <1>10 DEF ToolErrs, ToolSucceeds, readerVars, loopVars, costVars
  <2>2. ResultsOut' = ResultsOut + 1
    BY <1>6, <2>1, PushedResult DEF Events
  <2> QED BY <1>0, <1>1, <2>1, <2>2 DEF CostInv
<1>11. CASE TurnEnds
  <2>1. /\ pc = "calls" /\ turn' = turn + 1 /\ UNCHANGED <<toolCount, responses, queueVars, readerVars>>
        /\ pc' \in {"decide", "turn"} /\ (turn' = MaxLlmTurns => pc' = "decide")
    BY <1>11, Zenon DEF TurnEnds
  <2>2. ResultsOut' = ResultsOut
    BY <1>4, <2>1
  <2> QED BY <1>0, <2>1, <2>2 DEF CostInv
<1>12. CASE Decides
  <2>1. /\ pc = "decide" /\ UNCHANGED <<turn, toolCount, responses, seen>>
        /\ \/ pc' = "fallback" /\ UNCHANGED <<queueVars, readerVars>>
           \/ pc' = "closing" /\ Push("answer")
    BY <1>12 DEF Decides, loopVars, costVars, readerVars
  <2>2. ResultsOut' = ResultsOut
    BY <1>0, <1>4, <1>6, <2>1, PushedResult DEF Events
  <2> QED BY <1>0, <2>1, <2>2 DEF CostInv
<1>13. CASE FallbackAnswers \/ FallbackErrs
  <2>1. PICK e \in {"answer", "error"} :
          /\ pc \in {"fallback", "fallback-open", "fallback-read"} /\ pc' = "closing" /\ Push(e)
          /\ UNCHANGED <<turn, toolCount, seen>> /\ responses' \in {responses, responses + 1}
    BY <1>13 DEF FallbackAnswers, FallbackErrs, loopVars, costVars, readerVars
  <2>2. ResultsOut' = ResultsOut
    BY <1>0, <1>6, <2>1, PushedResult DEF Events
  <2> QED BY <1>0, <2>1, <2>2 DEF CostInv
<1>14. CASE Finishes
  <2>1. /\ pc = "closing" /\ pc' = "done" /\ UNCHANGED <<turn, toolCount, responses, seen, items>>
        /\ handed' = handed \/ (handed' = "end" /\ waiter)
    BY <1>14 DEF Finishes, Close, loopVars, costVars, readerVars
  <2>2. waiter => handed = "none"
    BY DEF AnswerInv, ReaderWaits
  <2>3. Weight(handed') = Weight(handed)
    BY <1>6, <2>1, <2>2
  <2>4. ResultsOut' = ResultsOut
    BY <2>1, <2>3 DEF ResultsOut
  <2> QED BY <1>0, <2>1, <2>4 DEF CostInv
<1> QED BY <1>3, <1>5, <1>7, <1>8, <1>9, <1>10, <1>11, <1>12, <1>13, <1>14 DEF Next, LoopStep

(* A trace is open only inside the scope that closes it on the way out. *)
TraceInv == pc \in {"closing", "done"} \/ ~inTrace => trace # "open"

(* However the model spreads its calls over turns and whatever fails, a question
   runs no more than MAX_TOOL_CALLS tools and makes no more than MAX_LLM_TURNS + 1
   model calls. *)
THEOREM QuestionsAreBounded == Spec => []QuestionBounded
<1>1. Init => AnswerInv /\ CostInv
  <2> SUFFICES ASSUME Init PROVE CostInv
    BY AnswerInvInit
  <2>1. /\ seen = <<>> /\ items = <<>> /\ handed = "none" /\ pc = "connect"
        /\ turn = 0 /\ toolCount = 0 /\ responses = 0
    BY DEF Init
  <2>2. ResultsIn(<<>>) = {} /\ Weight("none") = 0
    BY DEF ResultsIn, Weight, Results
  <2>3. ResultsOut = 0
    BY <2>1, <2>2, FS_EmptySet DEF ResultsOut
  <2> QED BY <2>1, <2>3, AnswerAssumption DEF CostInv, ToolPlaces
<1>2. AnswerInv /\ CostInv /\ [Next]_vars => AnswerInv' /\ CostInv'
  BY AnswerInvStep, CostStep
<1>3. AnswerInv /\ CostInv => QuestionBounded
  <2> SUFFICES ASSUME AnswerInv, CostInv PROVE QuestionBounded
    OBVIOUS
  <2>1. {Cardinality(ResultsIn(seen)), Cardinality(ResultsIn(items)), Weight(handed)} \subseteq Nat
    BY CountedResults DEF AnswerInv, QueueTypes, Weight
  <2>2. Cardinality(ResultsIn(seen)) <= MaxToolCalls
    BY <2>1, AnswerAssumption DEF CostInv, ResultsOut
  <2>3. ResultsIn(seen) = {i \in 1..Len(seen) : seen[i] \in {"ok", "failed"}}
    BY DEF ResultsIn, Results
  <2>4. responses <= MaxLlmTurns + 1
    BY AnswerAssumption DEF CostInv
  <2>5. pc \in {"tool-open", "tool-read"} => toolCount <= MaxToolCalls
    BY DEF CostInv, ToolPlaces
  <2> QED BY <2>2, <2>3, <2>4, <2>5 DEF QuestionBounded
<1> QED BY <1>1, <1>2, <1>3, PTL DEF Spec

(* Whatever fails on the way, a question that is over has closed its trace. *)
THEOREM TracesAreClosed == Spec => []TraceNeverDangles
<1>1. Init => TraceInv
  BY DEF Init, TraceInv
<1>2. TraceInv /\ [Next]_vars => TraceInv'
  <2> SUFFICES ASSUME TraceInv, [Next]_vars PROVE TraceInv'
    OBVIOUS
  <2>1. CASE ReaderStep \/ Shreds \/ RoleRevoked \/ UNCHANGED vars
    <3>1. UNCHANGED <<pc, inTrace, trace>>
      BY <2>1 DEF ReaderStep, ReaderResumes, ReaderPulls, Shreds, RoleRevoked, vars, traceVars
    <3> QED BY <3>1 DEF TraceInv
  <2>2. CASE LoopStep
    <3>1. TraceEnds => trace' # "open"
      BY DEF TraceEnds
    <3>2. EndsWithin => trace' # "open" \/ (~inTrace /\ trace' = trace)
      BY DEF EndsWithin, TraceEnds
    <3>3. CASE ConnectFails \/ TurnFails \/ ToolThrows
      BY <3>1, <3>3 DEF ConnectFails, TurnFails, ToolThrows, LoopFails, TraceInv
    <3>4. CASE Decides \/ FallbackAnswers \/ FallbackErrs
      BY <3>1, <3>2, <3>4 DEF Decides, FallbackAnswers, FallbackErrs, TraceInv
    <3>5. CASE Finishes
      BY <3>5 DEF Finishes, TraceInv, traceVars
    <3>6. CASE \/ Connects \/ ToolOpens \/ ToolReads \/ TurnEnds \/ ToolCalled \/ ToolErrs
               \/ FallbackOpens \/ FallbackReads
               \/ (\E d \in BOOLEAN : ToolSucceeds(d))
               \/ \E text \in BOOLEAN, n \in 0..MaxCallsPerTurn : Turn(text, n)
      <4>1. pc' \notin {"closing", "done"} /\ UNCHANGED <<inTrace, trace>>
        BY <3>6 DEF Connects, ToolOpens, ToolReads, TurnEnds, ToolCalled, ToolErrs, FallbackOpens,
           FallbackReads, ToolSucceeds, Turn, traceVars
      <4> QED BY <4>1 DEF TraceInv
    <3> QED BY <2>2, <3>3, <3>4, <3>5, <3>6 DEF LoopStep
  <2> QED BY <2>1, <2>2 DEF Next
<1>3. TraceInv => TraceNeverDangles
  BY DEF TraceInv, TraceNeverDangles
<1> QED BY <1>1, <1>2, <1>3, PTL DEF Spec

-----------------------------------------------------------------------------
(***************************************************************************)
(* ask-panel.tsx.  Streams overlap, and one that settles clears what is    *)
(* shown of another: what is shown is of some stream in flight, not of the *)
(* last one asked.                                                         *)
(***************************************************************************)
AskStates == [pc : {"idle", "fetching", "streaming", "over"},
              step : {"none", "started", "ok", "failed", "settled"}, count : Nat]

PanelInv ==
  /\ ask \in [PanelAsks -> AskStates]
  /\ pending \/ steps # <<>> => \E a \in PanelAsks : InFlight(a)

LEMMA PanelStep ==
  ASSUME PanelInv, PanelNext
  PROVE  PanelInv'
<1>1. ASSUME NEW a \in PanelAsks, NEW t \in AskStates, ask' = [ask EXCEPT ![a] = t],
             t.pc \in {"fetching", "streaming"} \/ (~pending' /\ steps' = <<>>)
      PROVE  PanelInv'
  <2>1. ask' \in [PanelAsks -> AskStates] /\ ask'[a] = t
    BY <1>1 DEF PanelInv
  <2> QED BY <1>1, <2>1 DEF PanelInv, InFlight
<1>2. ASSUME NEW a \in PanelAsks PROVE ask[a] \in AskStates
  BY DEF PanelInv
<1>3. ASSUME NEW a \in PanelAsks, NEW at \in {"fetching", "streaming", "over"},
             ask' = [ask EXCEPT ![a].pc = at],
             at \in {"fetching", "streaming"} \/ (~pending' /\ steps' = <<>>)
      PROVE  PanelInv'
  <2> DEFINE t == [ask[a] EXCEPT !.pc = at]
  <2>1. t \in AskStates /\ t.pc = at /\ ask' = [ask EXCEPT ![a] = t]
    BY <1>2, <1>3 DEF AskStates
  <2> HIDE DEF t
  <2> QED BY <1>1, <1>3, <2>1
<1>4. ASSUME NEW a \in PanelAsks, Submits(a) PROVE PanelInv'
  BY <1>3, <1>4 DEF Submits
<1>5. ASSUME NEW a \in PanelAsks, PanelHears(a) PROVE PanelInv'
  BY <1>3, <1>5 DEF PanelHears
<1>6. ASSUME NEW a \in PanelAsks, Breaks(a) \/ StreamOver(a) PROVE PanelInv'
  <2>1. ask' = [ask EXCEPT ![a].pc = "over"] /\ pending' = FALSE /\ steps' = <<>>
    BY <1>6 DEF Breaks, StreamOver, Settle
  <2> QED BY <1>3, <2>1
<1>7. ASSUME NEW a \in PanelAsks, StepEvent(a) \/ AnswerEvent(a) \/ ErrorEvent(a) PROVE PanelInv'
  <2>1. ask[a].pc = "streaming" /\ ask[a] \in AskStates
    BY <1>2, <1>7 DEF StepEvent, AnswerEvent, ErrorEvent
  <2>2. ASSUME NEW step \in {"started", "ok", "failed", "settled"}, NEW count \in Nat,
               ask' = [ask EXCEPT ![a].step = step, ![a].count = count]
        PROVE  PanelInv'
    <3> DEFINE t == [ask[a] EXCEPT !.step = step, !.count = count]
    <3>1. t \in AskStates /\ t.pc = "streaming" /\ ask' = [ask EXCEPT ![a] = t]
      BY <2>1, <2>2 DEF AskStates
    <3> HIDE DEF t
    <3> QED BY <1>1, <3>1
  <2>3. ASSUME NEW step \in {"ok", "failed", "settled"}, ask' = [ask EXCEPT ![a].step = step]
        PROVE  PanelInv'
    <3> DEFINE t == [ask[a] EXCEPT !.step = step]
    <3>1. t \in AskStates /\ t.pc = "streaming" /\ ask' = [ask EXCEPT ![a] = t]
      BY <2>1, <2>3 DEF AskStates
    <3> HIDE DEF t
    <3> QED BY <1>1, <3>1
  <2>4. CASE StepEvent(a)
    <3>1. CASE ask[a].step = "started"
      BY <2>3, <2>4, <3>1 DEF StepEvent
    <3>2. CASE ask[a].step # "started"
      <4>1. ask' = [ask EXCEPT ![a].step = "started", ![a].count = ask[a].count + 1]
        BY <2>4, <3>2 DEF StepEvent
      <4>2. ask[a].count + 1 \in Nat
        BY <2>1 DEF AskStates
      <4> QED BY <2>2, <4>1, <4>2
    <3> QED BY <3>1, <3>2
  <2>5. CASE AnswerEvent(a) \/ ErrorEvent(a)
    BY <2>3, <2>5 DEF AnswerEvent, ErrorEvent
  <2> QED BY <1>7, <2>4, <2>5
<1>8. CASE NewConversation
  BY <1>8 DEF NewConversation, PanelInv, InFlight
<1> QED BY <1>4, <1>5, <1>6, <1>7, <1>8 DEF PanelNext, StreamStep

(* However many questions Enter submits while others are pending, and however
   their streams break, overlap and outlive a new conversation: with none in
   flight the composer is free, with no tool step left over. *)
THEOREM ComposerIsFreed == PanelSpec => []ComposerFreed
<1>1. PanelInit => PanelInv
  BY DEF PanelInit, PanelInv, AskStates, Idle
<1>2. PanelInv /\ [PanelNext]_panelVars => PanelInv'
  <2> SUFFICES ASSUME PanelInv, UNCHANGED panelVars PROVE PanelInv'
    BY PanelStep
  <2> QED BY DEF panelVars, PanelInv, InFlight
<1>3. PanelInv => ComposerFreed
  BY DEF PanelInv, ComposerFreed
<1> QED BY <1>1, <1>2, <1>3, PTL DEF PanelSpec

-----------------------------------------------------------------------------
(***************************************************************************)
(* graph-view.tsx.  A request that the panel moved on from is marked; one  *)
(* that is not is about what is selected.                                  *)
(***************************************************************************)
FetchInv ==
  /\ \A f \in fetches :
       /\ f = [id |-> f.id, node |-> f.node, cancelled |-> f.cancelled]
       /\ f.cancelled = TRUE \/ (f.cancelled = FALSE /\ f.node = selected)
  /\ panel.status # "none" => panel.node = selected

LEMMA SelectsKeeps ==
  ASSUME FetchInv, NEW node, Selects(node)
  PROVE  FetchInv'
<1>1. CASE node = selected
  BY <1>1 DEF Selects, FetchInv
<1>2. CASE node # selected
  <2>1. \A f \in CancelAll : f = [id |-> f.id, node |-> f.node, cancelled |-> TRUE] /\ f.cancelled = TRUE
    <3> TAKE f \in CancelAll
    <3>1. PICK g \in fetches : f = [g EXCEPT !.cancelled = TRUE]
      BY DEF CancelAll
    <3>2. g = [id |-> g.id, node |-> g.node, cancelled |-> g.cancelled]
      BY DEF FetchInv
    <3>3. f = [id |-> g.id, node |-> g.node, cancelled |-> TRUE]
      BY <3>1, <3>2
    <3> QED BY <3>3
  <2>2. CASE node = NoNode \/ node.kind # "entity"
    BY <1>2, <2>1, <2>2 DEF Selects, FetchInv, Closed
  <2>3. CASE ~(node = NoNode \/ node.kind # "entity")
    <3>1. PICK id \in 1..MaxFetches :
            /\ fetches' = CancelAll \cup {[id |-> id, node |-> node, cancelled |-> FALSE]}
            /\ panel' = [node |-> node, status |-> "loading"] /\ selected' = node
      BY <1>2, <2>3 DEF Selects
    <3> QED BY <2>1, <3>1 DEF FetchInv
  <2> QED BY <2>2, <2>3
<1> QED BY <1>1, <1>2

(* Whatever is clicked, filtered or reset while answers are on their way, and in
   whatever order they arrive, the provenance panel is about the selected node. *)
THEOREM PanelStaysOnSelected == GraphSpec => []PanelAboutSelected
<1>1. GraphInit => FetchInv
  <2> SUFFICES ASSUME GraphInit PROVE FetchInv
    OBVIOUS
  <2>1. fetches = {} /\ panel.status = "none"
    BY DEF GraphInit, Closed
  <2> QED BY <2>1 DEF FetchInv
<1>2. FetchInv /\ [GraphNext]_graphVars => FetchInv'
  <2> SUFFICES ASSUME FetchInv, [GraphNext]_graphVars PROVE FetchInv'
    OBVIOUS
  <2>1. CASE \E node : Selects(node)
    BY <2>1, SelectsKeeps
  <2>2. ASSUME NEW f \in fetches, FetchReturns(f) PROVE FetchInv'
    BY <2>2 DEF FetchReturns, Settles, FetchInv
  <2>3. CASE UNCHANGED graphVars
    BY <2>3 DEF graphVars, FetchInv
  <2> QED BY <2>1, <2>2, <2>3 DEF GraphNext, ChangesFilter, ResetsView, ClicksPane, ClicksNode, StartsOver
<1>3. FetchInv => PanelAboutSelected
  BY DEF FetchInv, PanelAboutSelected
<1> QED BY <1>1, <1>2, <1>3, PTL DEF GraphSpec

(* What is drawn hangs together, whatever was filtered, expanded and reset: every
   edge joins two drawn nodes, and the selected node is drawn. *)
THEOREM DrawingHangsTogether == GraphSpec => []DrawnHangsTogether
<1>1. \A e \in Drawn.edges : {e.from, e.to} \subseteq Drawn.nodes
  BY DEF Drawn, Filtered, FilterGraph
<1> DEFINE SelectedDrawn == selected # NoNode => selected \in Drawn.nodes
<1>2. GraphInit => SelectedDrawn
  BY DEF GraphInit
<1>3. SelectedDrawn /\ [GraphNext]_graphVars => SelectedDrawn'
  <2> SUFFICES ASSUME SelectedDrawn, [GraphNext]_graphVars PROVE SelectedDrawn'
    OBVIOUS
  <2>1. CASE ChangesFilter \/ ResetsView \/ ClicksPane
    BY <2>1 DEF ChangesFilter, ResetsView, ClicksPane, StartsOver, Selects
  <2>2. ASSUME NEW n, ClicksNode(n) PROVE SelectedDrawn'
    <3>1. Filtered' = Filtered
      BY <2>2 DEF ClicksNode, Filtered
    <3>2. selected' = n /\ n \in Filtered.nodes /\ n \in visible'
      BY <2>2 DEF ClicksNode, Selects, Drawn
    <3> QED BY <3>1, <3>2 DEF Drawn
  <2>3. ASSUME UNCHANGED <<graph, entityType, predicate, visible, selected>> PROVE SelectedDrawn'
    BY <2>3 DEF Drawn, Filtered
  <2>4. CASE \E f \in fetches : FetchReturns(f)
    BY <2>3, <2>4 DEF FetchReturns
  <2>5. CASE UNCHANGED graphVars
    BY <2>3, <2>5 DEF graphVars
  <2> QED BY <2>1, <2>2, <2>4, <2>5 DEF GraphNext
<1>4. SelectedDrawn => DrawnHangsTogether
  BY <1>1 DEF DrawnHangsTogether
<1> HIDE DEF SelectedDrawn
<1> QED BY <1>2, <1>3, <1>4, PTL DEF GraphSpec

-----------------------------------------------------------------------------
(***************************************************************************)
(* The history of the tool-calling loop.  A turn's results and its calls   *)
(* not yet made are, laid end to end, the calls of the last message.       *)
(***************************************************************************)
CallIds  == Nat \X Nat
Messages == [role : {"user", "tool", "assistant"}, ids : Seq(CallIds)]

LastMessage == history[Len(history)]

GatewayInv ==
  /\ history \in Seq(Messages) /\ round \in Nat
  /\ {toolResults, nextResults, todo} \subseteq Seq(CallIds)
  /\ HistoryAnswersCalls
  /\ loop = "turn" =>
       \/ history = <<>> /\ toolResults = <<>>
       \/ history # <<>> /\ LastMessage.role = "assistant" /\ toolResults = LastMessage.ids
  /\ loop = "calls" =>
       history # <<>> /\ LastMessage.role = "assistant" /\ nextResults \o todo = LastMessage.ids

(* A request is well formed, and its answer ends it. *)
LEMMA AnsweredInOrder ==
  ASSUME GatewayInv, loop = "turn", NEW ids \in Seq(CallIds), history' = Answered(ids)
  PROVE  /\ history' \in Seq(Messages) /\ history' # <<>>
         /\ LastMessage' = [role |-> "assistant", ids |-> ids] /\ HistoryAnswersCalls'
<1> DEFINE last == [role |-> "assistant", ids |-> ids]
           tool == [role |-> "tool", ids |-> toolResults]
<1>1. PICK base \in Seq(Messages) :
        /\ base = IF history = <<>> THEN Seed ELSE history
        /\ base # <<>>
  <2>1. Seed \in Seq(Messages) /\ Seed # <<>>
    BY DEF Seed, Messages
  <2> QED BY <2>1 DEF GatewayInv
<1>2. PICK n \in Nat : n = Len(base) /\ n > 0
  BY <1>1
<1>3. last \in Messages /\ tool \in Messages
  BY DEF Messages, GatewayInv
<1>4. \A i \in 1..n :
        /\ base[i].role = "tool" =>
             i > 1 /\ base[i - 1].role = "assistant" /\ base[i].ids = base[i - 1].ids
        /\ base[i].role = "assistant" /\ base[i].ids # <<>> /\ i < n => base[i + 1].role = "tool"
  <2>1. CASE history = <<>>
    <3>1. n = 1 /\ base[1].role = "user"
      BY <1>1, <1>2, <2>1 DEF Seed
    <3> QED BY <3>1
  <2>2. CASE history # <<>>
    BY <1>1, <1>2, <2>2 DEF GatewayInv, HistoryAnswersCalls
  <2> QED BY <2>1, <2>2
<1>5. CASE toolResults = <<>>
  <2>1. history' = base \o <<>> \o <<last>>
    BY <1>1, <1>5 DEF Answered, Fold
  <2>2. /\ history' \in Seq(Messages) /\ Len(history') = n + 1 /\ history'[n + 1] = last
        /\ \A i \in 1..n : history'[i] = base[i]
    <3> HIDE DEF last
    <3> QED BY <1>1, <1>2, <1>3, <2>1
  <2>3. base[n].role = "assistant" => base[n].ids = <<>>
    <3>1. CASE history = <<>>
      BY <1>1, <1>2, <3>1 DEF Seed
    <3>2. CASE history # <<>>
      BY <1>1, <1>2, <1>5, <3>2 DEF GatewayInv, LastMessage
    <3> QED BY <3>1, <3>2
  <2>4. HistoryAnswersCalls'
    <3> SUFFICES ASSUME NEW i \in 1..(n + 1)
                 PROVE  /\ history'[i].role = "tool" =>
                             i > 1 /\ history'[i - 1].role = "assistant"
                                   /\ history'[i].ids = history'[i - 1].ids
                        /\ history'[i].role = "assistant" /\ history'[i].ids # <<>> /\ i < n + 1 =>
                             history'[i + 1].role = "tool"
      BY <2>2 DEF HistoryAnswersCalls
    <3>1. CASE i = n + 1
      BY <2>2, <3>1
    <3>2. CASE i = n
      <4>1. i \in 1..n /\ i < n + 1 /\ (i > 1 => i - 1 \in 1..n)
        BY <1>2, <3>2
      <4>2. history'[i] = base[i] /\ (i > 1 => history'[i - 1] = base[i - 1])
        BY <2>2, <4>1
      <4>3. base[i].role = "tool" =>
              i > 1 /\ base[i - 1].role = "assistant" /\ base[i].ids = base[i - 1].ids
        BY <1>4, <4>1
      <4> QED BY <2>3, <3>2, <4>2, <4>3
    <3>3. CASE i < n
      <4>1. i \in 1..n /\ i + 1 \in 1..n /\ (i > 1 => i - 1 \in 1..n)
        BY <1>2, <3>3
      <4>2. /\ history'[i] = base[i] /\ history'[i + 1] = base[i + 1]
            /\ i > 1 => history'[i - 1] = base[i - 1]
        BY <2>2, <4>1
      <4>3. /\ base[i].role = "tool" =>
                  i > 1 /\ base[i - 1].role = "assistant" /\ base[i].ids = base[i - 1].ids
            /\ base[i].role = "assistant" /\ base[i].ids # <<>> => base[i + 1].role = "tool"
        BY <1>4, <3>3, <4>1
      <4> QED BY <4>2, <4>3
    <3> QED BY <1>2, <3>1, <3>2, <3>3
  <2> QED BY <2>2, <2>4 DEF LastMessage
<1>6. CASE toolResults # <<>>
  <2>1. history # <<>> /\ base = history /\ base[n].role = "assistant" /\ base[n].ids = toolResults
    BY <1>1, <1>2, <1>6 DEF GatewayInv, LastMessage
  <2>2. history' = base \o <<tool>> \o <<last>>
    BY <1>1, <1>6 DEF Answered, Fold
  <2>3. /\ history' \in Seq(Messages) /\ Len(history') = n + 2 /\ history'[n + 2] = last
        /\ history'[n + 1] = tool /\ \A i \in 1..n : history'[i] = base[i]
    <3> HIDE DEF last, tool
    <3> QED BY <1>1, <1>2, <1>3, <2>2
  <2>4. HistoryAnswersCalls'
    <3> SUFFICES ASSUME NEW i \in 1..(n + 2)
                 PROVE  /\ history'[i].role = "tool" =>
                             i > 1 /\ history'[i - 1].role = "assistant"
                                   /\ history'[i].ids = history'[i - 1].ids
                        /\ history'[i].role = "assistant" /\ history'[i].ids # <<>> /\ i < n + 2 =>
                             history'[i + 1].role = "tool"
      BY <2>3 DEF HistoryAnswersCalls
    <3>1. CASE i = n + 2
      BY <2>3, <3>1
    <3>2. CASE i = n + 1
      BY <1>2, <2>1, <2>3, <3>2
    <3>3. CASE i = n
      BY <1>2, <1>4, <2>1, <2>3, <3>3
    <3>4. CASE i < n
      <4>1. i \in 1..n /\ i + 1 \in 1..n /\ (i > 1 => i - 1 \in 1..n)
        BY <1>2, <3>4
      <4>2. /\ history'[i] = base[i] /\ history'[i + 1] = base[i + 1]
            /\ i > 1 => history'[i - 1] = base[i - 1]
        BY <2>3, <4>1
      <4>3. /\ base[i].role = "tool" =>
                  i > 1 /\ base[i - 1].role = "assistant" /\ base[i].ids = base[i - 1].ids
            /\ base[i].role = "assistant" /\ base[i].ids # <<>> => base[i + 1].role = "tool"
        BY <1>4, <3>4, <4>1
      <4> QED BY <4>2, <4>3
    <3> QED BY <1>2, <3>1, <3>2, <3>3, <3>4
  <2> QED BY <2>3, <2>4 DEF LastMessage
<1> QED BY <1>5, <1>6

LEMMA GatewayStep ==
  ASSUME GatewayInv, GatewayNext
  PROVE  GatewayInv'
<1>1. ASSUME NEW n \in 0..MaxParallel, ModelTurn(n) PROVE GatewayInv'
  <2> PICK ids : ids = [i \in 1..n |-> <<round, i>>]
    OBVIOUS
  <2>1. ids \in Seq(CallIds)
    <3>1. n \in Nat /\ round \in Nat
      BY GatewayAssumption DEF GatewayInv
    <3>2. \A i \in 1..n : <<round, i>> \in CallIds
      BY <3>1 DEF CallIds
    <3>3. ids \in [1..n -> CallIds]
      BY <3>2
    <3> QED BY <3>1, <3>3
  <2>2. /\ loop = "turn" /\ history' = Answered(ids) /\ todo' = ids /\ nextResults' = <<>>
        /\ loop' = "calls" /\ UNCHANGED <<toolResults, round>>
    BY <1>1 DEF ModelTurn
  <2>3. /\ history' \in Seq(Messages) /\ history' # <<>>
        /\ LastMessage' = [role |-> "assistant", ids |-> ids] /\ HistoryAnswersCalls'
    BY <2>1, <2>2, AnsweredInOrder
  <2>4. nextResults' \o todo' = ids /\ nextResults' \in Seq(CallIds)
    BY <2>1, <2>2
  <2> QED BY <2>1, <2>2, <2>3, <2>4 DEF GatewayInv
<1>2. CASE CallReturns
  <2>1. /\ loop = "calls" /\ todo # <<>> /\ nextResults' = Append(nextResults, Head(todo))
        /\ todo' = Tail(todo) /\ UNCHANGED <<history, toolResults, round, loop>>
    BY <1>2 DEF CallReturns
  <2>2. nextResults \in Seq(CallIds) /\ todo \in Seq(CallIds)
    BY DEF GatewayInv
  <2>3. nextResults' \in Seq(CallIds) /\ todo' \in Seq(CallIds)
    BY <2>1, <2>2
  <2>4. nextResults' \o todo' = nextResults \o todo
    BY <2>1, <2>2
  <2> QED BY <2>1, <2>3, <2>4 DEF GatewayInv, LastMessage, HistoryAnswersCalls
<1>3. CASE RoundEnds
  <2>1. /\ loop = "calls" /\ todo = <<>> /\ round' = round + 1 /\ toolResults' = nextResults
        /\ loop' \in {"over", "turn"} /\ UNCHANGED <<history, nextResults, todo>>
    BY <1>3 DEF RoundEnds, HandOver
  <2>2. nextResults \in Seq(CallIds) /\ round' \in Nat
    BY <2>1 DEF GatewayInv
  <2>3. nextResults \o todo = nextResults
    BY <2>1, <2>2
  <2> QED BY <2>1, <2>2, <2>3 DEF GatewayInv, LastMessage, HistoryAnswersCalls
<1>4. CASE LoopBreaks
  BY <1>4 DEF LoopBreaks, GatewayInv, LastMessage, HistoryAnswersCalls
<1>5. CASE Complete \/ Extract
  BY <1>5 DEF Complete, Extract, OneShot, GatewayInv, LastMessage, HistoryAnswersCalls
<1> QED BY <1>1, <1>2, <1>3, <1>4, <1>5 DEF GatewayNext

(* Every request of a tool-calling loop, however many calls its turns make and
   wherever it breaks, has a history that the providers accept: the results of
   each assistant message's calls right after it, once each. *)
THEOREM HistoryIsAnswered == GatewaySpec => []HistoryAnswersCalls
<1>1. GatewayInit => GatewayInv
  <2> SUFFICES ASSUME GatewayInit PROVE GatewayInv
    OBVIOUS
  <2>1. <<>> \in Seq(Messages) /\ <<>> \in Seq(CallIds) /\ Len(<<>>) = 0
    OBVIOUS
  <2> QED BY <2>1 DEF GatewayInit, GatewayInv, HistoryAnswersCalls
<1>2. GatewayInv /\ [GatewayNext]_gatewayVars => GatewayInv'
  <2> SUFFICES ASSUME GatewayInv, UNCHANGED gatewayVars PROVE GatewayInv'
    BY GatewayStep
  <2> QED BY DEF gatewayVars, GatewayInv, LastMessage, HistoryAnswersCalls
<1>3. GatewayInv => HistoryAnswersCalls
  BY DEF GatewayInv
<1> QED BY <1>1, <1>2, <1>3, PTL DEF GatewaySpec

-----------------------------------------------------------------------------
(***************************************************************************)
(* LineageService and RetrievalService.  Between two statements of a       *)
(* request rows are added, and the facts of a run replaced; what was there *)
(* from the first statement on was there for each.                         *)
(***************************************************************************)
AllEntities == {Entity(s) : s \in Sources}
AllFacts    == [at : Nat, src : Sources, n : Nat]
AllEvidence == [fact : AllFacts, quote : Nat]

Stages == {"idle", "candidates", "gate", "first", "second", "third", "handled", "committed",
           "served", "refused"}
Requests ==
  [kind : {"none", "fact", "entity", "graph", "search", "list"}, pc : Stages,
   on : AllFacts \cup Sources \cup Filters \cup {None} \cup SUBSET AllFacts,
   first : SUBSET (AllEntities \cup AllFacts),
   second : SUBSET (Sources \cup AllFacts \cup Edges),
   third : SUBSET (AllFacts \cup Edges \cup {"more"}),
   cited : SUBSET AllEvidence, log : {"none", "pending", "committed"},
   steady : [entities : SUBSET AllEntities, facts : SUBSET AllFacts, edges : SUBSET Edges]]
Walks ==
  [rows : SUBSET AllFacts, returned : Nat, cursor : {<<>>} \cup {<<f>> : f \in AllFacts},
   open : BOOLEAN, pages : Nat, steady : SUBSET AllFacts]

DbTypes ==
  /\ landed \subseteq Sources /\ linked \subseteq Edges /\ clock \in Nat \ {0}
  /\ run \in [Sources -> Nat]
  /\ \A s \in Sources : run[s] # 0 => s \in landed

ViewsTypes == DbTypes /\ req \in Requests /\ walk \in Walks

(* What is committed is of its types, and there is an end to it. *)
LEMMA RowTypes ==
  ASSUME DbTypes
  PROVE  /\ EntityRows \subseteq AllEntities /\ EdgeRows \subseteq Edges
         /\ FactRows \subseteq AllFacts /\ RunFacts \subseteq AllFacts
         /\ Evidence \subseteq AllEvidence
<1>1. \A s \in landed : StatusFact(s) \in AllFacts
  BY DEF StatusFact, AllFacts, DbTypes
<1>2. RunFacts \subseteq AllFacts
  BY ViewsAssumption DEF RunFacts, AllFacts, DbTypes
<1>3. FactRows \subseteq AllFacts
  BY <1>1, <1>2 DEF FactRows
<1>4. Evidence \subseteq AllEvidence
  BY <1>2, ViewsAssumption DEF Evidence, AllEvidence
<1> QED BY <1>2, <1>3, <1>4 DEF EntityRows, AllEntities, EdgeRows, DbTypes

LEMMA RowsFinite ==
  ASSUME DbTypes
  PROVE  IsFiniteSet(EntityRows) /\ IsFiniteSet(EdgeRows) /\ IsFiniteSet(FactRows)
<1>1. IsFiniteSet(landed) /\ IsFiniteSet(EdgeRows)
  BY ViewsAssumption, RowTypes, FS_Subset DEF DbTypes
<1>2. IsFiniteSet(EntityRows)
  <2> DEFINE f == [s \in landed |-> Entity(s)]
  <2>1. f \in Surjection(landed, EntityRows)
    BY DEF Surjection, EntityRows
  <2> QED BY <1>1, <2>1, FS_Surjection
<1>3. IsFiniteSet({StatusFact(s) : s \in landed})
  <2> DEFINE status == {StatusFact(s) : s \in landed}
             f == [s \in landed |-> StatusFact(s)]
  <2>1. f \in Surjection(landed, status)
    BY DEF Surjection
  <2> QED BY <1>1, <2>1, FS_Surjection
<1>4. IsFiniteSet(RunFacts)
  <2> DEFINE ran == {s \in Sources : run[s] > 0}
             n == 1..FactsPerRun
             f == [q \in ran \X n |-> [at |-> run[q[1]], src |-> q[1], n |-> q[2]]]
  <2>1. IsFiniteSet(ran) /\ IsFiniteSet(n)
    <3>1. ran \in SUBSET Sources /\ IsFiniteSet(Sources) /\ FactsPerRun \in Int
      BY ViewsAssumption
    <3>2. IsFiniteSet(1..FactsPerRun)
      BY <3>1, FS_Interval
    <3> HIDE DEF ran
    <3> QED BY <3>1, <3>2, FS_Subset
  <2>2. IsFiniteSet(ran \X n)
    <3> HIDE DEF ran, n
    <3> QED BY <2>1, FS_Product
  <2>3. f \in Surjection(ran \X n, RunFacts)
    <3>1. \A q \in ran \X n : f[q] \in RunFacts
      BY DEF RunFacts
    <3>2. ASSUME NEW x \in RunFacts PROVE \E q \in ran \X n : f[q] = x
      <4>1. PICK s \in ran, i \in n : x = [at |-> run[s], src |-> s, n |-> i]
        BY DEF RunFacts
      <4>2. <<s, i>> \in ran \X n /\ f[<<s, i>>] = x
        BY <4>1
      <4> QED BY <4>2
    <3> HIDE DEF f
    <3>3. f \in [ran \X n -> RunFacts]
      BY <3>1 DEF f
    <3> QED BY <3>2, <3>3 DEF Surjection
  <2> QED BY <2>2, <2>3, FS_Surjection
<1> QED BY <1>1, <1>2, <1>3, <1>4, FS_Union DEF FactRows

(* Rows only come, but for the facts that a new run replaces. *)
LEMMA ExtractsRows ==
  ASSUME DbTypes, NEW s \in Sources, Extracts(s)
  PROVE  /\ DbTypes' /\ EntityRows' = EntityRows /\ EdgeRows' = EdgeRows
         /\ FactRows \ {f \in RunFacts : f.src = s} \subseteq FactRows'
<1>1. run' = [run EXCEPT ![s] = clock] /\ clock' = clock + 1 /\ s \in landed
      /\ UNCHANGED <<landed, linked>>
  BY DEF Extracts
<1>2. DbTypes'
  BY <1>1 DEF DbTypes
<1>3. ASSUME NEW f \in RunFacts, f.src # s PROVE f \in RunFacts'
  <2>1. PICK t \in Sources, i \in 1..FactsPerRun :
          run[t] > 0 /\ f = [at |-> run[t], src |-> t, n |-> i]
    BY DEF RunFacts
  <2>2. t # s /\ run'[t] = run[t]
    BY <1>1, <1>3, <2>1 DEF DbTypes
  <2> QED BY <2>1, <2>2 DEF RunFacts
<1> QED BY <1>1, <1>2, <1>3 DEF EntityRows, EdgeRows, FactRows

LEMMA GrowsRows ==
  ASSUME DbTypes, UNCHANGED <<run, clock>>,
         \/ \E s \in Sources : landed' = landed \cup {s} /\ UNCHANGED linked
         \/ \E e \in Edges : e.source = None /\ linked' = linked \cup {e} /\ UNCHANGED landed
         \/ UNCHANGED <<landed, linked>>
  PROVE  /\ DbTypes' /\ EntityRows \subseteq EntityRows' /\ EdgeRows \subseteq EdgeRows'
         /\ FactRows \subseteq FactRows'
BY DEF DbTypes, EntityRows, EdgeRows, FactRows, RunFacts, StatusFact

-----------------------------------------------------------------------------
SteadyInv ==
  /\ req.steady.entities \subseteq EntityRows
  /\ req.steady.facts \subseteq FactRows
  /\ req.steady.edges \subseteq EdgeRows

IsOfType(x, type) == \E s \in Sources : x = Entity(s) /\ (type = None \/ TypeOf[s] = type)

Read1 == {"second", "third", "handled", "committed", "served"}
Read2 == {"third", "handled", "committed", "served"}
Read3 == {"handled", "committed", "served"}

(* What a request for the graph has read is whole, or larger than its cap. *)
GraphInv ==
  req.kind = "graph" =>
    /\ req.on \in Filters
    /\ req.pc \in Read1 /\ ~(Cardinality(req.first) > EntityCap) =>
         \A x \in req.steady.entities : IsOfType(x, req.on.type) => x \in req.first
    /\ req.pc \in Read2 /\ ~(Cardinality(req.second) > FactCap) /\ req.on.type = None =>
         req.steady.facts \subseteq req.second
    /\ req.pc \in Read3 /\ ~(Cardinality(req.third) > EdgeCap) =>
         \A e \in req.steady.edges :
           req.on.predicate = None \/ e.predicate = req.on.predicate => e \in req.third

(* What a request for an entity has read leads to the next. *)
EntityInv ==
  req.kind = "entity" =>
    /\ req.on \in Sources
    /\ req.pc \in Read2 =>
         \A e \in req.steady.edges :
           e.source # None /\ Entity(req.on) \in {e.from, e.to} => e \in req.second
    /\ req.pc \in Read3 =>
         \A f \in req.steady.facts :
           (\E e \in req.second : Counterpart(e, Entity(req.on)) = FactNode(f)) => f \in req.third

(* Quotes are read by the fact, and all in one statement. *)
CitedInv ==
  /\ req.pc \notin Read3 \cup {"refused"} => req.cited = {}
  /\ \A ev \in req.cited :
       /\ ev.fact \in req.first /\ ev.quote \in 1..Quotes
       /\ \A q \in 1..Quotes : [fact |-> ev.fact, quote |-> q] \in req.cited

(* The row that logs a read commits with the request. *)
LogInv ==
  /\ req.log = "pending" => req.pc = "handled"
  /\ req.log = "committed" => req.pc \in {"committed", "served"}
  /\ req.kind \in {"fact", "list", "search"} /\ req.pc \in Read3 => req.log # "none"

ReqInv == SteadyInv /\ GraphInv /\ EntityInv /\ CitedInv /\ LogInv

(* The database moves on under a request. *)
LEMMA DbKeepsRequest ==
  ASSUME ViewsTypes, ReqInv,
         \/ \E s \in Sources : Lands(s) \/ Extracts(s)
         \/ \E e \in Edges : Links(e)
  PROVE  DbTypes' /\ req' \in Requests /\ ReqInv'
<1>1. DbTypes /\ req \in Requests
  BY DEF ViewsTypes
<1>2. CASE \E s \in Sources : Extracts(s)
  <2>1. PICK s \in Sources : Extracts(s)
    BY <1>2
  <2> DEFINE gone == {f \in RunFacts : f.src = s}
             t == [req EXCEPT !.steady.facts = req.steady.facts \ gone]
  <2>2. req' = t
    BY <2>1 DEF Extracts, Removed
  <2>3. /\ t \in Requests /\ t.steady.facts = req.steady.facts \ gone
        /\ t.steady.entities = req.steady.entities /\ t.steady.edges = req.steady.edges
        /\ t.kind = req.kind /\ t.pc = req.pc /\ t.on = req.on /\ t.first = req.first
        /\ t.second = req.second /\ t.third = req.third /\ t.cited = req.cited /\ t.log = req.log
    BY <1>1 DEF Requests
  <2>4. DbTypes' /\ EntityRows' = EntityRows /\ EdgeRows' = EdgeRows /\ FactRows \ gone \subseteq FactRows'
    BY <1>1, <2>1, ExtractsRows
  <2> HIDE DEF t, gone
  <2>5. SteadyInv'
    BY <2>2, <2>3, <2>4 DEF ReqInv, SteadyInv
  <2>6. GraphInv' /\ EntityInv'
    BY <2>2, <2>3 DEF ReqInv, GraphInv, EntityInv
  <2>7. CitedInv' /\ LogInv'
    BY <2>2, <2>3 DEF ReqInv, CitedInv, LogInv
  <2> QED BY <2>2, <2>3, <2>4, <2>5, <2>6, <2>7 DEF ReqInv
<1>3. CASE (\E s \in Sources : Lands(s)) \/ (\E e \in Edges : Links(e))
  <2>1. UNCHANGED <<run, clock, req>>
    BY <1>3 DEF Lands, Links
  <2>2. \/ \E s \in Sources : landed' = landed \cup {s} /\ UNCHANGED linked
        \/ \E e \in Edges : e.source = None /\ linked' = linked \cup {e} /\ UNCHANGED landed
    BY <1>3 DEF Lands, Links
  <2>3. /\ DbTypes' /\ EntityRows \subseteq EntityRows' /\ EdgeRows \subseteq EdgeRows'
        /\ FactRows \subseteq FactRows'
    BY <1>1, <2>1, <2>2, GrowsRows
  <2>4. SteadyInv'
    BY <2>1, <2>3 DEF ReqInv, SteadyInv
  <2>5. GraphInv' /\ EntityInv' /\ CitedInv' /\ LogInv'
    BY <2>1 DEF ReqInv, GraphInv, EntityInv, CitedInv, LogInv
  <2> QED BY <1>1, <2>1, <2>3, <2>4, <2>5 DEF ReqInv
<1> QED BY <1>2, <1>3

LEMMA BeginsKeeps ==
  ASSUME ViewsTypes, NEW kind \in {"fact", "entity", "graph", "search", "list"},
         NEW on \in AllFacts \cup Sources \cup Filters \cup {None} \cup SUBSET AllFacts,
         Begins(kind, on), kind = "graph" => on \in Filters, kind = "entity" => on \in Sources
  PROVE  req' \in Requests /\ ReqInv'
<1> DEFINE stage == IF kind = "search" THEN "candidates" ELSE "gate"
           was == [entities |-> EntityRows, facts |-> FactRows, edges |-> EdgeRows]
           t == [kind |-> kind, pc |-> stage, on |-> on, first |-> {}, second |-> {}, third |-> {},
                 cited |-> {}, log |-> "none", steady |-> was]
<1>1. req' = t /\ UNCHANGED viewDb
  BY DEF Begins, Nothing, OnlyRequest
<1>2. was \in [entities : SUBSET AllEntities, facts : SUBSET AllFacts, edges : SUBSET Edges]
  BY RowTypes DEF ViewsTypes
<1>3. was.entities = EntityRows /\ was.facts = FactRows /\ was.edges = EdgeRows
  OBVIOUS
<1> HIDE DEF was
<1>4. t \in Requests
  BY <1>2 DEF Requests, Stages
<1>5. EntityRows' = EntityRows /\ FactRows' = FactRows /\ EdgeRows' = EdgeRows
  BY <1>1 DEF viewDb, EntityRows, FactRows, EdgeRows, RunFacts
<1>6. t.kind = kind /\ t.on = on /\ t.cited = {} /\ t.log = "none" /\ t.steady = was
      /\ t.pc \in {"candidates", "gate"}
  OBVIOUS
<1> HIDE DEF t
<1>7. SteadyInv'
  BY <1>1, <1>3, <1>5, <1>6 DEF SteadyInv
<1>8. GraphInv' /\ EntityInv'
  BY <1>1, <1>6 DEF GraphInv, EntityInv, Read1, Read2, Read3
<1>9. CitedInv' /\ LogInv'
  BY <1>1, <1>6 DEF CitedInv, LogInv, Read3
<1> QED BY <1>1, <1>4, <1>7, <1>8, <1>9 DEF ReqInv

(* A step of the request leaves the database and what it could count on alone. *)
SameRequest ==
  req'.kind = req.kind /\ req'.on = req.on /\ req'.steady = req.steady

LEMMA SteadyStays ==
  ASSUME SteadyInv, UNCHANGED viewDb, SameRequest
  PROVE  SteadyInv'
<1>1. EntityRows' = EntityRows /\ FactRows' = FactRows /\ EdgeRows' = EdgeRows
  BY DEF viewDb, EntityRows, FactRows, EdgeRows, RunFacts
<1> QED BY <1>1 DEF SteadyInv, SameRequest

LEMMA PassesOn ==
  ASSUME ViewsTypes, ReqInv, UNCHANGED viewDb,
         Gate \/ ReadsEntity \/ Fails \/ Commits \/ (MayRespond /\ Goes("served"))
  PROVE  req' \in Requests /\ ReqInv' /\ SameRequest
         /\ req'.first = req.first /\ req'.second = req.second /\ req'.third = req.third
<1>1. req \in Requests
  BY DEF ViewsTypes
<1>2. /\ req' \in Requests /\ SameRequest /\ req'.cited = req.cited
      /\ req'.first = req.first /\ req'.second = req.second /\ req'.third = req.third
      /\ \/ req.pc = "gate" /\ req'.pc \in {"first", "refused"} /\ req'.log = req.log
         \/ req.kind = "entity" /\ req.pc = "first" /\ req'.pc \in {"second", "refused"} /\ req'.log = req.log
         \/ req'.pc = "refused" /\ req'.log = "none"
         \/ req.pc = "handled" /\ req'.pc = "committed"
            /\ req'.log = (IF req.log = "pending" THEN "committed" ELSE req.log)
         \/ req.pc = "committed" /\ req'.pc = "served" /\ req'.log = req.log
  <2>1. CASE Gate
    BY <1>1, <2>1 DEF Gate, Goes, Requests, Stages, SameRequest
  <2>2. CASE ReadsEntity
    BY <1>1, <2>2 DEF ReadsEntity, Goes, Requests, Stages, SameRequest
  <2>3. CASE Fails
    BY <1>1, <2>3 DEF Fails, Requests, Stages, SameRequest
  <2>4. CASE Commits
    BY <1>1, <2>4 DEF Commits, Requests, Stages, SameRequest
  <2>5. CASE MayRespond /\ Goes("served")
    BY <1>1, <2>5 DEF MayRespond, Goes, Requests, Stages, SameRequest
  <2> QED BY <2>1, <2>2, <2>3, <2>4, <2>5
<1>3. SteadyInv'
  BY <1>2, SteadyStays DEF ReqInv
<1>4. GraphInv'
  BY <1>2 DEF ReqInv, GraphInv, SameRequest, Read1, Read2, Read3
<1>5. EntityInv'
  BY <1>2 DEF ReqInv, EntityInv, SameRequest, Read2, Read3
<1>6. CitedInv'
  BY <1>2 DEF ReqInv, CitedInv, Read3
<1>7. LogInv'
  BY <1>1, <1>2 DEF ReqInv, LogInv, SameRequest, Read3, Requests, Stages
<1> QED BY <1>2, <1>3, <1>4, <1>5, <1>6, <1>7 DEF ReqInv

(* A row cap that was not reached leaves nothing out. *)
LEMMA UncappedIsWhole ==
  ASSUME NEW rows, IsFiniteSet(rows), NEW cap \in Nat, NEW kept, Limited(rows, cap, kept),
         ~(Cardinality(kept) > cap)
  PROVE  kept = rows
<1>1. kept \in SUBSET rows /\ Cardinality(rows) \in Nat
  BY FS_CardinalityType DEF Limited
<1>2. Cardinality(kept) = Cardinality(rows)
  BY <1>1 DEF Limited, FetchLimit
<1> QED BY <1>1, <1>2, FS_Subset

LEMMA ReadsGraphKeeps ==
  ASSUME ViewsTypes, ReqInv, ReadsGraphEntities \/ ReadsGraphFacts \/ ReadsGraphEdges
  PROVE  req' \in Requests /\ ReqInv' /\ SameRequest
<1>1. req \in Requests /\ DbTypes /\ req.kind = "graph" /\ UNCHANGED viewDb
  BY DEF ViewsTypes, ReadsGraphEntities, ReadsGraphFacts, ReadsGraphEdges, OnlyRequest
<1>2. /\ EntityRows \subseteq AllEntities /\ FactRows \subseteq AllFacts /\ EdgeRows \subseteq Edges
      /\ IsFiniteSet(EntityRows) /\ IsFiniteSet(FactRows) /\ IsFiniteSet(EdgeRows)
      /\ EntityCap \in Nat /\ FactCap \in Nat /\ EdgeCap \in Nat
  BY <1>1, RowTypes, RowsFinite, ViewsAssumption
<1>3. SameRequest => SteadyInv' /\ (req'.log = req.log /\ req.pc \notin Read3 \cup {"refused"}
        /\ req'.cited = req.cited /\ req'.pc # "committed" => LogInv' /\ CitedInv' /\ EntityInv')
  BY <1>1, SteadyStays DEF ReqInv, SameRequest, LogInv, CitedInv, EntityInv, Read3
<1>4. CASE ReadsGraphEntities
  <2>1. PICK kept \in SUBSET EntityRows :
          /\ Limited(OfType(req.on.type), EntityCap, kept)
          /\ req' = [req EXCEPT !.first = kept, !.pc = "second"]
    BY <1>4 DEF ReadsGraphEntities
  <2>2. /\ req' \in Requests /\ SameRequest /\ req'.first = kept /\ req'.pc = "second"
        /\ req'.second = req.second /\ req'.third = req.third
        /\ req'.log = req.log /\ req'.cited = req.cited /\ req.pc = "first"
    BY <1>1, <1>2, <1>4, <2>1 DEF ReadsGraphEntities, Requests, Stages, SameRequest
  <2>3. ASSUME ~(Cardinality(kept) > EntityCap), NEW x \in req.steady.entities,
               IsOfType(x, req.on.type)
        PROVE  x \in kept
    <3>1. OfType(req.on.type) \subseteq EntityRows
      BY DEF OfType, EntityRows
    <3>2. kept = OfType(req.on.type)
      BY <1>2, <2>1, <2>3, <3>1, FS_Subset, UncappedIsWhole
    <3>3. PICK s \in Sources : x = Entity(s) /\ (req.on.type = None \/ TypeOf[s] = req.on.type)
      BY <2>3 DEF IsOfType
    <3>4. s \in landed
      BY <2>3, <3>3 DEF ReqInv, SteadyInv, EntityRows, Entity
    <3> QED BY <3>2, <3>3, <3>4 DEF OfType
  <2>4. GraphInv'
    BY <2>2, <2>3 DEF ReqInv, GraphInv, SameRequest, Read2, Read3
  <2> QED BY <1>1, <1>3, <2>2, <2>4 DEF ReqInv, Read3
<1>5. CASE ReadsGraphFacts
  <2>1. PICK kept \in SUBSET FactRows :
          /\ Limited(IF req.on.type = None THEN FactRows ELSE {}, FactCap, kept)
          /\ req' = [req EXCEPT !.second = kept, !.pc = "third"]
    BY <1>5 DEF ReadsGraphFacts
  <2>2. /\ req' \in Requests /\ SameRequest /\ req'.second = kept /\ req'.pc = "third"
        /\ req'.first = req.first /\ req'.third = req.third
        /\ req'.log = req.log /\ req'.cited = req.cited /\ req.pc = "second"
    BY <1>1, <1>2, <1>5, <2>1 DEF ReadsGraphFacts, Requests, Stages, SameRequest
  <2>3. ASSUME ~(Cardinality(kept) > FactCap), req.on.type = None
        PROVE  req.steady.facts \subseteq kept
    BY <1>2, <2>1, <2>3, UncappedIsWhole DEF ReqInv, SteadyInv
  <2>4. GraphInv'
    BY <2>2, <2>3 DEF ReqInv, GraphInv, SameRequest, Read1, Read3
  <2> QED BY <1>1, <1>3, <2>2, <2>4 DEF ReqInv, Read3
<1>6. CASE ReadsGraphEdges
  <2>1. PICK kept \in SUBSET EdgeRows :
          /\ Limited(OfPredicate(req.on.predicate), EdgeCap, kept)
          /\ req' = [req EXCEPT !.third = kept, !.pc = "handled"]
    BY <1>6 DEF ReadsGraphEdges
  <2>2. /\ req' \in Requests /\ SameRequest /\ req'.third = kept /\ req'.pc = "handled"
        /\ req'.first = req.first /\ req'.second = req.second
        /\ req'.log = req.log /\ req'.cited = req.cited /\ req.pc = "third"
    BY <1>1, <1>2, <1>6, <2>1 DEF ReadsGraphEdges, Requests, Stages, SameRequest
  <2>3. ASSUME ~(Cardinality(kept) > EdgeCap), NEW e \in req.steady.edges,
               req.on.predicate = None \/ e.predicate = req.on.predicate
        PROVE  e \in kept
    <3>1. OfPredicate(req.on.predicate) \subseteq EdgeRows
      BY DEF OfPredicate
    <3>2. kept = OfPredicate(req.on.predicate)
      BY <1>2, <2>1, <2>3, <3>1, FS_Subset, UncappedIsWhole
    <3> QED BY <2>3, <3>2 DEF OfPredicate, ReqInv, SteadyInv
  <2>4. GraphInv'
    BY <2>2, <2>3 DEF ReqInv, GraphInv, SameRequest, Read1, Read2
  <2> QED BY <1>1, <1>3, <2>2, <2>4 DEF ReqInv, Read3
<1> QED BY <1>4, <1>5, <1>6

LEMMA ReadsEntityKeeps ==
  ASSUME ViewsTypes, ReqInv, ReadsEdgesOfEntity \/ ReadsFactsOfEntity
  PROVE  req' \in Requests /\ ReqInv' /\ SameRequest
<1>1. req \in Requests /\ DbTypes /\ req.kind = "entity" /\ UNCHANGED viewDb
  BY DEF ViewsTypes, ReadsEdgesOfEntity, ReadsFactsOfEntity, OnlyRequest
<1>2. FactRows \subseteq AllFacts /\ EdgeRows \subseteq Edges
  BY <1>1, RowTypes
<1>3. SameRequest => SteadyInv' /\ GraphInv' /\ (req'.log = req.log /\ req.pc \notin Read3 \cup {"refused"}
        /\ req'.cited = req.cited /\ req'.pc # "committed" => LogInv' /\ CitedInv')
  BY <1>1, SteadyStays DEF ReqInv, SameRequest, GraphInv, LogInv, CitedInv, Read3
<1>4. CASE ReadsEdgesOfEntity
  <2>1. /\ req' \in Requests /\ SameRequest /\ req'.second = EdgesTouching(Entity(req.on))
        /\ req'.pc = "third" /\ req'.log = req.log /\ req'.cited = req.cited /\ req.pc = "second"
    <3>1. EdgesTouching(Entity(req.on)) \in SUBSET Edges
      BY <1>2 DEF EdgesTouching
    <3> QED BY <1>1, <1>4, <3>1 DEF ReadsEdgesOfEntity, Requests, Stages, SameRequest
  <2>2. EntityInv'
    BY <2>1 DEF ReqInv, EntityInv, SteadyInv, SameRequest, EdgesTouching, Read2, Read3
  <2> QED BY <1>3, <2>1, <2>2 DEF ReqInv, Read3
<1>5. CASE ReadsFactsOfEntity
  <2> DEFINE ends == {f \in FactRows : \E e \in req.second : Counterpart(e, Entity(req.on)) = FactNode(f)}
  <2>1. /\ req' \in Requests /\ SameRequest /\ req'.second = req.second /\ req'.third = ends
        /\ req'.pc = "handled" /\ req'.log = req.log /\ req'.cited = req.cited /\ req.pc = "third"
    <3>1. ends \in SUBSET AllFacts /\ req' = [req EXCEPT !.pc = "handled", !.third = ends]
      BY <1>2, <1>5 DEF ReadsFactsOfEntity
    <3>2. req.pc = "third"
      BY <1>5 DEF ReadsFactsOfEntity
    <3> HIDE DEF ends
    <3>3. req' \in Requests
      BY <1>1, <3>1 DEF Requests, Stages
    <3> QED BY <1>1, <3>1, <3>2, <3>3 DEF Requests, SameRequest
  <2>2. EntityInv'
    BY <2>1 DEF ReqInv, EntityInv, SteadyInv, SameRequest, Read2, Read3
  <2> QED BY <1>3, <2>1, <2>2 DEF ReqInv, Read3
<1> QED BY <1>4, <1>5

LEMMA ReadsContentKeeps ==
  ASSUME ViewsTypes, ReqInv,
         ReadsFact \/ ReadsEvidence \/ ReadsCandidates \/ GathersContext \/ ReadsPage
  PROVE  req' \in Requests /\ ReqInv' /\ SameRequest
<1>1. req \in Requests /\ DbTypes /\ UNCHANGED viewDb
  BY DEF ViewsTypes, ReadsFact, ReadsEvidence, ReadsCandidates, GathersContext, ReadsPage, OnlyRequest
<1>2. FactRows \subseteq AllFacts /\ Evidence \subseteq AllEvidence
  BY <1>1, RowTypes
<1>3. \A ev \in Evidence : /\ ev.quote \in 1..Quotes
                           /\ \A q \in 1..Quotes : [fact |-> ev.fact, quote |-> q] \in Evidence
  BY DEF Evidence
<1>4. CASE ReadsFact
  <2>1. /\ req' \in Requests /\ SameRequest /\ req'.pc \in {"second", "refused"}
        /\ req'.log = req.log /\ req'.cited = req.cited /\ req.pc = "first" /\ req.kind = "fact"
    <3>1. FactAt(req.on) \in SUBSET AllFacts
      BY <1>2 DEF FactAt
    <3> HIDE DEF FactAt
    <3> QED BY <1>1, <1>4, <3>1 DEF ReadsFact, Requests, Stages, SameRequest
  <2>2. SteadyInv'
    BY <1>1, <2>1, SteadyStays DEF ReqInv
  <2>3. GraphInv' /\ EntityInv' /\ CitedInv' /\ LogInv'
    BY <2>1 DEF ReqInv, GraphInv, EntityInv, CitedInv, LogInv, SameRequest, Read3
  <2> QED BY <2>1, <2>2, <2>3 DEF ReqInv
<1>5. CASE ReadsEvidence
  <2> DEFINE cited == EvidenceFor(req.first)
  <2>1. /\ req' \in Requests /\ SameRequest /\ req'.pc = "handled" /\ req'.first = req.first
        /\ req'.log = "pending" /\ req'.cited = cited /\ req.kind \in {"fact", "list"}
    <3>1. cited \in SUBSET AllEvidence
      BY <1>2 DEF EvidenceFor
    <3> HIDE DEF cited
    <3>2. req' = [req EXCEPT !.cited = cited, !.log = "pending", !.pc = "handled"]
      BY <1>5 DEF ReadsEvidence, cited
    <3>3. req.kind \in {"fact", "list"}
      BY <1>5 DEF ReadsEvidence
    <3>4. req' \in Requests
      BY <1>1, <3>1, <3>2 DEF Requests, Stages
    <3> QED BY <1>1, <3>2, <3>3, <3>4 DEF Requests, SameRequest
  <2>2. SteadyInv'
    BY <1>1, <2>1, SteadyStays DEF ReqInv
  <2>3. \A ev \in cited : /\ ev.fact \in req.first /\ ev.quote \in 1..Quotes
                          /\ \A q \in 1..Quotes : [fact |-> ev.fact, quote |-> q] \in cited
    BY <1>3 DEF EvidenceFor
  <2> HIDE DEF cited
  <2>4. GraphInv' /\ EntityInv' /\ CitedInv' /\ LogInv'
    BY <2>1, <2>3 DEF GraphInv, EntityInv, CitedInv, LogInv, SameRequest, Read3
  <2> QED BY <2>1, <2>2, <2>4 DEF ReqInv
<1>6. CASE ReadsCandidates
  <2> DEFINE cands == {s \in Sources : run[s] > 0}
  <2>1. /\ req' \in Requests /\ SameRequest /\ req'.pc = "gate" /\ req'.first = req.first
        /\ req'.log = req.log /\ req'.cited = req.cited /\ req.pc = "candidates"
    <3>1. cands \in SUBSET Sources /\ req' = [req EXCEPT !.second = cands, !.pc = "gate"]
      BY <1>6 DEF ReadsCandidates
    <3>2. req.pc = "candidates"
      BY <1>6 DEF ReadsCandidates
    <3> HIDE DEF cands
    <3>3. req' \in Requests
      BY <1>1, <3>1 DEF Requests, Stages
    <3> QED BY <1>1, <3>1, <3>2, <3>3 DEF Requests, SameRequest
  <2>2. SteadyInv'
    BY <1>1, <2>1, SteadyStays DEF ReqInv
  <2>3. GraphInv' /\ EntityInv' /\ CitedInv' /\ LogInv'
    BY <2>1 DEF ReqInv, GraphInv, EntityInv, CitedInv, LogInv, SameRequest, Read1, Read2, Read3
  <2> QED BY <2>1, <2>2, <2>3 DEF ReqInv
<1>7. CASE GathersContext
  <2> DEFINE cited == SourceContext(req.second)
             facts == {ev.fact : ev \in cited}
  <2>1. /\ req' \in Requests /\ SameRequest /\ req'.pc = "handled" /\ req'.first = facts
        /\ req'.log = "pending" /\ req'.cited = cited /\ req.kind = "search"
    <3>1. cited \in SUBSET AllEvidence /\ facts \in SUBSET AllFacts
      BY <1>2 DEF SourceContext, AllEvidence
    <3>2. req' = [req EXCEPT !.first = facts, !.cited = cited, !.log = "pending", !.pc = "handled"]
      BY <1>7 DEF GathersContext
    <3>3. req.kind = "search"
      BY <1>7 DEF GathersContext
    <3> HIDE DEF cited, facts
    <3>4. req' \in Requests
      BY <1>1, <3>1, <3>2 DEF Requests, Stages
    <3> QED BY <1>1, <3>2, <3>3, <3>4 DEF Requests, SameRequest
  <2>2. SteadyInv'
    BY <1>1, <2>1, SteadyStays DEF ReqInv
  <2>3. \A ev \in cited : /\ ev.fact \in facts /\ ev.quote \in 1..Quotes
                          /\ \A q \in 1..Quotes : [fact |-> ev.fact, quote |-> q] \in cited
    BY <1>3 DEF SourceContext
  <2> HIDE DEF cited, facts
  <2>4. GraphInv' /\ EntityInv' /\ CitedInv' /\ LogInv'
    BY <2>1, <2>3 DEF GraphInv, EntityInv, CitedInv, LogInv, SameRequest, Read3
  <2> QED BY <2>1, <2>2, <2>4 DEF ReqInv
<1>8. CASE ReadsPage
  <2>1. PICK page \in SUBSET AllFacts, more \in SUBSET {"more"} :
          req' = [req EXCEPT !.pc = "second", !.first = page, !.third = more]
    <3> DEFINE found == {f \in FactRows : \A c \in req.on : PastCursor(f, c)}
               page == {f \in found : Cardinality({g \in found : Newer(g, f)}) < PageSize}
               more == IF Cardinality(found) > PageSize THEN {"more"} ELSE {}
    <3>1. page \in SUBSET AllFacts /\ more \in SUBSET {"more"}
      BY <1>2
    <3>2. req' = [req EXCEPT !.pc = "second", !.first = page, !.third = more]
      BY <1>8 DEF ReadsPage
    <3> HIDE DEF page, more
    <3> QED BY <3>1, <3>2
  <2>2. /\ req' \in Requests /\ SameRequest /\ req'.pc = "second"
        /\ req'.log = req.log /\ req'.cited = req.cited /\ req.pc = "first" /\ req.kind = "list"
    <3>1. req.kind = "list" /\ req.pc = "first"
      BY <1>8 DEF ReadsPage
    <3>2. req' \in Requests
      BY <1>1, <2>1 DEF Requests, Stages
    <3> QED BY <1>1, <2>1, <3>1, <3>2 DEF Requests, SameRequest
  <2>3. SteadyInv'
    BY <1>1, <2>2, SteadyStays DEF ReqInv
  <2>4. GraphInv' /\ EntityInv' /\ CitedInv' /\ LogInv'
    BY <2>2 DEF ReqInv, GraphInv, EntityInv, CitedInv, LogInv, SameRequest, Read3
  <2> QED BY <2>2, <2>3, <2>4 DEF ReqInv
<1> QED BY <1>4, <1>5, <1>6, <1>7, <1>8
-----------------------------------------------------------------------------
(* The fact list: where the web app is in it, and what became of each fact that
   was there from the first page on. *)
FactsOrdered ==
  /\ \A f \in AllFacts : ~Newer(f, f)
  /\ \A f, g, h \in AllFacts : Newer(f, g) /\ Newer(g, h) => Newer(f, h)
  /\ \A f, g \in AllFacts : f = g \/ Newer(f, g) \/ Newer(g, f)

LEMMA NewerIsAnOrder == FactsOrdered
<1>1. \A s \in Sources : s \in Int
  BY ViewsAssumption
<1>2. \A f, g \in AllFacts : f.at = g.at /\ f.n = g.n /\ f.src = g.src => f = g
  BY DEF AllFacts
<1>3. \A f \in AllFacts : f.at \in Nat /\ f.n \in Nat /\ f.src \in Int
  BY <1>1 DEF AllFacts
<1>4. \A f, g \in AllFacts : Newer(f, g) <=>
        \/ f.at > g.at
        \/ f.at = g.at /\ (f.n > g.n \/ (f.n = g.n /\ f.src > g.src))
  BY <1>3 DEF Newer
<1> QED BY <1>2, <1>3, <1>4 DEF FactsOrdered

LEMMA RoundedFacts ==
  ASSUME NEW f \in AllFacts
  PROVE  /\ Rounded(f) \in AllFacts /\ Rounded(f).at <= f.at
         /\ Rounded(f).n = f.n /\ Rounded(f).src = f.src
<1>1. f.at \in Nat
  BY DEF AllFacts
<1>2. Millis(f.at) \in Nat /\ Millis(f.at) <= f.at
  BY <1>1, ViewsAssumption DEF Millis
<1> QED BY <1>2 DEF Rounded, AllFacts

(* What comes after the cursor of a fact comes after the fact. *)
LEMMA PastRounded ==
  ASSUME NEW f \in AllFacts, NEW g \in AllFacts
  PROVE  /\ PastCursor(g, f) <=> Newer(f, g)
         /\ PastCursor(g, Rounded(f)) => Newer(f, g)
<1>1. f.at \in Nat /\ g.at \in Nat /\ f.n \in Nat /\ g.n \in Nat /\ f.src \in Int /\ g.src \in Int
  BY ViewsAssumption DEF AllFacts
<1>2. Rounded(f).at \in Nat /\ Rounded(f).at <= f.at /\ Rounded(f).n = f.n /\ Rounded(f).src = f.src
  BY RoundedFacts DEF AllFacts
<1> QED BY <1>1, <1>2 DEF PastCursor, Newer

FactPage(found) == {f \in found : Cardinality({g \in found : Newer(g, f)}) < PageSize}

LEMMA NewestFacts ==
  ASSUME NEW found \in SUBSET AllFacts, IsFiniteSet(found), found # {}
  PROVE  /\ FactPage(found) \subseteq found /\ IsFiniteSet(FactPage(found))
         /\ \E last \in FactPage(found) : \A g \in FactPage(found) : g = last \/ Newer(g, last)
         /\ \A f \in found \ FactPage(found), last \in FactPage(found) :
              Cardinality(found) > PageSize /\ Newer(last, f)
<1> DEFINE R == {q \in found \X found : Newer(q[1], q[2])}
<1>1. \A x, y \in found : <<x, y>> \in R <=> Newer(x, y)
  OBVIOUS
<1> HIDE DEF R
<1>2. StrictOrder(R, found) /\ Total(R, found)
  BY <1>1, NewerIsAnOrder DEF StrictOrder, Total, FactsOrdered
<1>3. FactPage(found) = FirstPage(R, found, PageSize)
  <2>1. \A r \in found : {s \in found : Newer(s, r)} = {s \in found : <<s, r>> \in R}
    BY <1>1
  <2> QED BY <2>1 DEF FactPage, FirstPage
<1>4. FirstPage(R, found, PageSize) \subseteq found
  BY DEF FirstPage
<1>5. /\ IsFiniteSet(FirstPage(R, found, PageSize))
      /\ \E last \in FirstPage(R, found, PageSize) :
           \A x \in FirstPage(R, found, PageSize) : x = last \/ <<x, last>> \in R
      /\ \A x \in found \ FirstPage(R, found, PageSize), p \in FirstPage(R, found, PageSize) :
           Cardinality(found) > PageSize /\ <<p, x>> \in R
  BY <1>2, PageFacts, ViewsAssumption
<1> HIDE DEF FactPage, FirstPage
<1> QED BY <1>1, <1>3, <1>4, <1>5

Ahead(f) == walk.cursor = <<>> \/ PastCursor(f, walk.cursor[1])

WalkInv ==
  /\ walk.pages = 0 => walk.cursor = <<>> /\ walk.rows = {} /\ walk.open
  /\ walk.pages # 0 /\ walk.open => walk.cursor # <<>>
  /\ \A f \in walk.rows : walk.open => ~Ahead(f)
  /\ IsFiniteSet(walk.rows) /\ NoFactTwice
  /\ walk.steady \subseteq FactRows
  /\ \A f \in walk.steady \ walk.rows : (walk.open /\ Ahead(f)) \/ SkippedByRounding(f)

(* The facts that the page under way, like those before it, could count on. *)
Promised == IF walk.pages = 0 THEN req.steady.facts ELSE walk.steady

PageRead == {"second", "handled", "committed"}

PageInv ==
  /\ IsFiniteSet(req.first) /\ req.first \subseteq AllFacts
  /\ \A f \in req.first : Ahead(f)
  /\ req.third # {} => \E last \in req.first : \A g \in req.first : g = last \/ Newer(g, last)
  /\ \A f \in Promised \ walk.rows :
       \/ f \in req.first
       \/ SkippedByRounding(f)
       \/ req.third # {} /\ \A g \in req.first : Newer(g, f)

ListInv ==
  req.kind = "list" /\ req.pc \in {"candidates", "gate", "first"} \cup PageRead =>
    /\ walk.open
    /\ walk.cursor = <<>> => req.on = {}
    /\ walk.cursor # <<>> => req.on = {walk.cursor[1]}
    /\ req.pc \in PageRead => PageInv

ViewsInv == ViewsTypes /\ ReqInv /\ WalkInv /\ ListInv

LEMMA DbKeepsWalk ==
  ASSUME ViewsInv,
         \/ \E s \in Sources : Lands(s) \/ Extracts(s)
         \/ \E e \in Edges : Links(e)
  PROVE  walk' \in Walks /\ WalkInv' /\ ListInv'
<1>1. DbTypes /\ req \in Requests /\ walk \in Walks /\ WalkInv /\ ListInv
  BY DEF ViewsInv, ViewsTypes
<1>2. PICK gone : /\ walk' = [walk EXCEPT !.steady = walk.steady \ gone]
                  /\ req' = [req EXCEPT !.steady.facts = req.steady.facts \ gone]
                  /\ FactRows \ gone \subseteq FactRows'
  <2>1. CASE \E s \in Sources : Extracts(s)
    <3>1. PICK s \in Sources : Extracts(s)
      BY <2>1
    <3> DEFINE g == {f \in RunFacts : f.src = s}
    <3>2. FactRows \ g \subseteq FactRows'
      BY <1>1, <3>1, ExtractsRows
    <3>3. walk' = [walk EXCEPT !.steady = walk.steady \ g]
          /\ req' = [req EXCEPT !.steady.facts = req.steady.facts \ g]
      BY <3>1 DEF Extracts, Removed
    <3> HIDE DEF g
    <3> QED BY <3>2, <3>3
  <2>2. CASE (\E s \in Sources : Lands(s)) \/ (\E e \in Edges : Links(e))
    <3>1. UNCHANGED <<run, clock, req, walk>>
          /\ (\/ \E s \in Sources : landed' = landed \cup {s} /\ UNCHANGED linked
              \/ \E e \in Edges : e.source = None /\ linked' = linked \cup {e} /\ UNCHANGED landed)
      BY <2>2 DEF Lands, Links
    <3>2. FactRows \ {} \subseteq FactRows'
      BY <1>1, <3>1, GrowsRows
    <3>3. walk' = [walk EXCEPT !.steady = walk.steady \ {}]
          /\ req' = [req EXCEPT !.steady.facts = req.steady.facts \ {}]
      BY <1>1, <3>1 DEF Walks, Requests
    <3> QED BY <3>2, <3>3
  <2> QED BY <2>1, <2>2
<1>3. /\ walk' \in Walks /\ walk'.steady = walk.steady \ gone /\ walk'.rows = walk.rows
      /\ walk'.cursor = walk.cursor /\ walk'.open = walk.open /\ walk'.pages = walk.pages
      /\ walk'.returned = walk.returned
  BY <1>1, <1>2 DEF Walks
<1>4. /\ req'.kind = req.kind /\ req'.pc = req.pc /\ req'.on = req.on /\ req'.first = req.first
      /\ req'.third = req.third /\ req'.steady.facts = req.steady.facts \ gone
  BY <1>1, <1>2 DEF Requests
<1>5. \A f : Ahead(f)' = Ahead(f) /\ SkippedByRounding(f)' = SkippedByRounding(f)
  BY <1>3 DEF Ahead, SkippedByRounding
<1>6. Promised' \subseteq Promised
  BY <1>3, <1>4 DEF Promised
<1>7. WalkInv'
  BY <1>1, <1>2, <1>3, <1>5 DEF WalkInv, NoFactTwice
<1>8. PageInv => PageInv'
  BY <1>3, <1>4, <1>5, <1>6 DEF PageInv
<1>9. ListInv'
  BY <1>1, <1>3, <1>4, <1>8 DEF ListInv
<1> QED BY <1>3, <1>7, <1>9

LEMMA SameRows ==
  ASSUME UNCHANGED viewDb
  PROVE  FactRows' = FactRows
BY DEF viewDb, FactRows, RunFacts

(* A step of the request that leaves the list alone. *)
LEMMA WalkStays ==
  ASSUME ViewsInv, OnlyRequest
  PROVE  walk' \in Walks /\ WalkInv'
<1>1. walk' = walk /\ FactRows' = FactRows
  BY SameRows DEF OnlyRequest
<1> QED BY <1>1 DEF ViewsInv, ViewsTypes, WalkInv, NoFactTwice, Ahead, SkippedByRounding

LEMMA BeginsKeepsList ==
  ASSUME ViewsInv, NEW kind, NEW on, Begins(kind, on),
         kind = "list" => walk.open /\ on = {walk.cursor[i] : i \in DOMAIN walk.cursor}
  PROVE  ListInv'
<1>1. req'.kind = kind /\ req'.on = on /\ req'.pc \in {"candidates", "gate"} /\ walk' = walk
  BY DEF Begins, Nothing, OnlyRequest
<1>2. walk.cursor \in {<<>>} \cup {<<f>> : f \in AllFacts}
  BY DEF ViewsInv, ViewsTypes, Walks
<1>3. walk.cursor = <<>> => {walk.cursor[i] : i \in DOMAIN walk.cursor} = {}
  OBVIOUS
<1>4. walk.cursor # <<>> => {walk.cursor[i] : i \in DOMAIN walk.cursor} = {walk.cursor[1]}
  <2> SUFFICES ASSUME walk.cursor # <<>>
               PROVE  {walk.cursor[i] : i \in DOMAIN walk.cursor} = {walk.cursor[1]}
    OBVIOUS
  <2>1. DOMAIN walk.cursor = {1}
    BY <1>2
  <2> QED BY <2>1
<1> QED BY <1>1, <1>3, <1>4 DEF ListInv, PageRead

LEMMA PassesKeepList ==
  ASSUME ViewsInv, OnlyRequest, req'.kind = req.kind, req'.on = req.on, req'.steady = req.steady,
         \/ req.kind # "list"
         \/ req'.pc \notin {"candidates", "gate", "first"} \cup PageRead
         \/ req'.pc \in {"gate", "first"} /\ req.pc \in {"candidates", "gate"}
         \/ req'.pc \in PageRead /\ req.pc \in PageRead /\ req'.first = req.first /\ req'.third = req.third
  PROVE  ListInv'
<1>1. walk' = walk /\ Promised' = Promised
  BY DEF OnlyRequest, Promised
<1>2. req'.first = req.first /\ req'.third = req.third => PageInv' = PageInv
  BY <1>1 DEF PageInv, Ahead, SkippedByRounding
<1> QED BY <1>1, <1>2 DEF ViewsInv, ListInv, PageRead

LEMMA ReadsPageKeepsList ==
  ASSUME ViewsInv, ReadsPage
  PROVE  ListInv'
<1> DEFINE found == {f \in FactRows : \A c \in req.on : PastCursor(f, c)}
           page == FactPage(found)
           more == IF Cardinality(found) > PageSize THEN {"more"} ELSE {}
<1>1. DbTypes /\ req \in Requests /\ walk \in Walks /\ WalkInv /\ ListInv /\ SteadyInv
  BY DEF ViewsInv, ViewsTypes, ReqInv
<1>2. req' = [req EXCEPT !.pc = "second", !.first = page, !.third = more]
      /\ req.kind = "list" /\ req.pc = "first" /\ walk' = walk
  BY DEF ReadsPage, FactPage, OnlyRequest
<1>3. walk.open /\ \A f \in FactRows : f \in found <=> Ahead(f)
  BY <1>1, <1>2 DEF ListInv, Ahead
<1>4. found \in SUBSET AllFacts /\ IsFiniteSet(found)
  <2>1. found \subseteq FactRows
    OBVIOUS
  <2> HIDE DEF found
  <2> QED BY <1>1, <2>1, RowTypes, RowsFinite, FS_Subset
<1>5. found \subseteq FactRows
  OBVIOUS
<1> HIDE DEF found
<1>6. page \subseteq found /\ IsFiniteSet(page)
  BY <1>4, NewestFacts, FS_EmptySet DEF FactPage
<1>7. found # {} =>
        /\ \E last \in page : \A g \in page : g = last \/ Newer(g, last)
        /\ \A f \in found \ page, last \in page : more # {} /\ Newer(last, f)
  BY <1>4, NewestFacts
<1>8. \A f \in found \ page : more # {} /\ \A last \in page : Newer(last, f)
  BY <1>7
<1>9. more # {} => found # {}
  BY FS_EmptySet, ViewsAssumption
<1> HIDE DEF page, more
<1>10. /\ req'.pc = "second" /\ req'.first = page /\ req'.third = more /\ req'.kind = req.kind
       /\ req'.on = req.on /\ req'.steady = req.steady
  BY <1>1, <1>2 DEF Requests
<1>11. Promised' = Promised
  BY <1>2, <1>10 DEF Promised
<1>12. ASSUME NEW f \in Promised \ walk.rows PROVE f \in found \/ SkippedByRounding(f)
  <2>1. CASE walk.pages = 0
    <3>1. f \in FactRows /\ Ahead(f)
      BY <1>1, <1>12, <2>1 DEF WalkInv, SteadyInv, Promised, Ahead
    <3> QED BY <1>3, <3>1
  <2>2. CASE walk.pages # 0
    BY <1>1, <1>3, <1>12, <2>2 DEF WalkInv, Promised
  <2> QED BY <2>1, <2>2
<1>13. \A f : Ahead(f)' = Ahead(f) /\ SkippedByRounding(f)' = SkippedByRounding(f)
  BY <1>2 DEF Ahead, SkippedByRounding
<1>14. PageInv'
  <2>1. IsFiniteSet(req'.first) /\ req'.first \subseteq AllFacts /\ \A f \in req'.first : Ahead(f)'
    BY <1>3, <1>4, <1>5, <1>6, <1>10, <1>13
  <2>2. req'.third # {} => \E last \in req'.first : \A g \in req'.first : g = last \/ Newer(g, last)
    BY <1>7, <1>9, <1>10
  <2>3. ASSUME NEW f \in Promised' \ walk'.rows
        PROVE  \/ f \in req'.first
               \/ SkippedByRounding(f)'
               \/ req'.third # {} /\ \A g \in req'.first : Newer(g, f)
    BY <1>2, <1>8, <1>10, <1>11, <1>12, <1>13, <2>3
  <2> QED BY <2>1, <2>2, <2>3 DEF PageInv
<1> QED BY <1>1, <1>2, <1>10, <1>14 DEF ListInv
(* One page more is shown. *)
LEMMA RespondsKeepsList ==
  ASSUME ViewsInv, Responds
  PROVE  walk' \in Walks /\ WalkInv' /\ ListInv'
<1>1. req \in Requests /\ walk \in Walks /\ WalkInv /\ ListInv /\ SteadyInv /\ req.pc = "committed"
      /\ req'.pc = "served" /\ FactRows' = FactRows
  <2>1. req \in Requests /\ req.pc = "committed"
    BY DEF ViewsInv, ViewsTypes, Responds, MayRespond
  <2>2. req'.pc = "served"
    BY <2>1 DEF Responds, Goes, Requests
  <2> QED BY <2>1, <2>2, SameRows DEF ViewsInv, ViewsTypes, ReqInv, Responds
<1>2. ListInv'
  BY <1>1 DEF ListInv, PageRead
<1>3. CASE req.kind # "list"
  <2>1. walk' = walk
    BY <1>3 DEF Responds
  <2> QED BY <1>1, <1>2, <2>1 DEF WalkInv, NoFactTwice, Ahead, SkippedByRounding
<1>4. CASE req.kind = "list"
  <2> DEFINE page == req.first
             last == CHOOSE f \in page : \A g \in page : g = f \/ Newer(g, f)
             more == req.third # {}
             rows == walk.rows \cup page
  <2>1. walk' = [rows |-> rows, returned |-> walk.returned + Cardinality(page),
                 cursor |-> IF more THEN <<Rounded(last)>> ELSE <<>>,
                 open |-> more, pages |-> walk.pages + 1, steady |-> Promised]
    BY <1>4 DEF Responds, Loaded, Promised
  <2>2. walk.open /\ PageInv
    BY <1>1, <1>4 DEF ListInv, PageRead
  <2>3. page \subseteq AllFacts /\ IsFiniteSet(page) /\ \A f \in page : Ahead(f)
    BY <2>2 DEF PageInv
  <2>4. more => last \in page /\ (\A g \in page : g = last \/ Newer(g, last))
    BY <2>2 DEF PageInv
  <2>5. \A f \in Promised \ walk.rows :
          f \in page \/ SkippedByRounding(f) \/ (more /\ \A g \in page : Newer(g, f))
    BY <2>2 DEF PageInv
  <2>6. walk.rows \subseteq AllFacts /\ walk.returned \in Nat /\ walk.pages \in Nat
        /\ walk.cursor \in {<<>>} \cup {<<f>> : f \in AllFacts} /\ walk.steady \subseteq AllFacts
    BY <1>1 DEF Walks
  <2>7. Promised \subseteq FactRows /\ Promised \subseteq AllFacts
    BY <1>1, <2>6 DEF Promised, SteadyInv, WalkInv, Requests
  <2> HIDE DEF page, last, more
  <2>8. more => last \in AllFacts /\ Rounded(last) \in AllFacts
    BY <2>3, <2>4, RoundedFacts
  <2>9. /\ walk'.rows = rows /\ walk'.open = more /\ walk'.pages = walk.pages + 1
        /\ walk'.returned = walk.returned + Cardinality(page) /\ walk'.steady = Promised
        /\ walk'.cursor = IF more THEN <<Rounded(last)>> ELSE <<>>
    BY <2>1
  <2>10. walk' \in Walks
    <3>1. Cardinality(page) \in Nat /\ more \in BOOLEAN
      BY <2>3, FS_CardinalityType DEF more
    <3>2. walk'.cursor \in {<<>>} \cup {<<f>> : f \in AllFacts}
      BY <2>8, <2>9
    <3>3. rows \in SUBSET AllFacts
      BY <2>3, <2>6
    <3> QED BY <2>1, <2>6, <2>7, <2>9, <3>1, <3>2, <3>3 DEF Walks
  <2>11. NoFactTwice' /\ IsFiniteSet(walk'.rows)
    <3>1. IsFiniteSet(walk.rows) /\ walk.returned = Cardinality(walk.rows)
          /\ \A f \in walk.rows : ~Ahead(f)
      BY <1>1, <2>2 DEF WalkInv, NoFactTwice
    <3>2. walk.rows \cap page = {}
      BY <2>3, <3>1
    <3>3. Cardinality(walk.rows) \in Nat /\ Cardinality(page) \in Nat
      BY <2>3, <3>1, FS_CardinalityType
    <3>4. IsFiniteSet(rows)
          /\ Cardinality(rows) = Cardinality(walk.rows) + Cardinality(page) - Cardinality(walk.rows \cap page)
      BY <2>3, <3>1, FS_Union
    <3>5. Cardinality(walk.rows \cap page) = 0
      BY <3>2, FS_EmptySet
    <3> QED BY <2>9, <3>1, <3>3, <3>4, <3>5 DEF NoFactTwice
  <2>12. ASSUME more, NEW f \in rows PROVE ~Ahead(f)'
    <3>1. f \in AllFacts /\ (f = last \/ Newer(f, last))
      <4>1. CASE f \in page
        BY <2>3, <2>4, <2>12, <4>1
      <4>2. CASE f \in walk.rows
        <5>1. ~Ahead(f) /\ Ahead(last) /\ f \in AllFacts
          BY <1>1, <2>2, <2>3, <2>4, <2>6, <2>12, <4>2 DEF WalkInv
        <5>2. PICK c \in AllFacts : walk.cursor[1] = c /\ ~PastCursor(f, c) /\ PastCursor(last, c)
          BY <2>6, <5>1 DEF Ahead
        <5>3. ~Newer(c, f) /\ Newer(c, last)
          BY <2>8, <2>12, <5>1, <5>2, PastRounded
        <5> QED BY <2>8, <2>12, <5>1, <5>3, NewerIsAnOrder DEF FactsOrdered
      <4> QED BY <4>1, <4>2
    <3>2. ~Newer(last, f)
      BY <2>8, <2>12, <3>1, NewerIsAnOrder DEF FactsOrdered
    <3>3. ~PastCursor(f, Rounded(last))
      BY <2>8, <2>12, <3>1, <3>2, PastRounded
    <3> QED BY <2>9, <2>12, <3>3 DEF Ahead
  <2>13. ASSUME NEW f \in walk'.steady \ walk'.rows
         PROVE  (walk'.open /\ Ahead(f)') \/ SkippedByRounding(f)'
    <3>1. f \in Promised \ walk.rows /\ f \notin page /\ f \in AllFacts
      BY <2>7, <2>9
    <3>2. SkippedByRounding(f) => SkippedByRounding(f)'
      BY <2>9 DEF SkippedByRounding
    <3>3. ASSUME more, \A g \in page : Newer(g, f), ~Ahead(f)' PROVE SkippedByRounding(f)'
      <4>1. last \in walk'.rows /\ Newer(last, f) /\ walk'.cursor = <<Rounded(last)>>
        BY <2>4, <2>9, <3>3
      <4>2. ~PastCursor(f, Rounded(last))
        BY <3>3, <4>1 DEF Ahead
      <4>3. ~Newer(Rounded(last), f)
        BY <2>8, <3>1, <3>3, <4>2, PastRounded
      <4> QED BY <4>1, <4>3 DEF SkippedByRounding
    <3> QED BY <2>5, <2>9, <3>1, <3>2, <3>3
  <2>14. WalkInv'
    <3>1. walk'.pages # 0
      BY <2>6, <2>9
    <3>2. walk'.open => walk'.cursor # <<>>
      BY <2>9
    <3>3. walk'.steady \subseteq FactRows'
      BY <1>1, <2>7, <2>9
    <3> QED BY <2>9, <2>11, <2>12, <2>13, <3>1, <3>2, <3>3 DEF WalkInv
  <2> QED BY <1>2, <2>10, <2>14
<1> QED BY <1>3, <1>4

LEMMA ViewsInitInv == ViewsInit => ViewsInv
<1> SUFFICES ASSUME ViewsInit PROVE ViewsInv
  OBVIOUS
<1>1. DbTypes
  BY DEF ViewsInit, DbTypes
<1>2. req = Nothing /\ walk = [rows |-> {}, returned |-> 0, cursor |-> <<>>, open |-> TRUE, pages |-> 0,
                               steady |-> {}]
  BY DEF ViewsInit
<1>3. req \in Requests
  BY <1>2 DEF Nothing, Requests, Stages
<1>4. walk \in Walks
  BY <1>2 DEF Walks
<1>5. ReqInv
  BY <1>2 DEF Nothing, ReqInv, SteadyInv, GraphInv, EntityInv, CitedInv, LogInv, Read1, Read2, Read3
<1>6. WalkInv
  BY <1>2, FS_EmptySet DEF WalkInv, NoFactTwice
<1>7. ListInv
  BY <1>2 DEF Nothing, ListInv
<1> QED BY <1>1, <1>3, <1>4, <1>5, <1>6, <1>7 DEF ViewsInv, ViewsTypes

LEMMA SameDb ==
  ASSUME DbTypes, UNCHANGED viewDb
  PROVE  DbTypes'
BY DEF DbTypes, viewDb

LEMMA AsksKeeps ==
  ASSUME ViewsInv, Asks
  PROVE  ViewsInv'
<1>1. PICK kind \in {"fact", "entity", "graph", "search", "list"},
           on \in AllFacts \cup Sources \cup Filters \cup {None} \cup SUBSET AllFacts :
        /\ Begins(kind, on)
        /\ kind = "graph" => on \in Filters
        /\ kind = "entity" => on \in Sources
        /\ kind = "list" => walk.open /\ on = {walk.cursor[i] : i \in DOMAIN walk.cursor}
  <2>1. CASE \E f \in FactRows : Begins("fact", f)
    BY <2>1, RowTypes DEF ViewsInv, ViewsTypes
  <2>2. CASE \E s \in Sources : Begins("entity", s)
    BY <2>2
  <2>3. CASE \E filter \in Filters : Begins("graph", filter)
    BY <2>3
  <2>4. CASE Begins("search", None)
    BY <2>4
  <2>5. CASE LoadMore
    <3> DEFINE on == {walk.cursor[i] : i \in DOMAIN walk.cursor}
    <3>1. on \in SUBSET AllFacts
      <4>1. walk.cursor \in {<<>>} \cup {<<f>> : f \in AllFacts}
        BY DEF ViewsInv, ViewsTypes, Walks
      <4>2. \A i \in DOMAIN walk.cursor : walk.cursor[i] \in AllFacts
        BY <4>1
      <4> QED BY <4>2
    <3>2. walk.open /\ Begins("list", on)
      BY <2>5 DEF LoadMore
    <3>3. on = {walk.cursor[i] : i \in DOMAIN walk.cursor}
      OBVIOUS
    <3> HIDE DEF on
    <3> QED BY <3>1, <3>2, <3>3
  <2> QED BY <2>1, <2>2, <2>3, <2>4, <2>5 DEF Asks
<1>2. OnlyRequest
  BY <1>1 DEF Begins
<1>3. req' \in Requests /\ ReqInv'
  BY <1>1, BeginsKeeps DEF ViewsInv
<1>4. walk' \in Walks /\ WalkInv'
  BY <1>2, WalkStays
<1>5. ListInv'
  BY <1>1, BeginsKeepsList
<1>6. DbTypes'
  BY <1>2, SameDb DEF OnlyRequest, ViewsInv, ViewsTypes
<1> QED BY <1>3, <1>4, <1>5, <1>6 DEF ViewsInv, ViewsTypes

LEMMA HandlesKeeps ==
  ASSUME ViewsInv, Handles
  PROVE  ViewsInv'
<1>1. ViewsTypes /\ ReqInv /\ DbTypes /\ req \in Requests
  BY DEF ViewsInv, ViewsTypes
<1>2. DbTypes'
  <2>1. UNCHANGED viewDb
    BY DEF Handles, Gate, ReadsFact, ReadsEvidence, ReadsEntity, ReadsEdgesOfEntity, ReadsFactsOfEntity,
           ReadsGraphEntities, ReadsGraphFacts, ReadsGraphEdges, ReadsCandidates, GathersContext,
           ReadsPage, Fails, Commits, Responds, OnlyRequest
  <2> QED BY <1>1, <2>1, SameDb
<1>3. CASE Responds
  <2>1. UNCHANGED viewDb /\ MayRespond /\ Goes("served")
    BY <1>3 DEF Responds
  <2> QED BY <1>1, <1>2, <1>3, <2>1, PassesOn, RespondsKeepsList DEF ViewsInv, ViewsTypes
<1>4. CASE Gate \/ ReadsEntity \/ Fails \/ Commits
  <2>1. OnlyRequest
    BY <1>4 DEF Gate, ReadsEntity, Fails, Commits
  <2>2. req' \in Requests /\ ReqInv' /\ SameRequest
        /\ req'.first = req.first /\ req'.second = req.second /\ req'.third = req.third
    BY <1>1, <1>4, <2>1, PassesOn DEF OnlyRequest
  <2>3. \/ req.pc = "gate" /\ req'.pc \in {"first", "refused"}
        \/ req.kind = "entity"
        \/ req'.pc = "refused"
        \/ req.pc = "handled" /\ req'.pc = "committed"
    BY <1>1, <1>4 DEF Gate, ReadsEntity, Fails, Commits, Goes, Requests
  <2>4. ListInv'
    BY <2>1, <2>2, <2>3, PassesKeepList DEF SameRequest, PageRead
  <2> QED BY <1>2, <2>1, <2>2, <2>4, WalkStays DEF ViewsInv, ViewsTypes
<1>5. CASE ReadsGraphEntities \/ ReadsGraphFacts \/ ReadsGraphEdges
  <2>1. OnlyRequest /\ req.kind = "graph"
    BY <1>5 DEF ReadsGraphEntities, ReadsGraphFacts, ReadsGraphEdges
  <2>2. req' \in Requests /\ ReqInv' /\ SameRequest
    BY <1>1, <1>5, ReadsGraphKeeps
  <2> QED BY <1>2, <2>1, <2>2, PassesKeepList, WalkStays DEF SameRequest, ViewsInv, ViewsTypes
<1>6. CASE ReadsEdgesOfEntity \/ ReadsFactsOfEntity
  <2>1. OnlyRequest /\ req.kind = "entity"
    BY <1>6 DEF ReadsEdgesOfEntity, ReadsFactsOfEntity
  <2>2. req' \in Requests /\ ReqInv' /\ SameRequest
    BY <1>1, <1>6, ReadsEntityKeeps
  <2> QED BY <1>2, <2>1, <2>2, PassesKeepList, WalkStays DEF SameRequest, ViewsInv, ViewsTypes
<1>7. CASE ReadsFact \/ ReadsEvidence \/ ReadsCandidates \/ GathersContext \/ ReadsPage
  <2>1. OnlyRequest
    BY <1>7 DEF ReadsFact, ReadsEvidence, ReadsCandidates, GathersContext, ReadsPage
  <2>2. req' \in Requests /\ ReqInv' /\ SameRequest
    BY <1>1, <1>7, ReadsContentKeeps
  <2>3. ListInv'
    <3>1. CASE ReadsPage
      BY <3>1, ReadsPageKeepsList
    <3>2. CASE ReadsFact \/ GathersContext
      <4>1. req.kind # "list"
        BY <3>2 DEF ReadsFact, GathersContext
      <4> QED BY <2>1, <2>2, <4>1, PassesKeepList DEF SameRequest
    <3>3. CASE ReadsCandidates
      <4>1. req.pc = "candidates" /\ req'.pc = "gate"
        BY <1>1, <3>3 DEF ReadsCandidates, Requests
      <4> QED BY <2>1, <2>2, <4>1, PassesKeepList DEF SameRequest
    <3>4. CASE ReadsEvidence
      <4>1. req.pc = "second" /\ req'.pc = "handled" /\ req'.first = req.first /\ req'.third = req.third
        <5>1. PICK cited : req' = [req EXCEPT !.cited = cited, !.log = "pending", !.pc = "handled"]
          BY <3>4 DEF ReadsEvidence
        <5>2. req.pc = "second"
          BY <3>4 DEF ReadsEvidence
        <5> QED BY <1>1, <5>1, <5>2 DEF Requests
      <4> QED BY <2>1, <2>2, <4>1, PassesKeepList DEF SameRequest, PageRead
    <3> QED BY <1>7, <3>1, <3>2, <3>3, <3>4
  <2> QED BY <1>2, <2>1, <2>2, <2>3, WalkStays DEF ViewsInv, ViewsTypes
<1> QED BY <1>3, <1>4, <1>5, <1>6, <1>7 DEF Handles

LEMMA ViewsKeep == ViewsInv /\ [ViewsNext]_viewVars => ViewsInv'
<1> SUFFICES ASSUME ViewsInv, [ViewsNext]_viewVars PROVE ViewsInv'
  OBVIOUS
<1>1. CASE \/ \E s \in Sources : Lands(s) \/ Extracts(s)
           \/ \E e \in Edges : Links(e)
  BY <1>1, DbKeepsRequest, DbKeepsWalk DEF ViewsInv, ViewsTypes
<1>2. CASE Asks \/ Handles
  BY <1>2, AsksKeeps, HandlesKeeps
<1>3. CASE UNCHANGED viewVars
  <2>1. UNCHANGED viewDb /\ req' = req /\ walk' = walk
    BY <1>3 DEF viewVars
  <2>2. DbTypes' /\ req' \in Requests /\ SameRequest
    BY <2>1, SameDb DEF ViewsInv, ViewsTypes, SameRequest
  <2>3. OnlyRequest
    BY <2>1 DEF OnlyRequest
  <2>4. SteadyInv'
    BY <2>1, <2>2, SteadyStays DEF ViewsInv, ReqInv
  <2>5. GraphInv' /\ EntityInv' /\ CitedInv' /\ LogInv'
    BY <2>1 DEF ViewsInv, ReqInv, GraphInv, EntityInv, CitedInv, LogInv
  <2>6. ListInv'
    BY <2>1 DEF ViewsInv, ListInv, PageInv, Ahead, SkippedByRounding, Promised
  <2> QED BY <2>2, <2>3, <2>4, <2>5, <2>6, WalkStays DEF ViewsInv, ViewsTypes, ReqInv
<1> QED BY <1>1, <1>2, <1>3 DEF ViewsNext

(* What every request has read so far, and every page shown, of what it could count on. *)
THEOREM ViewsInvariant == ViewsSpec => []ViewsInv
BY ViewsInitInv, ViewsKeep, PTL DEF ViewsSpec

(* getGraph: a graph without the truncated flag holds every row its filter asks for
   that was there throughout, whatever lands, links or is extracted again meanwhile. *)
THEOREM GraphWholeOrFlagged == ViewsSpec => []GraphCompleteOrFlagged
<1>1. ViewsInv => GraphCompleteOrFlagged
  <2> SUFFICES ASSUME ViewsInv, Served("graph"), ~GraphTruncated
               PROVE  /\ req.steady.entities \cap OfType(req.on.type) \subseteq req.first
                      /\ req.on.type = None => req.steady.facts \subseteq req.second
                      /\ req.steady.edges \cap OfPredicate(req.on.predicate) \subseteq req.third
    BY DEF GraphCompleteOrFlagged
  <2>1. GraphInv /\ req.kind = "graph" /\ req.pc \in Read1 \cap Read2 \cap Read3 /\ landed \subseteq Sources
    BY DEF ViewsInv, ReqInv, Served, Read1, Read2, Read3, ViewsTypes, DbTypes
  <2>2. \A x \in OfType(req.on.type) : IsOfType(x, req.on.type)
    BY <2>1 DEF OfType, IsOfType
  <2> QED BY <2>1, <2>2 DEF GraphInv, GraphTruncated, OfPredicate
<1> QED BY <1>1, ViewsInvariant, PTL

(* getEntityProvenance: every sourced edge at the entity, and the facts at the other
   end of each, are in the answer, if they were there throughout. *)
THEOREM EntityDerivations == ViewsSpec => []DerivationsComplete
<1>1. ViewsInv => DerivationsComplete
  <2> SUFFICES ASSUME ViewsInv, Served("entity"), NEW e \in req.steady.edges, e.source # None,
                      Entity(req.on) \in {e.from, e.to}
               PROVE  /\ e \in req.second
                      /\ \A f \in req.steady.facts : FactNode(f) \in {e.from, e.to} => f \in req.third
    BY DEF DerivationsComplete
  <2>1. EntityInv /\ req.kind = "entity" /\ req.pc \in Read2 \cap Read3
    BY DEF ViewsInv, ReqInv, Served, Read2, Read3
  <2>2. e \in req.second
    BY <2>1 DEF EntityInv
  <2>3. ASSUME NEW f \in req.steady.facts, FactNode(f) \in {e.from, e.to}
        PROVE  Counterpart(e, Entity(req.on)) = FactNode(f)
    <3>1. FactNode(f) # Entity(req.on)
      BY DEF FactNode, Entity
    <3> QED BY <2>3, <3>1 DEF Counterpart
  <2> QED BY <2>1, <2>2, <2>3 DEF EntityInv
<1> QED BY <1>1, ViewsInvariant, PTL

(* A fact is shown with all of its own quotes or with none. *)
THEOREM QuotesShownWhole == ViewsSpec => []QuotesWholeOrNone
<1>1. ViewsInv => QuotesWholeOrNone
  <2> SUFFICES ASSUME ViewsInv, NEW f \in req.first, {ev \in req.cited : ev.fact = f} # {}
               PROVE  Cardinality({ev \in req.cited : ev.fact = f}) = Quotes
    <3>1. ViewsInv => \A ev \in req.cited : ev.fact \in req.first
      BY DEF ViewsInv, ReqInv, CitedInv
    <3> QED BY <3>1 DEF QuotesWholeOrNone
  <2> DEFINE shown == {ev \in req.cited : ev.fact = f}
             quote(q) == [fact |-> f, quote |-> q]
             all == {quote(q) : q \in 1..Quotes}
             g == [q \in 1..Quotes |-> quote(q)]
  <2>1. \A ev \in req.cited : /\ ev.quote \in 1..Quotes
                              /\ \A q \in 1..Quotes : [fact |-> ev.fact, quote |-> q] \in req.cited
    BY DEF ViewsInv, ReqInv, CitedInv
  <2>2. \A ev \in req.cited : ev = [fact |-> ev.fact, quote |-> ev.quote]
    BY DEF ViewsInv, ViewsTypes, Requests, AllEvidence
  <2>3. shown = all
    <3>1. PICK ev \in req.cited : ev.fact = f
      OBVIOUS
    <3>2. \A q \in 1..Quotes : quote(q) \in shown
      BY <2>1, <3>1
    <3>3. \A x \in shown : x \in all
      BY <2>1, <2>2
    <3> QED BY <3>2, <3>3
  <2>4. g \in Bijection(1..Quotes, all)
    <3>1. \A a, b \in 1..Quotes : quote(a) = quote(b) => a = b
      OBVIOUS
    <3>2. g \in Injection(1..Quotes, all)
      BY <3>1 DEF Injection, IsInjective
    <3>3. g \in Surjection(1..Quotes, all)
      BY DEF Surjection
    <3> QED BY <3>2, <3>3 DEF Bijection
  <2>5. IsFiniteSet(1..Quotes) /\ Cardinality(1..Quotes) = Quotes
    <3>1. Quotes \in Int /\ Quotes >= 1 /\ Quotes - 1 + 1 = Quotes
      BY ViewsAssumption
    <3> QED BY <3>1, FS_Interval
  <2> HIDE DEF all, g, shown
  <2>6. Cardinality(all) = Quotes
    BY <2>4, <2>5, FS_Bijection DEF ExistsBijection
  <2> QED BY <2>3, <2>6 DEF shown
<1> QED BY <1>1, ViewsInvariant, PTL

(* A response with decrypted content leaves after its log row has committed, and a
   refused request has left no row. *)
THEOREM ReadsAreLogged == ViewsSpec => []ServedReadsLogged
<1>1. ViewsInv => ServedReadsLogged
  BY DEF ViewsInv, ViewsTypes, ReqInv, LogInv, ServedReadsLogged, Read3, Requests
<1> QED BY <1>1, ViewsInvariant, PTL

(* listFacts: whatever is extracted between the pages and however coarse the cursor,
   no fact is shown twice, and those that paging misses lie between a fact that was
   shown and its cursor, in the cursor's millisecond. *)
THEOREM FactsLostAreTies == ViewsSpec => []FactsLoseOnlyTies
<1>1. ViewsInv => NoFactTwice
  BY DEF ViewsInv, WalkInv
<1>2. ViewsInv => FactsMissedByRounding
  BY DEF ViewsInv, WalkInv, FactsMissedByRounding
<1> QED BY <1>1, <1>2, ViewsInvariant, PTL DEF FactsLoseOnlyTies
=============================================================================
