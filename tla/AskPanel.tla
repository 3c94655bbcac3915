------------------------------ MODULE AskPanel ------------------------------
(***************************************************************************)
(* The question box of the web app: the transcript it shows, the tool      *)
(* steps of the question in flight, and the history it resends with the    *)
(* next question.  Each question reads one AnswerStream through the        *)
(* same-origin proxy; the Send button is disabled while one is pending,    *)
(* but Enter submits the form whatever the button says, so two streams may *)
(* be read at once.                                                        *)
(***************************************************************************)
EXTENDS Naturals, Sequences

CONSTANTS MaxAsks,    \* bound: questions submitted
          MaxSteps    \* bound: tool steps of one stream

ASSUME PanelAssumption == MaxAsks \in Nat /\ MaxSteps \in Nat

PanelAsks == 1..MaxAsks

VARIABLES turns,      \* the transcript: [role, ask] oldest first
          steps,      \* statuses of the tool steps shown
          pending, failed,    \* "Sending...", an error is shown
          ask,        \* [PanelAsks -> stream position of each submitted question]
          sent,       \* [PanelAsks -> history sent with it]
          conversation, askedIn   \* "New conversation" clicks; when each was asked

panelVars == <<turns, steps, pending, failed, ask, sent, conversation, askedIn>>

Idle == [pc |-> "idle", step |-> "none", count |-> 0]
InFlight(a) == ask[a].pc \in {"fetching", "streaming"}

PanelInit ==
  /\ turns = <<>> /\ steps = <<>> /\ pending = FALSE /\ failed = FALSE
  /\ ask = [a \in PanelAsks |-> Idle]
  /\ sent = [a \in PanelAsks |-> <<>>]
  /\ conversation = 0 /\ askedIn = [a \in PanelAsks |-> 0]

(* onSubmit up to the fetch: the history is the transcript as rendered. *)
Submits(a) ==
  /\ ask[a].pc = "idle" /\ \A b \in 1..(a - 1) : ask[b].pc # "idle"
  /\ sent' = [sent EXCEPT ![a] = turns]
  /\ askedIn' = [askedIn EXCEPT ![a] = conversation]
  /\ turns' = Append(turns, [role |-> "user", ask |-> a])
  /\ pending' = TRUE /\ failed' = FALSE /\ steps' = <<>>
  /\ ask' = [ask EXCEPT ![a].pc = "fetching"]
  /\ UNCHANGED conversation

PanelHears(a) ==
  /\ ask[a].pc = "fetching"
  /\ ask' = [ask EXCEPT ![a].pc = "streaming"]
  /\ UNCHANGED <<turns, steps, pending, failed, sent, conversation, askedIn>>

(* The finally block, after the last event or an error. *)
MutClearsOnSuccessOnly(a, ok) ==
  /\ ask' = [ask EXCEPT ![a].pc = "over"]
  /\ pending' = IF ok THEN FALSE ELSE pending
  /\ steps' = IF ok THEN <<>> ELSE steps
Settle(a, ok) ==
  /\ ask' = [ask EXCEPT ![a].pc = "over"]
  /\ pending' = FALSE
  /\ steps' = <<>>

(* The fetch fails, the proxy answers an error status, the body breaks off, or
   a frame is not JSON. *)
Breaks(a) ==
  /\ InFlight(a)
  /\ failed' = TRUE
  /\ Settle(a, FALSE)
  /\ UNCHANGED <<turns, sent, conversation, askedIn>>

(* parseSseStream yields a tool step: "started" adds a line, an outcome
   updates the last line when it is of the same tool. *)
StepEvent(a) ==
  /\ ask[a].pc = "streaming" /\ ask[a].step # "settled"
  /\ IF ask[a].step = "started"
     THEN \E o \in {"ok", "failed"}, sameTool \in BOOLEAN :
            /\ ask' = [ask EXCEPT ![a].step = o]
            /\ steps' = IF steps # <<>> /\ sameTool
                        THEN [steps EXCEPT ![Len(steps)] = o] ELSE steps
     ELSE /\ ask[a].count < MaxSteps
          /\ ask' = [ask EXCEPT ![a].step = "started", ![a].count = ask[a].count + 1]
          /\ steps' = Append(steps, "started")
  /\ UNCHANGED <<turns, pending, failed, sent, conversation, askedIn>>

AnswerEvent(a) ==
  /\ ask[a].pc = "streaming" /\ ask[a].step # "settled"
  /\ turns' = Append(turns, [role |-> "assistant", ask |-> a])
  /\ ask' = [ask EXCEPT ![a].step = "settled"]
  /\ UNCHANGED <<steps, pending, failed, sent, conversation, askedIn>>

ErrorEvent(a) ==
  /\ ask[a].pc = "streaming" /\ ask[a].step # "settled"
  /\ failed' = TRUE
  /\ ask' = [ask EXCEPT ![a].step = "settled"]
  /\ UNCHANGED <<turns, steps, pending, sent, conversation, askedIn>>

StreamOver(a) ==
  /\ ask[a].pc = "streaming" /\ ask[a].step = "settled"
  /\ Settle(a, TRUE)
  /\ UNCHANGED <<turns, failed, sent, conversation, askedIn>>

(* Offered while the transcript is not empty; a stream in flight goes on. *)
NewConversation ==
  /\ turns # <<>> /\ conversation < MaxAsks
  /\ turns' = <<>> /\ steps' = <<>> /\ failed' = FALSE
  /\ conversation' = conversation + 1
  /\ UNCHANGED <<pending, ask, sent, askedIn>>

StreamStep(a) == PanelHears(a) \/ Breaks(a) \/ StepEvent(a) \/ AnswerEvent(a)
                 \/ ErrorEvent(a) \/ StreamOver(a)

PanelNext == NewConversation \/ \E a \in PanelAsks : Submits(a) \/ StreamStep(a)

PanelSpec == PanelInit /\ [][PanelNext]_panelVars

-----------------------------------------------------------------------------
(* With no question in flight the composer is free again: not "Sending...",
   and no tool step left over from a stream that broke or overlapped. *)
ComposerFreed ==
  (\A a \in PanelAsks : ~InFlight(a)) => ~pending /\ steps = <<>>

(* "New conversation" is the way to start over (ask-panel.tsx): the history
   sent with a question holds only turns of the conversation it belongs to. *)
StartsAfresh ==
  \A a \in PanelAsks : \A i \in 1..Len(sent[a]) :
    askedIn[sent[a][i].ask] = askedIn[a]
=============================================================================
