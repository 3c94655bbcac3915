---------------------------- MODULE AnswerStream ----------------------------
(***************************************************************************)
(* What one question's event stream promises its reader: tool steps, each  *)
(* a "started" followed by its outcome, then exactly one terminal event    *)
(* ("answer" or "error"), then the end of the stream.  The last step may   *)
(* stay without an outcome.  AgenticAnswer implements this; AskPanel reads *)
(* it.                                                                     *)
(***************************************************************************)
EXTENDS Naturals, Sequences

VARIABLES seen,       \* events delivered so far, oldest first
          finished    \* the stream has ended

streamVars == <<seen, finished>>

Outcomes  == {"ok", "failed"}
Terminals == {"answer", "error"}

Latest == IF seen = <<>> THEN "none" ELSE seen[Len(seen)]
Answered == Latest \in Terminals

StreamInit == seen = <<>> /\ finished = FALSE

ToolStarts ==
  /\ ~finished /\ ~Answered /\ Latest # "started"
  /\ seen' = Append(seen, "started")
  /\ UNCHANGED finished

ToolEnds ==
  /\ ~finished /\ Latest = "started"
  /\ \E o \in Outcomes : seen' = Append(seen, o)
  /\ UNCHANGED finished

Settles ==
  /\ ~finished /\ ~Answered
  /\ \E t \in Terminals : seen' = Append(seen, t)
  /\ UNCHANGED finished

Ends ==
  /\ ~finished /\ Answered
  /\ finished' = TRUE
  /\ UNCHANGED seen

StreamNext == ToolStarts \/ ToolEnds \/ Settles \/ Ends

StreamSpec == StreamInit /\ [][StreamNext]_streamVars

(* The stream always ends, whatever the model and the tools do. *)
StreamEnds == <>finished
=============================================================================
