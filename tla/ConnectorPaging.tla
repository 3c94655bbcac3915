-------------------------- MODULE ConnectorPaging --------------------------
(***************************************************************************)
(* How a connector walks its origin and where it puts its checkpoints,     *)
(* while the origin changes under it: the `stream` generators of the       *)
(* GitHub, Linear and Granola connectors and the list calls of their       *)
(* clients.  A run lists pages, emits each item (which lands it), emits    *)
(* checkpoints (which persist the cursor), and may die at any point; the   *)
(* next incremental run starts at the persisted cursor.                    *)
(*                                                                         *)
(* GitHub lists oldest first by page NUMBER and checkpoints every page;    *)
(* Linear lists newest first behind a relay cursor and checkpoints at the  *)
(* end; Granola lists oldest first behind an opaque cursor and checkpoints *)
(* every page.  The list endpoints themselves are external.                *)
(***************************************************************************)
EXTENDS Naturals, FiniteSets

CONSTANTS Providers,     \* of "github", "linear" and "granola"
          Docs,          \* pull requests, issues or documents, as numbers
          PageSize,
          MaxVersion,    \* bound: versions the origin ever creates
          MaxStreams,    \* bound: activity attempts
          Granularity    \* consecutive versions that share one `updatedAt`

ASSUME PagingAssumption ==
  /\ Providers \subseteq {"github", "linear", "granola"}
  /\ Docs \subseteq Nat /\ IsFiniteSet(Docs) /\ PageSize \in Nat \ {0}
  /\ MaxVersion \in Nat /\ MaxStreams \in Nat /\ Granularity \in Nat \ {0}

VARIABLES provider,  \* the connector that runs
          version,   \* [Docs -> number of its current version, 0: not created]
          newest,    \* the last version number given out
          landed,    \* version numbers that have a sources row
          cursor,    \* connector_sync_state.cursor, 0 for null
          stream,    \* the walk of the running attempt
          streams    \* attempts started

vars == <<provider, version, newest, landed, cursor, stream, streams>>

(* updatedAt, in the origin's resolution. *)
Stamp(v) == 1 + (v \div Granularity)

(* The list order of two documents, given their versions. *)
Earlier(v, d, w, e) ==
  LET before == Stamp(v) < Stamp(w) \/ (Stamp(v) = Stamp(w) /\ d < e)
  IN  IF provider = "linear" THEN d # e /\ ~before ELSE before

(* The documents a list call is about, and those that come before one of them. *)
MutExclusiveSince(since) == {d \in Docs : version[d] > 0 /\ Stamp(version[d]) > since}
Listed(since) == {d \in Docs : version[d] > 0 /\ Stamp(version[d]) >= since}
Before(S, d) == {e \in S : Earlier(version[e], e, version[d], d)}

Idle == [pc |-> "idle", since |-> 0, page |-> 1, anchor |-> <<>>, items |-> {},
         more |-> FALSE, max |-> 0, saved |-> 0, began |-> 0]

Init ==
  /\ provider \in Providers
  /\ version \in [Docs -> {0}] /\ newest = 0
  /\ landed = {} /\ cursor = 0 /\ stream = Idle /\ streams = 0

-----------------------------------------------------------------------------
(* A document is created or edited at the origin. *)
OriginEdits(d) ==
  /\ newest < MaxVersion
  /\ newest' = newest + 1
  /\ version' = [version EXCEPT ![d] = newest + 1]
  /\ UNCHANGED <<provider, landed, cursor, stream, streams>>

(* incremental(ctx, cursor); a backfill is the same walk from null. *)
RunStarts(since) ==
  /\ stream.pc = "idle" /\ streams < MaxStreams
  /\ stream' = [Idle EXCEPT !.pc = "fetch", !.since = since, !.max = since,
                         !.saved = since, !.began = newest]
  /\ streams' = streams + 1
  /\ UNCHANGED <<provider, version, newest, landed, cursor>>

(* The rest of the list a page is cut from: what follows the page number, or
   what follows the last item of the page before. *)
Remaining ==
  IF provider = "github"
  THEN {d \in Listed(0) : Cardinality(Before(Listed(0), d)) >= (stream.page - 1) * PageSize}
  ELSE {d \in Listed(stream.since) :
          stream.anchor = <<>> \/ Earlier(stream.anchor[1], stream.anchor[2], version[d], d)}
Page == {d \in Remaining : Cardinality(Before(Remaining, d)) < PageSize}
LastOf(S) == CHOOSE d \in S : Before(S, d) = S \ {d}

(* One list call.  GitHub has no `since` parameter: its client drops the older
   items of the page it got. *)
FetchPage ==
  /\ stream.pc = "fetch"
  /\ stream' = [stream EXCEPT
       !.pc = "emit",
       !.items = {<<version[d], d>> : d \in {e \in Page : Stamp(version[e]) >= stream.since}},
       !.more = Page # Remaining,
       !.page = @ + 1,
       !.anchor = IF Page = {} THEN @ ELSE <<version[LastOf(Page)], LastOf(Page)>>]
  /\ UNCHANGED <<provider, version, newest, landed, cursor, streams>>

(* yield artifactEmit(...), in the order of the page: the attempt lands it
   before asking for the next. *)
EmitItem ==
  /\ stream.pc = "emit"
  /\ \E i \in stream.items :
       /\ \A j \in stream.items \ {i} : Earlier(i[1], i[2], j[1], j[2])
       /\ landed' = landed \cup {i[1]}
       /\ stream' = [stream EXCEPT !.items = @ \ {i},
                    !.max = IF Stamp(i[1]) > @ THEN Stamp(i[1]) ELSE @]
  /\ UNCHANGED <<provider, version, newest, cursor, streams>>

(* Linear checkpoints once the stream has drained, the others per page. *)
MutCheckpointPerPage == stream.max # stream.saved
CheckpointDue == stream.max # stream.saved /\ (provider = "linear" => ~stream.more)

PageEnds ==
  /\ stream.pc = "emit" /\ stream.items = {}
  /\ cursor' = IF CheckpointDue THEN stream.max ELSE cursor
  /\ stream' = [stream EXCEPT !.pc = IF stream.more THEN "fetch" ELSE "drained",
               !.saved = IF CheckpointDue THEN stream.max ELSE @]
  /\ UNCHANGED <<provider, version, newest, landed, streams>>

(* The abort signal ends the stream without its last checkpoint. *)
RunAborts ==
  /\ stream.pc \in {"fetch", "emit"}
  /\ stream' = [stream EXCEPT !.pc = "cut"]
  /\ UNCHANGED <<provider, version, newest, landed, cursor, streams>>

(* The activity writes its last cursor once more, status idle. *)
RunReturns ==
  /\ stream.pc \in {"drained", "cut"}
  /\ cursor' = stream.saved
  /\ stream' = Idle
  /\ UNCHANGED <<provider, version, newest, landed, streams>>

(* An error or a dead worker. *)
RunDies ==
  /\ stream.pc \in {"fetch", "emit"}
  /\ stream' = Idle
  /\ UNCHANGED <<provider, version, newest, landed, cursor, streams>>

Rest == stream.pc = "idle" /\ streams = MaxStreams /\ newest = MaxVersion /\ UNCHANGED vars

Next ==
  \/ \E d \in Docs : OriginEdits(d)
  \/ \E since \in {0, cursor} : RunStarts(since)
  \/ FetchPage
  \/ EmitItem
  \/ PageEnds
  \/ RunAborts
  \/ RunReturns
  \/ RunDies
  \/ Rest

Spec == Init /\ [][Next]_vars

-----------------------------------------------------------------------------
Stamps == 0..Stamp(MaxVersion)

TypeOK ==
  /\ provider \in Providers
  /\ version \in [Docs -> 0..MaxVersion]
  /\ newest \in 0..MaxVersion
  /\ landed \subseteq 1..MaxVersion
  /\ cursor \in Stamps
  /\ stream.pc \in {"idle", "fetch", "emit", "drained", "cut"}
  /\ {stream.since, stream.max, stream.saved} \subseteq Stamps
  /\ stream.items \subseteq (1..MaxVersion) \X Docs
  /\ streams \in 0..MaxStreams

(* A checkpoint is a low-water mark: every document whose current version is
   older than the cursor has that version landed, so a run that resumes at the
   cursor, inclusively, skips nothing. *)
CheckpointSafe ==
  \A d \in Docs :
    version[d] > 0 /\ Stamp(version[d]) < cursor => version[d] \in landed

(* A run over an origin that holds still leaves nothing behind, wherever the
   runs before it were cut off. *)
QuietRunLandsAll ==
  stream.pc = "drained" /\ stream.began = newest =>
    \A d \in Docs : version[d] > 0 => version[d] \in landed
=============================================================================
