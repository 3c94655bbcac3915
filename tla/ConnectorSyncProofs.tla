------------------------ MODULE ConnectorSyncProofs ------------------------
(***************************************************************************)
(* A cursor never promises more than is landed and a transcript is handed  *)
(* to extraction at most once, for any number of syncs, attempts and       *)
(* versions.  The inductive invariant follows a version from the stream to *)
(* its row, and a transcript from the one attempt that wrote its row to    *)
(* the one workflow that attempt answers to.                               *)
(***************************************************************************)
EXTENDS ConnectorSync, TLAPS

(* One landing after another, for any number of them.  What makes the invariant
   inductive is what the unique key buys: an uncommitted row has no rival,
   committed or not. *)

(* A row in flight is the only one of its version. *)
KeyInv ==
  \A l \in Landers : InFlight(l) =>
    /\ lander[l].version \in Versions
    /\ ~Landed(lander[l].version)
    /\ \A k \in Landers :
         InFlight(k) /\ lander[k].version = lander[l].version => k = l

(* Rows are written by landings that ended as "landed", one row each. *)
WriterInv ==
  \A row \in sources :
    lander[row.by].pc = "landed" /\ lander[row.by].version = row.version

BusyInv == \A l \in Landers : lander[l].pc # "idle" => lander[l].version \in Versions

LandInv ==
  /\ LandTypeOK
  /\ BusyInv
  /\ KeyInv
  /\ WriterInv
  /\ OneRowPerVersion
  /\ LandedWhole
  /\ DuplicateMeansLanded
  /\ WinnerOwnsRow

LEMMA LandInvInit == LandInit => LandInv
BY LandingAssumption DEF LandInit, LandInv, LandTypeOK, Rows, LanderStates, BusyInv, KeyInv,
   InFlight, WriterInv, OneRowPerVersion, LandedWhole, DuplicateMeansLanded,
   WinnerOwnsRow, Row

(* A step that writes no row: one lander moves to a state that claims nothing. *)
LEMMA QuietStep ==
  ASSUME LandInv, NEW l \in Landers, NEW to, NEW v \in Versions,
         to \in {"asked", "resolving", "open", "checked", "failed"},
         lander[l].pc # "landed",
         lander' = [lander EXCEPT ![l] = [pc |-> to, version |-> v]],
         UNCHANGED <<sources, acls, graph>>
  PROVE  LandInv'
<1> USE DEF LandInv
<1>1. LandTypeOK'
  BY DEF LandTypeOK, LanderStates
<1>2. BusyInv'
  BY DEF BusyInv, LandTypeOK, LanderStates
<1>3. KeyInv'
  BY DEF KeyInv, LandTypeOK, LanderStates, InFlight, Landed
<1>4. WriterInv' /\ WinnerOwnsRow'
  BY DEF WriterInv, WinnerOwnsRow, LandTypeOK, LanderStates, Rows, Row
<1>5. OneRowPerVersion' /\ LandedWhole' /\ DuplicateMeansLanded'
  BY DEF OneRowPerVersion, LandedWhole, DuplicateMeansLanded, LandTypeOK, LanderStates, Landed
<1> QED BY <1>1, <1>2, <1>3, <1>4, <1>5

(* A step that finds the version landed and stands aside. *)
LEMMA StandAside ==
  ASSUME LandInv, NEW l \in Landers, lander[l].version \in Versions,
         lander[l].pc # "landed", Landed(lander[l].version),
         lander' = [lander EXCEPT ![l] = [pc |-> "duplicate", version |-> lander[l].version]],
         UNCHANGED <<sources, acls, graph>>
  PROVE  LandInv'
<1> USE DEF LandInv
<1>1. LandTypeOK' /\ BusyInv'
  BY DEF LandTypeOK, LanderStates, BusyInv
<1>2. KeyInv'
  BY DEF KeyInv, LandTypeOK, LanderStates, InFlight, Landed
<1>3. WriterInv' /\ WinnerOwnsRow'
  BY DEF WriterInv, WinnerOwnsRow, LandTypeOK, LanderStates, Rows, Row
<1>4. OneRowPerVersion' /\ LandedWhole' /\ DuplicateMeansLanded'
  BY DEF OneRowPerVersion, LandedWhole, DuplicateMeansLanded, LandTypeOK, LanderStates, Landed
<1> QED BY <1>1, <1>2, <1>3, <1>4

(* The INSERT takes the key: no rival in flight, none committed. *)
LEMMA TakeKey ==
  ASSUME LandInv, NEW l \in Landers, lander[l].version \in Versions,
         lander[l].pc = "checked", ~Landed(lander[l].version), NoUncommittedRival(l),
         lander' = [lander EXCEPT ![l] = [pc |-> "inserted", version |-> lander[l].version]],
         UNCHANGED <<sources, acls, graph>>
  PROVE  LandInv'
<1> USE DEF LandInv
<1>1. LandTypeOK' /\ BusyInv'
  BY DEF LandTypeOK, LanderStates, BusyInv
<1>2. KeyInv'
  BY DEF KeyInv, LandTypeOK, LanderStates, InFlight, Landed, NoUncommittedRival
<1>3. WriterInv' /\ WinnerOwnsRow'
  BY DEF WriterInv, WinnerOwnsRow, LandTypeOK, LanderStates, Rows, Row
<1>4. OneRowPerVersion' /\ LandedWhole' /\ DuplicateMeansLanded'
  BY DEF OneRowPerVersion, LandedWhole, DuplicateMeansLanded, LandTypeOK, LanderStates, Landed
<1> QED BY <1>1, <1>2, <1>3, <1>4

(* The transaction goes on under the key it holds. *)
LEMMA KeepKey ==
  ASSUME LandInv, NEW l \in Landers, InFlight(l), NEW to \in {"linked", "attested"},
         lander' = [lander EXCEPT ![l] = [pc |-> to, version |-> lander[l].version]],
         UNCHANGED <<sources, acls, graph>>
  PROVE  LandInv'
<1> USE DEF LandInv
<1>1. lander[l].pc \notin {"landed", "duplicate", "idle"} /\ lander[l].version \in Versions
  BY DEF InFlight, KeyInv
<1>2. LandTypeOK' /\ BusyInv'
  BY <1>1 DEF LandTypeOK, LanderStates, BusyInv
<1>3. KeyInv'
  BY <1>1 DEF KeyInv, LandTypeOK, LanderStates, InFlight, Landed
<1>4. WriterInv' /\ WinnerOwnsRow'
  BY <1>1 DEF WriterInv, WinnerOwnsRow, LandTypeOK, LanderStates, Rows, Row
<1>5. OneRowPerVersion' /\ LandedWhole' /\ DuplicateMeansLanded'
  BY <1>1 DEF OneRowPerVersion, LandedWhole, DuplicateMeansLanded, LandTypeOK, LanderStates, Landed
<1> QED BY <1>2, <1>3, <1>4, <1>5

(* The commit publishes the row, the snapshot and the graph records. *)
LEMMA CommitStep ==
  ASSUME LandInv, NEW l \in Landers, LandCommit(l)
  PROVE  LandInv'
<1> USE DEF LandInv
<1>1. /\ lander[l].version \in Versions /\ InFlight(l) /\ ~Landed(lander[l].version)
      /\ lander[l].pc = "attested"
      /\ lander' = [lander EXCEPT ![l] = [pc |-> "landed", version |-> lander[l].version]]
      /\ sources' = sources \cup {Row(lander[l].version, l)}
  BY DEF LandCommit, Moves, KeyInv, InFlight
<1>2. LandTypeOK' /\ BusyInv'
  BY <1>1 DEF LandTypeOK, LanderStates, BusyInv, LandCommit, Rows, Row
<1>3. KeyInv'
  BY <1>1 DEF KeyInv, LandTypeOK, LanderStates, InFlight, Landed, Rows, Row
<1>4. WriterInv' /\ WinnerOwnsRow'
  BY <1>1 DEF WriterInv, WinnerOwnsRow, LandTypeOK, LanderStates, Rows, Row
<1>5. OneRowPerVersion'
  BY <1>1 DEF OneRowPerVersion, Landed, LandTypeOK, Rows, Row
<1>6. LandedWhole' /\ DuplicateMeansLanded'
  BY <1>1 DEF LandedWhole, LandCommit, DuplicateMeansLanded, LandTypeOK, LanderStates, Landed
<1> QED BY <1>2, <1>3, <1>4, <1>5, <1>6

LEMMA LandInvNext == LandInv /\ [LandNext]_landVars => LandInv'
<1> SUFFICES ASSUME LandInv, [LandNext]_landVars PROVE LandInv'
  OBVIOUS
<1>1. ASSUME NEW l \in Landers, NEW v \in Versions, LandBegin(l, v) PROVE LandInv'
  BY <1>1, QuietStep DEF LandBegin
<1>2. ASSUME NEW l \in Landers, LandProgress(l) PROVE LandInv'
  <2>0. lander[l].pc # "idle" => lander[l].version \in Versions
    BY DEF LandInv, BusyInv
  <2>1. CASE PreCheck(l)
    BY <2>0, <2>1, QuietStep, StandAside DEF PreCheck, Moves
  <2>2. CASE OpenTransaction(l)
    BY <2>0, <2>2, QuietStep DEF OpenTransaction, Moves
  <2>3. CASE Recheck(l)
    BY <2>0, <2>3, QuietStep, StandAside DEF Recheck, Moves
  <2>4. CASE InsertSource(l)
    BY <2>0, <2>4, StandAside, TakeKey DEF InsertSource, Moves
  <2>5. CASE LinkAcl(l)
    BY <2>5, KeepKey DEF LinkAcl, Moves, InFlight
  <2>6. CASE WriteGraph(l)
    BY <2>6, KeepKey DEF WriteGraph, Moves, InFlight
  <2>7. CASE LandCommit(l)
    BY <2>7, CommitStep
  <2> QED BY <1>2, <2>1, <2>2, <2>3, <2>4, <2>5, <2>6, <2>7 DEF LandProgress
<1>3. ASSUME NEW l \in Landers, LandFails(l) PROVE LandInv'
  <2>1. lander[l].version \in Versions /\ lander[l].pc # "landed"
    BY <1>3 DEF LandFails, Ended, LandInv, BusyInv
  <2> QED BY <1>3, <2>1, QuietStep DEF LandFails
<1>4. CASE UNCHANGED landVars
  BY <1>4 DEF landVars, LandInv, LandTypeOK, BusyInv, KeyInv, InFlight, Landed, WriterInv,
     OneRowPerVersion, LandedWhole, DuplicateMeansLanded, WinnerOwnsRow
<1> QED BY <1>1, <1>2, <1>3, <1>4 DEF LandNext, LandAllEnded

(* The invariant holds in every reachable state. *)
THEOREM LandInvariant == LandSpec => []LandInv
<1>1. LandInit => LandInv
  BY LandInvInit
<1>2. LandInv /\ [LandNext]_landVars => LandInv'
  BY LandInvNext
<1> QED BY <1>1, <1>2, PTL DEF LandSpec

(* The tables and the landings have their types. *)
THEOREM LandTypeCorrect == LandSpec => []LandTypeOK
BY LandInvariant, PTL DEF LandInv

(* However many syncs and deliveries race, a version is landed once. *)
THEOREM VersionLandsOnce == LandSpec => []OneRowPerVersion
BY LandInvariant, PTL DEF LandInv

(* No source without its ACL snapshot and graph records, or the reverse. *)
THEOREM SourcesLandWhole == LandSpec => []LandedWhole
BY LandInvariant, PTL DEF LandInv

(* A caller told "already there" was told the truth, and one caller owns each
   row. *)
THEOREM AnswersAreTrue == LandSpec => []AnswersTrue
BY LandInvariant, PTL DEF LandInv, AnswersTrue

-----------------------------------------------------------------------------
(* The connector's syncs.  *)
(* What is left of SourceLanding's invariant when landers are used again and a
   crash may end one that had not begun. *)
Uncommitted == {"inserted", "linked", "attested"}

OwnsKey(l, v) ==
  /\ ~Landed(v)
  /\ \A k \in Landers \ {l} : InFlight(k) => lander[k].version # v

LanderSound(l) ==
  /\ lander[l].pc \notin {"idle", "failed"} => lander[l].version \in Versions
  /\ lander[l].pc \in Uncommitted => OwnsKey(l, lander[l].version)
  /\ lander[l].pc = "duplicate" => Landed(lander[l].version)
  /\ lander[l].pc = "landed" => Row(lander[l].version, l) \in sources

LandSound ==
  /\ LandTypeOK
  /\ \A l \in Landers : LanderSound(l)
  /\ OneRowPerVersion
  /\ LandedWhole

SyncStates == [phase : {"none", "sync", "children", "completed", "failed"},
               mode : {"incremental", "backfill"},
               attempt : 0..SyncAttempts, tries : 1..SyncAttempts, children : SUBSET Versions]

AttemptStates == [pc : {"idle", "read", "streaming", "returned", "dead"},
                  cursor : 0..MaxVersion, todo : SUBSET Versions, upto : 0..MaxVersion,
                  transcripts : SUBSET Versions, aborted : BOOLEAN]

SyncTypeOK ==
  /\ origin \in 0..MaxVersion
  /\ syncState \in [cursor : 0..MaxVersion, status : {"idle", "running", "error"}]
  /\ sync \in [Syncs -> SyncStates]
  /\ attempt \in [Attempts -> AttemptStates]
  /\ extractions \in [Versions -> Nat]

(* A cursor in memory is as sound as the persisted one; what an uncut stream has
   listed and no longer has ahead of it is landed; what an attempt remembers it
   wrote itself. *)
AttemptSound(a) ==
  /\ \A v \in 1..attempt[a].cursor : Landed(v)
  /\ ~attempt[a].aborted =>
       \A v \in 1..attempt[a].upto : v \in attempt[a].todo \/ Landed(v)
  /\ \A v \in attempt[a].transcripts : v \in Transcripts /\ Row(v, a) \in sources

(* The attempt a workflow listens to. *)
Current(w) == <<w, sync[w].attempt>>

WorkflowSound(w) ==
  /\ sync[w].phase \in {"sync", "children", "completed"} => sync[w].attempt \in 1..SyncAttempts
  /\ sync[w].phase \in {"children", "completed"} =>
       attempt[Current(w)].pc = "returned" /\ attempt[Current(w)].todo = {}
  /\ sync[w].phase # "children" => sync[w].children = {}
  /\ \A v \in sync[w].children :
       extractions[v] = 0 /\ v \in attempt[Current(w)].transcripts

(* An extracted transcript was written by the attempt that its workflow took
   its answer from. *)
ExtractionSound(v) ==
  /\ extractions[v] <= 1
  /\ extractions[v] > 0 => \E w \in Syncs :
       /\ sync[w].phase \in {"children", "completed"}
       /\ v \in attempt[Current(w)].transcripts

SyncInv ==
  /\ LandSound
  /\ SyncTypeOK
  /\ CursorSound
  /\ \A a \in Attempts : AttemptSound(a)
  /\ \A a \in Attempts : attempt[a].pc = "returned" => attempt[a].todo = {}
  /\ \A w \in Syncs : WorkflowSound(w)
  /\ \A v \in Versions : ExtractionSound(v)

-----------------------------------------------------------------------------
LEMMA SyncInvInit == Init => SyncInv
<1> SUFFICES ASSUME Init PROVE SyncInv
  OBVIOUS
<1>1. LandSound
  BY LandingAssumption DEF Init, LandInit, LandSound, LandTypeOK, LanderStates, LanderSound,
     Uncommitted, OneRowPerVersion, LandedWhole
<1>2. SyncTypeOK
  BY SyncAssumption DEF Init, SyncTypeOK, SyncStates, AttemptStates, IdleAttempt
<1>3. CursorSound /\ \A a \in Attempts : AttemptSound(a)
  BY DEF Init, CursorSound, AttemptSound, IdleAttempt
<1>4. \A a \in Attempts : attempt[a].pc = "returned" => attempt[a].todo = {}
  BY DEF Init, IdleAttempt
<1>5. \A w \in Syncs : WorkflowSound(w)
  BY DEF Init, WorkflowSound
<1>6. \A v \in Versions : ExtractionSound(v)
  BY DEF Init, ExtractionSound
<1> QED BY <1>1, <1>2, <1>3, <1>4, <1>5, <1>6 DEF SyncInv

(* A lander moves; whatever its new place claims is so. *)
LEMMA LanderMoves ==
  ASSUME LandSound, NEW l \in Landers, NEW st \in LanderStates,
         lander' = [lander EXCEPT ![l] = st], UNCHANGED <<sources, acls, graph>>,
         st.pc \notin {"idle", "failed"} => st.version \in Versions,
         st.pc \in Uncommitted => OwnsKey(l, st.version),
         st.pc = "duplicate" => Landed(st.version),
         st.pc = "landed" => Row(st.version, l) \in sources
  PROVE  LandSound'
<1> USE DEF LandSound
<1>1. LandTypeOK' /\ OneRowPerVersion' /\ LandedWhole'
  BY DEF LandTypeOK, OneRowPerVersion, LandedWhole
<1>2. ASSUME NEW k \in Landers PROVE LanderSound(k)'
  <2>1. CASE k = l
    BY <2>1 DEF LandTypeOK, LanderSound, OwnsKey, Landed, InFlight, Uncommitted
  <2>2. CASE k # l
    <3>1. lander'[k] = lander[k] /\ LanderSound(k)
      BY <2>2 DEF LandTypeOK
    <3>2. lander[k].pc \in Uncommitted /\ st.pc \in Uncommitted => lander[k].version # st.version
      BY <2>2 DEF OwnsKey, InFlight, Uncommitted
    <3>3. lander[k].pc \in Uncommitted => OwnsKey(k, lander[k].version)'
      BY <2>2, <3>1, <3>2 DEF LandTypeOK, LanderSound, OwnsKey, Landed, InFlight, Uncommitted
    <3> QED BY <3>1, <3>3 DEF LanderSound, Landed
  <2> QED BY <2>1, <2>2
<1> QED BY <1>1, <1>2

(* The commit publishes the row that the lander alone may write. *)
LEMMA LandingCommits ==
  ASSUME LandSound, NEW l \in Landers, LandCommit(l)
  PROVE  LandSound'
<1> USE DEF LandSound
<1> DEFINE v == lander[l].version
           row == Row(v, l)
<1>1. /\ lander[l].pc = "attested" /\ v \in Versions /\ OwnsKey(l, v)
      /\ lander' = [lander EXCEPT ![l] = [pc |-> "landed", version |-> v]]
      /\ sources' = sources \cup {row}
  BY DEF LandCommit, Moves, LanderSound, Uncommitted
<1>2. row \in Rows /\ row.version = v
  BY <1>1 DEF Row, Rows
<1>3. LandTypeOK' /\ LandedWhole'
  BY <1>1, <1>2 DEF LandCommit, LandTypeOK, LanderStates, LandedWhole
<1>4. OneRowPerVersion'
  BY <1>1, <1>2 DEF OneRowPerVersion, OwnsKey, Landed
<1>5. ASSUME NEW k \in Landers PROVE LanderSound(k)'
  <2>1. CASE k = l
    BY <1>1, <2>1 DEF LandTypeOK, LanderSound, Uncommitted
  <2>2. CASE k # l
    <3>1. lander'[k] = lander[k] /\ LanderSound(k)
      BY <1>1, <2>2 DEF LandTypeOK
    <3>2. lander[k].pc \in Uncommitted => lander[k].version # v
      BY <1>1, <2>2 DEF OwnsKey, InFlight, Uncommitted
    <3>3. lander[k].pc \in Uncommitted => OwnsKey(k, lander[k].version)'
      BY <1>1, <1>2, <2>2, <3>1, <3>2
         DEF LandTypeOK, LanderSound, OwnsKey, Landed, InFlight, Uncommitted
    <3> QED BY <1>1, <3>1, <3>3 DEF LanderSound, Landed
  <2> QED BY <2>1, <2>2
<1> QED BY <1>3, <1>4, <1>5

(* Every step of a landing keeps the tables sound and takes no row away. *)
LEMMA LandingStep ==
  ASSUME LandSound, NEW l \in Landers,
         LandProgress(l) \/ LandFails(l) \/ \E v \in Versions : LandBegin(l, v)
  PROVE  LandSound' /\ sources \subseteq sources'
<1> DEFINE v == lander[l].version
<1>1. LandTypeOK /\ LanderSound(l) /\ lander[l] \in LanderStates
  BY DEF LandSound, LandTypeOK
<1>2. ASSUME NEW to \in {"resolving", "open", "checked", "failed"},
             lander' = [lander EXCEPT ![l] = [pc |-> to, version |-> v]],
             lander[l].pc # "idle",  lander[l].pc # "failed",
             UNCHANGED <<sources, acls, graph>>
      PROVE  LandSound'
  <2> DEFINE st == [pc |-> to, version |-> v]
  <2>1. st \in LanderStates /\ st.pc = to /\ st.version = v
    BY <1>1 DEF LanderStates
  <2>2. v \in Versions
    BY <1>1, <1>2 DEF LanderSound
  <2> HIDE DEF st
  <2> QED BY <1>2, <2>1, <2>2, LanderMoves DEF Uncommitted, st
<1>3. ASSUME NEW to \in {"inserted", "linked", "attested"}, v \in Versions, OwnsKey(l, v),
             lander' = [lander EXCEPT ![l] = [pc |-> to, version |-> v]],
             UNCHANGED <<sources, acls, graph>>
      PROVE  LandSound'
  <2> DEFINE st == [pc |-> to, version |-> v]
  <2>1. st \in LanderStates /\ st.pc = to /\ st.version = v
    BY <1>1 DEF LanderStates
  <2> HIDE DEF st
  <2> QED BY <1>3, <2>1, LanderMoves DEF Uncommitted, st
<1>4. ASSUME v \in Versions, Landed(v),
             lander' = [lander EXCEPT ![l] = [pc |-> "duplicate", version |-> v]],
             UNCHANGED <<sources, acls, graph>>
      PROVE  LandSound'
  <2> DEFINE st == [pc |-> "duplicate", version |-> v]
  <2>1. st \in LanderStates /\ st.pc = "duplicate" /\ st.version = v
    BY <1>1 DEF LanderStates
  <2> HIDE DEF st
  <2> QED BY <1>4, <2>1, LanderMoves DEF Uncommitted, st
<1>5. ASSUME NEW u \in Versions, LandBegin(l, u) PROVE LandSound'
  <2> DEFINE st == [pc |-> "asked", version |-> u]
  <2>1. st \in LanderStates /\ st.pc = "asked" /\ st.version = u
    BY DEF LanderStates
  <2>2. lander' = [lander EXCEPT ![l] = st] /\ UNCHANGED <<sources, acls, graph>>
    BY <1>5 DEF LandBegin
  <2> HIDE DEF st
  <2> QED BY <2>1, <2>2, LanderMoves DEF Uncommitted
<1>6. lander[l].pc \notin {"idle", "failed"} => v \in Versions
  BY <1>1 DEF LanderSound
<1>7. CASE PreCheck(l) \/ Recheck(l)
  BY <1>7, <1>2, <1>4, <1>6 DEF PreCheck, Recheck, Moves
<1>8. CASE OpenTransaction(l) \/ LandFails(l)
  BY <1>8, <1>2 DEF OpenTransaction, LandFails, Ended, Moves
<1>9. CASE InsertSource(l)
  <2>1. lander[l].pc = "checked" /\ NoUncommittedRival(l) /\ UNCHANGED <<sources, acls, graph>>
    BY <1>9 DEF InsertSource, Moves
  <2>2. ~Landed(v) => OwnsKey(l, v)
    BY <2>1 DEF NoUncommittedRival, OwnsKey
  <2> QED BY <1>9, <2>1, <2>2, <1>3, <1>4, <1>6 DEF InsertSource, Moves
<1>10. CASE LinkAcl(l) \/ WriteGraph(l)
  <2>1. lander[l].pc \in Uncommitted
    BY <1>10 DEF LinkAcl, WriteGraph, Moves, Uncommitted
  <2>2. OwnsKey(l, v) /\ v \in Versions
    BY <1>1, <1>6, <2>1 DEF LanderSound, Uncommitted
  <2> QED BY <1>10, <2>2, <1>3 DEF LinkAcl, WriteGraph, Moves
<1>11. LandSound'
  BY <1>5, <1>7, <1>8, <1>9, <1>10, LandingCommits DEF LandProgress
<1>12. sources \subseteq sources'
  BY DEF LandProgress, LandBegin, PreCheck, OpenTransaction, Recheck, InsertSource, LinkAcl,
     WriteGraph, LandCommit, LandFails
<1> QED BY <1>11, <1>12

-----------------------------------------------------------------------------
(* A step that leaves the workflows alone: at most one attempt moves, and it is
   not one that a workflow has taken its answer from. *)
LEMMA AttemptFrame ==
  ASSUME SyncInv, NEW a \in Attempts, attempt[a].pc # "returned",
         LandSound', sources \subseteq sources', SyncTypeOK', CursorSound',
         UNCHANGED <<sync, extractions>>,
         \A b \in Attempts \ {a} : attempt'[b] = attempt[b],
         AttemptSound(a)',
         attempt'[a].pc = "returned" => attempt'[a].todo = {}
  PROVE  SyncInv'
<1> USE DEF SyncInv
<1>1. \A w \in Syncs : sync[w].phase \in {"children", "completed"} =>
        Current(w) \in Attempts \ {a}
  BY DEF WorkflowSound, Current, Attempts
<1>2. ASSUME NEW w \in Syncs PROVE WorkflowSound(w)'
  <2>1. Current(w)' = Current(w)
    BY DEF Current
  <2>2. CASE sync[w].phase \in {"children", "completed"}
    BY <1>1, <2>1, <2>2 DEF WorkflowSound
  <2>3. CASE sync[w].phase \notin {"children", "completed"}
    BY <2>1, <2>3 DEF WorkflowSound
  <2> QED BY <2>2, <2>3
<1>3. ASSUME NEW v \in Versions PROVE ExtractionSound(v)'
  BY <1>1 DEF ExtractionSound, Current
<1>4. ASSUME NEW b \in Attempts PROVE AttemptSound(b)'
  BY DEF AttemptSound, Landed
<1>5. \A b \in Attempts : attempt'[b].pc = "returned" => attempt'[b].todo = {}
  OBVIOUS
<1> QED BY <1>2, <1>3, <1>4, <1>5

(* The connector's stream, one artifact at a time, in and out of SourceLanding. *)
LEMMA SyncInvLanding ==
  ASSUME SyncInv, NEW a \in Attempts, AttemptIngests(a) \/ AttemptLands(a)
  PROVE  SyncInv'
<1> USE DEF SyncInv
<1>1. /\ UNCHANGED syncVars
      /\ LandProgress(a) \/ LandFails(a) \/ \E v \in Versions : LandBegin(a, v)
      /\ attempt[a].pc # "returned"
  BY DEF AttemptIngests, AttemptLands, Streaming, SyncTypeOK, AttemptStates
<1>2. LandSound' /\ sources \subseteq sources'
  BY <1>1, SyncAssumption, LandingStep
<1>3. SyncTypeOK'
  BY <1>1 DEF syncVars, SyncTypeOK
<1>4. CursorSound' /\ AttemptSound(a)'
  BY <1>1, <1>2 DEF syncVars, CursorSound, AttemptSound, Landed
<1> QED BY <1>1, <1>2, <1>3, <1>4, AttemptFrame DEF syncVars

(* An attempt that has an answer of its landing: the version is in the table, and
   a row that was inserted carries the attempt's name. *)
LEMMA SyncInvCollects ==
  ASSUME SyncInv, NEW a \in Attempts, AttemptCollects(a)
  PROVE  SyncInv'
<1> USE DEF SyncInv
<1> DEFINE v == lander[a].version
           idle == [pc |-> "idle", version |-> None]
           got == IF Remembers(a) THEN {v} ELSE {}
<1>1. /\ attempt[a].pc = "streaming" /\ attempt[a] \in AttemptStates
      /\ attempt' = [attempt EXCEPT ![a].todo = @ \ {v}, ![a].transcripts = @ \cup got]
      /\ lander' = [lander EXCEPT ![a] = idle]
      /\ UNCHANGED <<sources, acls, graph, origin, syncState, sync, extractions>>
  BY DEF AttemptCollects, SyncTypeOK
<1>2. LanderSound(a) /\ lander[a].pc \in {"landed", "duplicate"}
  BY SyncAssumption DEF AttemptCollects, Ingested, LandSound
<1>3. v \in Versions /\ Landed(v)
  BY <1>2 DEF LanderSound, Landed, Row
<1>4. \A u \in got : u \in Versions /\ u \in Transcripts /\ Row(u, a) \in sources
  BY <1>2, <1>3 DEF Remembers, LanderSound
<1>5. LandSound'
  <2>1. idle \in LanderStates /\ idle.pc = "idle"
    BY DEF LanderStates
  <2> HIDE DEF idle
  <2> QED BY <1>1, <2>1, SyncAssumption, LanderMoves DEF Uncommitted
<1>6. /\ attempt'[a].todo = attempt[a].todo \ {v}
      /\ attempt'[a].transcripts = attempt[a].transcripts \cup got
      /\ attempt'[a].pc = "streaming"
      /\ attempt'[a].cursor = attempt[a].cursor /\ attempt'[a].upto = attempt[a].upto
      /\ attempt'[a].aborted = attempt[a].aborted
      /\ \A b \in Attempts \ {a} : attempt'[b] = attempt[b]
  BY <1>1 DEF SyncTypeOK, AttemptStates
<1>7. SyncTypeOK'
  <2> DEFINE t == [attempt[a] EXCEPT !.todo = @ \ {v}, !.transcripts = @ \cup got]
  <2>1. t \in AttemptStates
    <3>1. got \subseteq Versions
      BY <1>4
    <3> HIDE DEF got, v
    <3> QED BY <1>1, <3>1 DEF AttemptStates
  <2>2. attempt' = [attempt EXCEPT ![a] = t]
    BY <1>1 DEF SyncTypeOK
  <2> HIDE DEF t
  <2>3. UNCHANGED <<origin, syncState, sync, extractions>>
    BY <1>1
  <2> QED BY <2>1, <2>2, <2>3 DEF SyncTypeOK
<1>8. CursorSound' /\ AttemptSound(a)'
  <2>1. AttemptSound(a)
    OBVIOUS
  <2> QED BY <1>1, <1>3, <1>4, <1>6, <2>1 DEF CursorSound, AttemptSound, Landed
<1> QED BY <1>1, <1>5, <1>6, <1>7, <1>8, AttemptFrame

(* The other steps of an attempt leave the landings alone. *)
LEMMA SyncInvAttempt ==
  ASSUME SyncInv, NEW a \in Attempts, UNCHANGED <<landVars, sync, extractions>>,
         AttemptReads(a) \/ AttemptMarksRunning(a) \/ AttemptCheckpoints(a)
           \/ AttemptAborts(a) \/ AttemptReturns(a) \/ AttemptErrors(a)
  PROVE  SyncInv'
<1> USE DEF SyncInv
<1>1. LandSound' /\ sources \subseteq sources'
  BY DEF landVars, LandSound, LandTypeOK, LanderSound, OwnsKey, InFlight, Landed, OneRowPerVersion,
     LandedWhole
<1>2. AttemptSound(a) /\ attempt[a] \in AttemptStates /\ attempt \in [Attempts -> AttemptStates]
  BY DEF SyncTypeOK
<1>3. sources' = sources
  BY DEF landVars
<1>4. CASE AttemptReads(a)
  <2> DEFINE cursor == IF sync[a[1]].mode = "incremental" THEN syncState.cursor ELSE 0
  <2>1. /\ attempt[a].pc = "idle" /\ UNCHANGED <<origin, syncState>>
        /\ attempt' = [attempt EXCEPT ![a].pc = "read", ![a].cursor = cursor]
    BY <1>4 DEF AttemptReads
  <2>2. cursor \in 0..MaxVersion /\ \A v \in 1..cursor : Landed(v)
    BY SyncAssumption DEF SyncTypeOK, CursorSound
  <2> HIDE DEF cursor
  <2>3. SyncTypeOK' /\ CursorSound'
    <3>1. SyncTypeOK'
      BY <1>2, <2>1, <2>2 DEF SyncTypeOK, AttemptStates
    <3>2. CursorSound'
      BY <1>3, <2>1 DEF CursorSound, Landed
    <3> QED BY <3>1, <3>2
  <2>4. AttemptSound(a)'
    BY <1>2, <1>3, <2>1, <2>2 DEF AttemptStates, AttemptSound, Landed
  <2> QED BY <1>1, <1>2, <2>1, <2>3, <2>4, AttemptFrame
<1>5. CASE AttemptMarksRunning(a)
  <2> DEFINE todo == {v \in 1..origin : v >= attempt[a].cursor}
  <2>1. /\ attempt[a].pc = "read" /\ UNCHANGED origin
        /\ syncState' = [syncState EXCEPT !.status = "running"]
        /\ attempt' = [attempt EXCEPT ![a].pc = "streaming", ![a].upto = origin, ![a].todo = todo]
    BY <1>5 DEF AttemptMarksRunning
  <2>2. todo \in SUBSET Versions /\ \A v \in 1..origin : v \in todo \/ Landed(v)
    BY <1>2, SyncAssumption DEF SyncTypeOK, AttemptStates, AttemptSound
  <2> HIDE DEF todo
  <2>3. SyncTypeOK'
    BY <1>2, <2>1, <2>2 DEF SyncTypeOK, AttemptStates
  <2>4. AttemptSound(a)' /\ CursorSound'
    BY <1>2, <1>3, <2>1, <2>2 DEF SyncTypeOK, AttemptStates, AttemptSound, CursorSound, Landed
  <2>5. attempt'[a].pc = "streaming"
    BY <1>2, <2>1 DEF AttemptStates
  <2> QED BY <1>1, <1>2, <2>1, <2>3, <2>4, <2>5, AttemptFrame
<1>6. CASE AttemptCheckpoints(a)
  <2>1. PICK c \in Checkpoints(a) :
          /\ attempt' = [attempt EXCEPT ![a].cursor = c]
          /\ syncState' = [syncState EXCEPT !.cursor = c]
    BY <1>6 DEF AttemptCheckpoints
  <2>2. attempt[a].pc = "streaming" /\ ~attempt[a].aborted /\ UNCHANGED origin
    BY <1>6 DEF AttemptCheckpoints, Streaming
  <2>3. c \in 0..MaxVersion /\ \A v \in 1..c : Landed(v)
    BY <1>2, <2>2, SyncAssumption DEF Checkpoints, AttemptSound, AttemptStates
  <2>4. SyncTypeOK' /\ CursorSound'
    BY <1>3, <2>1, <2>2, <2>3, SMTT(30) DEF SyncTypeOK, AttemptStates, CursorSound, Landed
  <2>5. AttemptSound(a)'
    BY <1>2, <1>3, <2>1, <2>3 DEF AttemptStates, AttemptSound, Landed
  <2> QED BY <1>1, <1>2, <2>1, <2>2, <2>4, <2>5, AttemptFrame
<1>7. CASE AttemptAborts(a)
  <2>1. /\ attempt' = [attempt EXCEPT ![a].todo = {}, ![a].aborted = TRUE]
        /\ attempt[a].pc = "streaming" /\ UNCHANGED <<origin, syncState>>
    BY <1>7 DEF AttemptAborts, Streaming
  <2>2. SyncTypeOK' /\ CursorSound' /\ AttemptSound(a)'
    BY <1>2, <1>3, <2>1 DEF SyncTypeOK, AttemptStates, CursorSound, AttemptSound, Landed
  <2> QED BY <1>1, <1>2, <2>1, <2>2, AttemptFrame
<1>8. CASE AttemptReturns(a) \/ AttemptErrors(a)
  <2>1. PICK to \in {"returned", "dead"} :
          /\ attempt' = [attempt EXCEPT ![a].pc = to]
          /\ to = "returned" => attempt[a].todo = {}
    BY <1>8 DEF AttemptReturns, AttemptErrors
  <2>2. /\ attempt[a].pc = "streaming" /\ UNCHANGED origin
        /\ \/ syncState' = [cursor |-> attempt[a].cursor, status |-> "idle"]
           \/ syncState' = [syncState EXCEPT !.status = "error"]
    BY <1>8 DEF AttemptReturns, AttemptErrors, Streaming
  <2>3. /\ attempt[a].cursor \in 0..MaxVersion
        /\ \A v \in 1..attempt[a].cursor : Landed(v)
    BY <1>2 DEF AttemptStates, AttemptSound
  <2>4. SyncTypeOK' /\ CursorSound'
    BY <1>2, <1>3, <2>1, <2>2, <2>3 DEF SyncTypeOK, AttemptStates, CursorSound, Landed
  <2>5. AttemptSound(a)' /\ (attempt'[a].pc = "returned" => attempt'[a].todo = {})
    BY <1>2, <1>3, <2>1 DEF AttemptStates, AttemptSound, Landed
  <2> QED BY <1>1, <1>2, <2>1, <2>2, <2>4, <2>5, AttemptFrame
<1> QED BY <1>4, <1>5, <1>6, <1>7, <1>8

LEMMA SyncInvDies ==
  ASSUME SyncInv, NEW a \in Attempts, AttemptDies(a)
  PROVE  SyncInv'
<1> USE DEF SyncInv
<1>1. /\ attempt[a].pc \in {"read", "streaming"}
      /\ attempt' = [attempt EXCEPT ![a].pc = "dead"]
      /\ UNCHANGED <<sources, acls, graph, origin, syncState, sync, extractions>>
  BY DEF AttemptDies
<1>2. LandSound'
  <2> DEFINE to == IF Ended(a) THEN lander[a].pc ELSE "failed"
             st == [pc |-> to, version |-> lander[a].version]
  <2>1. lander[a] \in LanderStates /\ LanderSound(a) /\ a \in Landers
    BY SyncAssumption DEF LandSound, LandTypeOK
  <2>2. lander' = [lander EXCEPT ![a] = st]
    <3>1. lander' = [lander EXCEPT ![a].pc = to]
      BY DEF AttemptDies
    <3>2. [lander[a] EXCEPT !.pc = to] = st
      <4> HIDE DEF to
      <4> QED BY <2>1 DEF LanderStates
    <3> HIDE DEF to, st
    <3> QED BY <2>1, <3>1, <3>2
  <2>3. /\ st \in LanderStates /\ st.version = lander[a].version
        /\ st.pc = "failed" \/ (st.pc = lander[a].pc /\ Ended(a))
    BY <2>1 DEF LanderStates
  <2> HIDE DEF st
  <2> QED BY <1>1, <2>1, <2>2, <2>3, LanderMoves DEF Uncommitted, LanderSound, Ended
<1>3. SyncTypeOK' /\ CursorSound' /\ AttemptSound(a)'
  <2>1. AttemptSound(a)
    OBVIOUS
  <2> QED BY <1>1, <2>1 DEF SyncTypeOK, AttemptStates, CursorSound, AttemptSound, Landed
<1> QED BY <1>1, <1>2, <1>3, AttemptFrame DEF SyncTypeOK, AttemptStates

-----------------------------------------------------------------------------
(* Two workflows never hold the same transcript: its row names one attempt. *)
LEMMA OneHolder ==
  ASSUME SyncInv, NEW a \in Attempts, NEW b \in Attempts,
         NEW v \in attempt[a].transcripts, v \in attempt[b].transcripts
  PROVE  a = b
<1>1. Row(v, a) \in sources /\ Row(v, b) \in sources
  BY DEF SyncInv, AttemptSound
<1> QED BY <1>1 DEF SyncInv, LandSound, OneRowPerVersion, Row

LEMMA CurrentIsAttempt ==
  ASSUME SyncInv, NEW w \in Syncs, sync[w].phase \in {"sync", "children", "completed"}
  PROVE  Current(w) \in Attempts
BY DEF SyncInv, WorkflowSound, Current, Attempts

(* A step of one workflow; the tables and the attempts stay as they are. *)
LEMMA WorkflowFrame ==
  ASSUME SyncInv, NEW w \in Syncs, UNCHANGED <<landVars, origin, syncState, attempt>>,
         SyncTypeOK', \A x \in Syncs \ {w} : sync'[x] = sync[x],
         WorkflowSound(w)', \A v \in Versions : ExtractionSound(v)',
         \A x \in Syncs \ {w} : \A v \in sync[x].children : extractions'[v] = extractions[v]
  PROVE  SyncInv'
<1> USE DEF SyncInv
<1>1. LandSound' /\ CursorSound' /\ \A a \in Attempts : AttemptSound(a)'
  BY DEF landVars, LandSound, LandTypeOK, LanderSound, OwnsKey, InFlight, Landed, OneRowPerVersion,
     LandedWhole, CursorSound, AttemptSound
<1>2. \A x \in Syncs : WorkflowSound(x)'
  BY DEF WorkflowSound, Current
<1> QED BY <1>1, <1>2

LEMMA SyncInvStarts ==
  ASSUME SyncInv, NEW w \in Syncs, NEW mode \in {"incremental", "backfill"}, StartSync(w, mode)
  PROVE  SyncInv'
<1> USE DEF SyncInv
<1>1. /\ sync[w].phase = "none" /\ sync[w] \in SyncStates /\ sync \in [Syncs -> SyncStates]
      /\ sync' = [sync EXCEPT ![w].phase = "sync", ![w].mode = mode, ![w].attempt = 1]
      /\ UNCHANGED <<landVars, origin, syncState, attempt, extractions>>
  BY DEF StartSync, SyncTypeOK
<1>2. SyncTypeOK'
  <2>1. 1 \in 0..SyncAttempts
    BY SyncAssumption
  <2>2. sync' \in [Syncs -> SyncStates]
    BY <1>1, <2>1 DEF SyncStates
  <2> QED BY <1>1, <2>2 DEF SyncTypeOK
<1>3. WorkflowSound(w)'
  <2>1. WorkflowSound(w) /\ sync[w].children = {}
    BY <1>1 DEF WorkflowSound
  <2>2. sync'[w].phase = "sync" /\ sync'[w].attempt = 1 /\ sync'[w].children = {}
    BY <1>1, <2>1 DEF SyncStates
  <2> QED BY <2>2, SyncAssumption DEF WorkflowSound
<1>4. \A v \in Versions : ExtractionSound(v)'
  BY <1>1 DEF ExtractionSound, Current
<1> QED BY <1>1, <1>2, <1>3, <1>4, WorkflowFrame

LEMMA SyncInvRetries ==
  ASSUME SyncInv, NEW w \in Syncs, SyncRetries(w)
  PROVE  SyncInv'
<1> USE DEF SyncInv
<1>1. /\ sync[w].phase = "sync" /\ sync[w] \in SyncStates /\ sync \in [Syncs -> SyncStates]
      /\ WorkflowSound(w)
      /\ UNCHANGED <<landVars, origin, syncState, attempt, extractions>>
  BY DEF SyncRetries, SyncTypeOK
<1>2. /\ SyncTypeOK' /\ \A x \in Syncs \ {w} : sync'[x] = sync[x]
      /\ sync'[w].phase \in {"sync", "failed"} /\ sync'[w].children = sync[w].children
      /\ sync'[w].phase = "sync" => sync'[w].attempt \in 1..SyncAttempts
  <2>1. CASE sync[w].attempt < sync[w].tries
    <3>1. sync' = [sync EXCEPT ![w].attempt = sync[w].attempt + 1]
      BY <2>1 DEF SyncRetries
    <3>2. sync[w].attempt + 1 \in 1..SyncAttempts
      BY <1>1, <2>1, SyncAssumption DEF SyncStates
    <3>3. sync'[w] \in SyncStates /\ sync'[w].phase = "sync"
          /\ sync'[w].children = sync[w].children /\ sync'[w].attempt = sync[w].attempt + 1
      BY <1>1, <3>1, <3>2, SyncAssumption DEF SyncStates
    <3>4. sync' \in [Syncs -> SyncStates] /\ \A x \in Syncs \ {w} : sync'[x] = sync[x]
      <4> HIDE DEF SyncStates
      <4> QED BY <1>1, <3>1, <3>3
    <3> QED BY <1>1, <3>2, <3>3, <3>4 DEF SyncTypeOK
  <2>2. CASE ~(sync[w].attempt < sync[w].tries)
    <3>1. sync' = [sync EXCEPT ![w].phase = "failed"]
      BY <2>2 DEF SyncRetries
    <3> QED BY <1>1, <3>1 DEF SyncTypeOK, SyncStates
  <2> QED BY <2>1, <2>2
<1>3. WorkflowSound(w)'
  BY <1>1, <1>2 DEF WorkflowSound
<1>4. \A v \in Versions : ExtractionSound(v)'
  BY <1>1, <1>2 DEF ExtractionSound, Current
<1> QED BY <1>1, <1>2, <1>3, <1>4, WorkflowFrame

(* The answer reaches the workflow: what it holds, no other workflow held. *)
LEMMA SyncInvReturns ==
  ASSUME SyncInv, NEW w \in Syncs, SyncReturns(w)
  PROVE  SyncInv'
<1> USE DEF SyncInv
<1> DEFINE handed == attempt[Current(w)].transcripts
<1>1. /\ sync[w].phase = "sync" /\ sync[w] \in SyncStates /\ sync \in [Syncs -> SyncStates]
      /\ attempt[Current(w)].pc = "returned" /\ Current(w) \in Attempts
      /\ sync' = [sync EXCEPT ![w].phase = "children", ![w].children = handed]
      /\ UNCHANGED <<landVars, origin, syncState, attempt, extractions>>
  BY CurrentIsAttempt DEF SyncReturns, SyncTypeOK, Handed, Current
<1>2. handed \in SUBSET Versions
  BY <1>1 DEF SyncTypeOK, AttemptStates
<1>3. /\ sync'[w].phase = "children" /\ sync'[w].children = handed
      /\ sync'[w].attempt = sync[w].attempt
      /\ \A x \in Syncs \ {w} : sync'[x] = sync[x]
  BY <1>1 DEF SyncStates
<1>4. SyncTypeOK'
  BY <1>1, <1>2 DEF SyncTypeOK, SyncStates
<1>5. \A v \in handed : extractions[v] = 0
  <2> SUFFICES ASSUME NEW v \in handed, extractions[v] # 0 PROVE FALSE
    OBVIOUS
  <2>1. v \in Versions /\ extractions[v] > 0
    BY <1>2 DEF SyncTypeOK
  <2>2. PICK x \in Syncs : /\ sync[x].phase \in {"children", "completed"}
                           /\ v \in attempt[Current(x)].transcripts
    BY <2>1 DEF ExtractionSound
  <2>3. Current(x) = Current(w)
    BY <1>1, <2>2, CurrentIsAttempt, OneHolder
  <2> QED BY <1>1, <2>2, <2>3 DEF Current
<1>6. WorkflowSound(w)'
  <2>1. Current(w)' = Current(w) /\ sync[w].attempt \in 1..SyncAttempts
    BY <1>1, <1>3 DEF Current, WorkflowSound
  <2> QED BY <1>1, <1>3, <1>5, <2>1 DEF WorkflowSound
<1>7. \A v \in Versions : ExtractionSound(v)'
  BY <1>1, <1>3 DEF ExtractionSound, Current
<1> QED BY <1>1, <1>3, <1>4, <1>6, <1>7, WorkflowFrame

LEMMA SyncInvExtraction ==
  ASSUME SyncInv, NEW w \in Syncs, StartExtraction(w)
  PROVE  SyncInv'
<1> USE DEF SyncInv
<1>1. PICK v \in sync[w].children :
        /\ extractions' = [extractions EXCEPT ![v] = @ + 1]
        /\ sync' = [sync EXCEPT ![w].children = @ \ {v}]
  BY DEF StartExtraction
<1>2. /\ sync[w].phase = "children" /\ sync[w] \in SyncStates /\ sync \in [Syncs -> SyncStates]
      /\ WorkflowSound(w) /\ v \in Versions /\ extractions[v] = 0
      /\ v \in attempt[Current(w)].transcripts
      /\ UNCHANGED <<landVars, origin, syncState, attempt>>
  BY <1>1 DEF StartExtraction, SyncTypeOK, SyncStates, WorkflowSound
<1>3. /\ sync'[w].phase = "children" /\ sync'[w].children = sync[w].children \ {v}
      /\ sync'[w].attempt = sync[w].attempt
      /\ \A x \in Syncs \ {w} : sync'[x] = sync[x]
  BY <1>1, <1>2 DEF SyncStates
<1>4. extractions'[v] = 1 /\ \A u \in Versions \ {v} : extractions'[u] = extractions[u]
  BY <1>1, <1>2 DEF SyncTypeOK
<1>5. SyncTypeOK'
  BY <1>1, <1>2 DEF SyncTypeOK, SyncStates
<1>6. \A x \in Syncs : Current(x)' = Current(x)
  BY <1>3 DEF Current
<1>7. WorkflowSound(w)'
  <2>1. sync[w].children \subseteq Versions
    BY <1>2 DEF SyncStates
  <2> QED BY <1>2, <1>3, <1>4, <1>6, <2>1 DEF WorkflowSound
<1>8. \A u \in Versions : ExtractionSound(u)'
  <2> TAKE u \in Versions
  <2>1. CASE u = v
    BY <1>2, <1>3, <1>4, <1>6, <2>1 DEF ExtractionSound
  <2>2. CASE u # v
    <3>1. ExtractionSound(u) /\ extractions'[u] = extractions[u]
      BY <1>4, <2>2
    <3>2. \A x \in Syncs : sync'[x].phase = sync[x].phase
      BY <1>2, <1>3
    <3> QED BY <1>2, <1>6, <3>1, <3>2 DEF ExtractionSound
  <2> QED BY <2>1, <2>2
<1>9. ASSUME NEW x \in Syncs \ {w}, NEW u \in sync[x].children
      PROVE  extractions'[u] = extractions[u]
  <2>1. u \in Versions /\ sync[x].phase = "children" /\ u \in attempt[Current(x)].transcripts
    BY <1>9 DEF SyncTypeOK, SyncStates, WorkflowSound
  <2>2. u = v => Current(x) = Current(w)
    BY <1>2, <2>1, CurrentIsAttempt, OneHolder
  <2>3. u # v
    BY <1>9, <2>2 DEF Current
  <2> QED BY <1>4, <2>1, <2>3
<1> QED BY <1>2, <1>3, <1>5, <1>7, <1>8, <1>9, WorkflowFrame

LEMMA SyncInvCompletes ==
  ASSUME SyncInv, NEW w \in Syncs, SyncCompletes(w)
  PROVE  SyncInv'
<1> USE DEF SyncInv
<1>1. /\ sync[w].phase = "children" /\ sync[w].children = {}
      /\ sync[w] \in SyncStates /\ sync \in [Syncs -> SyncStates] /\ WorkflowSound(w)
      /\ sync' = [sync EXCEPT ![w].phase = "completed"]
      /\ UNCHANGED <<landVars, origin, syncState, attempt, extractions>>
  BY DEF SyncCompletes, SyncTypeOK
<1>2. /\ sync'[w].phase = "completed" /\ sync'[w].children = {}
      /\ sync'[w].attempt = sync[w].attempt
      /\ \A x \in Syncs \ {w} : sync'[x] = sync[x]
  BY <1>1 DEF SyncStates
<1>3. SyncTypeOK'
  BY <1>1 DEF SyncTypeOK, SyncStates
<1>4. WorkflowSound(w)'
  BY <1>1, <1>2 DEF WorkflowSound, Current
<1>5. \A v \in Versions : ExtractionSound(v)'
  BY <1>1, <1>2 DEF ExtractionSound, Current
<1> QED BY <1>1, <1>2, <1>3, <1>4, <1>5, WorkflowFrame

-----------------------------------------------------------------------------
LEMMA SyncInvNext ==
  ASSUME SyncInv, [Next]_vars
  PROVE  SyncInv'
<1>1. CASE OriginChanges \/ UNCHANGED vars
  <2>1. UNCHANGED <<landVars, syncState, sync, attempt, extractions>>
    BY <1>1 DEF OriginChanges, vars, syncVars
  <2>2. origin' \in 0..MaxVersion
    BY <1>1, SyncAssumption DEF OriginChanges, vars, syncVars, SyncInv, SyncTypeOK
  <2>3. LandSound' /\ CursorSound' /\ \A a \in Attempts : AttemptSound(a)'
    BY <2>1 DEF SyncInv, landVars, LandSound, LandTypeOK, LanderSound, OwnsKey, InFlight, Landed,
       OneRowPerVersion, LandedWhole, CursorSound, AttemptSound
  <2>4. SyncTypeOK' /\ (\A w \in Syncs : WorkflowSound(w)')
        /\ (\A v \in Versions : ExtractionSound(v)')
    BY <2>1, <2>2 DEF SyncInv, SyncTypeOK, WorkflowSound, ExtractionSound, Current
  <2> QED BY <2>1, <2>3, <2>4 DEF SyncInv
<1>2. ASSUME NEW a \in Attempts, AttemptStep(a) PROVE SyncInv'
  <2>1. CASE AttemptIngests(a) \/ AttemptLands(a)
    BY <2>1, SyncInvLanding
  <2>2. CASE AttemptCollects(a) \/ AttemptDies(a)
    BY <2>2, SyncInvCollects, SyncInvDies
  <2>3. CASE AttemptReads(a) \/ AttemptMarksRunning(a) \/ AttemptCheckpoints(a)
               \/ AttemptAborts(a) \/ AttemptReturns(a) \/ AttemptErrors(a)
    <3>1. UNCHANGED <<landVars, sync, extractions>>
      BY <2>3 DEF AttemptReads, AttemptMarksRunning, AttemptCheckpoints, AttemptAborts,
         AttemptReturns, AttemptErrors
    <3> QED BY <2>3, <3>1, SyncInvAttempt
  <2> QED BY <1>2, <2>1, <2>2, <2>3 DEF AttemptStep
<1>3. ASSUME NEW w \in Syncs, WorkflowProgress(w) \/ SyncRetries(w) PROVE SyncInv'
  BY <1>3, SyncInvReturns, SyncInvExtraction, SyncInvCompletes, SyncInvRetries DEF WorkflowProgress
<1>4. CASE Quiescent
  BY <1>1, <1>4 DEF Quiescent
<1> QED BY <1>1, <1>2, <1>3, <1>4, SyncInvStarts DEF Next

(* The inductive invariant of the sync workflow and its activity, for any number
   of overlapping syncs, retried attempts and versions. *)
THEOREM SyncInvariant == Spec => []SyncInv
<1>1. SyncInv /\ [Next]_vars => SyncInv'
  BY SyncInvNext
<1> QED BY SyncInvInit, <1>1, PTL DEF Spec

(* The cursor row, the attempts and the workflows keep their types. *)
THEOREM SyncTypeCorrect == Spec => []TypeOK
<1>1. SyncInv => TypeOK
  BY DEF SyncInv, LandSound, SyncTypeOK, SyncStates, AttemptStates, TypeOK
<1> QED BY SyncInvariant, <1>1, PTL

(* runConnectorSyncActivity: whatever attempt last wrote the cursor, every
   version it stands for is a committed source. *)
THEOREM CursorStaysSound == Spec => []CursorSound
<1>1. SyncInv => CursorSound
  BY DEF SyncInv
<1> QED BY SyncInvariant, <1>1, PTL

(* connectorSyncWorkflow: no two workflows, and no retry, start the extraction of
   one source twice, and what is extracted is a committed transcript. *)
THEOREM TranscriptExtractedOnce == Spec => []ExtractedAtMostOnce
<1>1. SyncInv => ExtractedAtMostOnce
  <2> SUFFICES ASSUME SyncInv, NEW v \in Versions, extractions[v] > 0
               PROVE  Landed(v) /\ v \in Transcripts
    BY DEF SyncInv, ExtractionSound, ExtractedAtMostOnce
  <2>1. PICK w \in Syncs : /\ sync[w].phase \in {"children", "completed"}
                           /\ v \in attempt[Current(w)].transcripts
    BY DEF SyncInv, ExtractionSound
  <2>2. v \in Transcripts /\ Row(v, Current(w)) \in sources
    BY <2>1, CurrentIsAttempt DEF SyncInv, AttemptSound
  <2> QED BY <2>2 DEF Landed, Row
<1> QED BY SyncInvariant, <1>1, PTL

(* A sync that was not cut short has landed all there was at the origin when it
   listed it. *)
THEOREM CompletedSyncLandedAll == Spec => []CompletedMeansLanded
<1>1. SyncInv => CompletedMeansLanded
  <2> SUFFICES ASSUME SyncInv, NEW w \in Syncs,
                      sync[w].phase \in {"children", "completed"},
                      ~attempt[Current(w)].aborted
               PROVE  \A v \in 1..attempt[Current(w)].upto : Landed(v)
    BY DEF CompletedMeansLanded, Current
  <2>1. AttemptSound(Current(w)) /\ attempt[Current(w)].todo = {}
    BY CurrentIsAttempt DEF SyncInv, WorkflowSound
  <2> QED BY <2>1 DEF AttemptSound
<1> QED BY SyncInvariant, <1>1, PTL

(* Landing keeps its promises inside the sync, where a lander serves one artifact
   after another and dies with its attempt: one row per version, never half an
   artifact, and "already there" only when it is. *)
THEOREM SyncLandsSoundly ==
  Spec => [](OneRowPerVersion /\ LandedWhole /\ DuplicateMeansLanded)
<1>1. SyncInv => OneRowPerVersion /\ LandedWhole /\ DuplicateMeansLanded
  BY DEF SyncInv, LandSound, LanderSound, DuplicateMeansLanded
<1> QED BY SyncInvariant, <1>1, PTL

(* A committed row is never taken away or rewritten. *)
THEOREM RowsOnlyGrow == Spec => [][sources \subseteq sources']_vars
<1>1. SyncInv /\ [Next]_vars => [sources \subseteq sources']_vars
  <2> SUFFICES ASSUME SyncInv, Next PROVE sources \subseteq sources'
    OBVIOUS
  <2>1. ASSUME NEW a \in Attempts, AttemptLands(a) \/ AttemptIngests(a)
        PROVE  sources \subseteq sources'
    <3>1. attempt[a].todo \subseteq Versions
      BY DEF SyncInv, SyncTypeOK, AttemptStates
    <3> QED BY <2>1, <3>1, LandingStep, SyncAssumption DEF SyncInv, AttemptLands, AttemptIngests
  <2>2. ASSUME NEW a \in Attempts, AttemptStep(a), ~AttemptLands(a), ~AttemptIngests(a)
        PROVE  sources' = sources
    BY <2>2 DEF AttemptStep, AttemptReads, AttemptMarksRunning, AttemptCollects, AttemptCheckpoints,
       AttemptAborts, AttemptReturns, AttemptErrors, AttemptDies, landVars
  <2>3. ASSUME NEW w \in Syncs, WorkflowProgress(w) \/ SyncRetries(w) PROVE sources' = sources
    BY <2>3 DEF WorkflowProgress, SyncReturns, StartExtraction, SyncCompletes, SyncRetries, landVars
  <2>4. CASE OriginChanges \/ Quiescent \/ UNCHANGED vars
    BY <2>4 DEF OriginChanges, Quiescent, vars, landVars
  <2> QED BY <2>1, <2>2, <2>3, <2>4 DEF Next, StartSync, landVars
<1> QED BY SyncInvariant, <1>1, PTL DEF Spec
=============================================================================
