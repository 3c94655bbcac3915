--------------------------- MODULE SourceLanding ---------------------------
(***************************************************************************)
(* Landing one artifact version of an origin system as a `sources` row:    *)
(* a cheap look outside any transaction, the connector's ACL fetch, then   *)
(* one engagement transaction that looks again, inserts the row under the  *)
(* unique key (engagement, connector, external id, content hash), writes   *)
(* and links its ACL snapshot and writes its graph records.  The same      *)
(* discipline twice: ingestArtifact (sync activity) and                    *)
(* landConnectorArtifactWithGraph (webhook receiver).                      *)
(*                                                                         *)
(* READ COMMITTED: a SELECT sees committed rows only; an INSERT that meets *)
(* an uncommitted row of the same key waits for that transaction to end.   *)
(***************************************************************************)
EXTENDS Naturals

CONSTANTS Landers,      \* calls of ingestArtifact / landConnectorArtifactWithGraph
          Versions,     \* (external id, content hash) pairs an origin can emit
          None

ASSUME LandingAssumption == None \notin Versions

VARIABLES sources,      \* committed rows, [version, by]
          acls,         \* committed acl_snapshots rows, by the source they link
          graph,        \* sources whose graph records are committed
          lander        \* [Landers -> [pc, version]]

landVars == <<sources, acls, graph, lander>>

Row(v, l) == [version |-> v, by |-> l]

Rows == [version : Versions, by : Landers]

Landed(v) == \E row \in sources : row.version = v

(* The row of l is in the table but not committed. *)
InFlight(l) == lander[l].pc \in {"inserted", "linked", "attested"}

Ended(l) == lander[l].pc \in {"landed", "duplicate", "failed"}

Moves(l, from, to) ==
  /\ lander[l].pc = from
  /\ lander' = [lander EXCEPT ![l] = [pc |-> to, version |-> lander[l].version]]

LandInit ==
  /\ sources = {} /\ acls = {} /\ graph = {}
  /\ lander = [l \in Landers |-> [pc |-> "idle", version |-> None]]

-----------------------------------------------------------------------------
(* A sync stream or a webhook delivery hands over an artifact. *)
LandBegin(l, v) ==
  /\ lander[l].pc = "idle"
  /\ lander' = [lander EXCEPT ![l] = [pc |-> "asked", version |-> v]]
  /\ UNCHANGED <<sources, acls, graph>>

(* findExistingSourceId, in a transaction of its own. *)
PreCheck(l) ==
  /\ \/ Landed(lander[l].version) /\ Moves(l, "asked", "duplicate")
     \/ ~Landed(lander[l].version) /\ Moves(l, "asked", "resolving")
  /\ UNCHANGED <<sources, acls, graph>>

(* resolveAcl returned; the engagement transaction is open.  (The webhook
   receiver resolves the ACL before the look; neither step writes.) *)
OpenTransaction(l) ==
  /\ Moves(l, "resolving", "open")
  /\ UNCHANGED <<sources, acls, graph>>

Recheck(l) ==
  /\ \/ Landed(lander[l].version) /\ Moves(l, "open", "duplicate")
     \/ ~Landed(lander[l].version) /\ Moves(l, "open", "checked")
  /\ UNCHANGED <<sources, acls, graph>>

(* INSERT ... ON CONFLICT DO NOTHING: waits for an uncommitted row of the same
   key, then either conflicts or inserts. *)
NoUncommittedRival(l) ==
  \A other \in Landers :
    ~(InFlight(other) /\ lander[other].version = lander[l].version)

MutInsertUnchecked(l) ==
  /\ NoUncommittedRival(l)
  /\ Moves(l, "checked", "inserted")
  /\ UNCHANGED <<sources, acls, graph>>
InsertSource(l) ==
  /\ NoUncommittedRival(l)
  /\ \/ Landed(lander[l].version) /\ Moves(l, "checked", "duplicate")
     \/ ~Landed(lander[l].version) /\ Moves(l, "checked", "inserted")
  /\ UNCHANGED <<sources, acls, graph>>

LinkAcl(l) ==
  /\ Moves(l, "inserted", "linked")
  /\ UNCHANGED <<sources, acls, graph>>

WriteGraph(l) ==
  /\ Moves(l, "linked", "attested")
  /\ UNCHANGED <<sources, acls, graph>>

(* Row, snapshot, link and graph records become visible together. *)
LandCommit(l) ==
  /\ Moves(l, "attested", "landed")
  /\ sources' = sources \cup {Row(lander[l].version, l)}
  /\ acls' = acls \cup {Row(lander[l].version, l)}
  /\ graph' = graph \cup {Row(lander[l].version, l)}

(* A connector, KMS or database error, a shredded engagement, or a crash: an
   open transaction rolls back. *)
LandFails(l) ==
  /\ ~Ended(l) /\ lander[l].pc # "idle"
  /\ lander' = [lander EXCEPT ![l] = [pc |-> "failed", version |-> lander[l].version]]
  /\ UNCHANGED <<sources, acls, graph>>

LandProgress(l) ==
  \/ PreCheck(l)
  \/ OpenTransaction(l)
  \/ Recheck(l)
  \/ InsertSource(l)
  \/ LinkAcl(l)
  \/ WriteGraph(l)
  \/ LandCommit(l)

LandAllEnded == (\A l \in Landers : Ended(l)) /\ UNCHANGED landVars

LandNext ==
  \/ \E l \in Landers, v \in Versions : LandBegin(l, v)
  \/ \E l \in Landers : LandProgress(l) \/ LandFails(l)
  \/ LandAllEnded

LandSpec == LandInit /\ [][LandNext]_landVars

-----------------------------------------------------------------------------
LanderStates ==
  [pc : {"idle", "asked", "resolving", "open", "checked", "inserted", "linked",
         "attested", "landed", "duplicate", "failed"},
   version : Versions \cup {None}]

LandTypeOK ==
  /\ sources \subseteq Rows
  /\ acls \subseteq Rows
  /\ graph \subseteq Rows
  /\ lander \in [Landers -> LanderStates]

(* However syncs and redelivered webhooks race, a version has one row. *)
OneRowPerVersion ==
  \A r, q \in sources : r.version = q.version => r = q

(* Every source has its own ACL snapshot and its graph records, and there is no
   snapshot or graph record without its source: no crash or lost race leaves
   half an artifact. *)
LandedWhole == acls = sources /\ graph = sources

(* A call that reports "already there" is right: the row is committed, it did
   not stand aside for a transaction that then rolled back. *)
DuplicateMeansLanded ==
  \A l \in Landers : lander[l].pc = "duplicate" => Landed(lander[l].version)

(* Exactly the caller that reports "inserted" owns the row, and with it the
   hand-off to extraction. *)
WinnerOwnsRow ==
  \A l \in Landers :
    lander[l].pc = "landed" <=> Row(lander[l].version, l) \in sources

(* What landConnectorArtifactTx answers, "inserted" or not, is true when the
   caller acts on it. *)
AnswersTrue == DuplicateMeansLanded /\ WinnerOwnsRow
=============================================================================
