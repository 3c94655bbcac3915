------------------------ MODULE AdministrationProofs ------------------------
(***************************************************************************)
(* What tenant administrators and users rely on, for every set of them:    *)
(* break-glass grants take two people and are audited (BreakGlass), pages  *)
(* of the audit log lose a row only to a rounded clock (AccessPages), the  *)
(* schedule follows the configuration (ConnectorAdmin), a deprovisioned    *)
(* person stays out (Access), pushes land whole and the panel shows the    *)
(* rows (CustomIntegrations, IntegrationsPanel).                           *)
(***************************************************************************)
EXTENDS AccessPages, Access, ConnectorAdmin, IntegrationsPanel, FiniteOrders

-----------------------------------------------------------------------------
(* Break-glass grants and the pages of the audit log.  What the audit and the  *)
(* second-person rule say of committed rows follows from what a transaction    *)
(* knows while it holds the row lock: the row it read is the row it writes.    *)

(* A call that has begun names a grant that exists; the holder of the lock is
   alone, and what it checked still holds of the row. *)
CallInv(c) ==
  /\ tx[c].pc # "idle" /\ c.kind # "request" => Requested(c.grant)
  /\ Holds(c) => c.kind # "request"
  /\ Holds(c) /\ c.kind = "approve" => tx[c].seen = grants[c.grant]
  /\ tx[c].pc = "written" /\ c.kind = "approve" => SecondPerson(c) /\ Pending(c)
  /\ tx[c].pc = "written" /\ c.kind = "revoke" => ~grants[c.grant].revoked
  /\ Holds(c) => RowFree(c)

LockInv == \A c \in Calls : CallInv(c)

(* Only a requested grant is approved, revoked or written about. *)
RowInv ==
  /\ \A g \in Grants : Approved(g) \/ grants[g].revoked => Requested(g)
  /\ \A r \in log : r.action = "request" => Requested(r.grant)

GrantInv == GrantTypeOK /\ LockInv /\ RowInv /\ NeverSelfApproved /\ ChangesAuditedOnce

-----------------------------------------------------------------------------
LEMMA CallFacts ==
  ASSUME NEW c \in Calls
  PROVE  c.id \in Nat /\ c.kind \in Kinds /\ c.grant \in Grants /\ c.user \in Users
         /\ c.user # None
  BY BreakGlassAssumption

(* The initial states. *)
LEMMA InitInv == GrantInit => GrantInv
  <1> SUFFICES ASSUME GrantInit PROVE GrantInv
    OBVIOUS
  <1>1. GrantTypeOK
    BY BreakGlassAssumption DEF GrantInit, GrantTypeOK, GrantRow, Absent
  <1>2. LockInv
    BY DEF GrantInit, LockInv, CallInv, Holds
  <1>3. RowInv /\ NeverSelfApproved /\ ChangesAuditedOnce
    BY DEF GrantInit, RowInv, NeverSelfApproved, ChangesAuditedOnce, Approved, Absent
  <1> QED
    BY <1>1, <1>2, <1>3 DEF GrantInv

(* Types: every action stays inside them. *)
LEMMA TypeStep == GrantTypeOK /\ [GrantNext]_grantVars => GrantTypeOK'
  <1> SUFFICES ASSUME GrantTypeOK, [GrantNext]_grantVars PROVE GrantTypeOK'
    OBVIOUS
  <1> USE BreakGlassAssumption DEF GrantTypeOK
  <1>1. CASE UNCHANGED grantVars
    BY <1>1 DEF grantVars
  <1>2. CASE ClockTicks
    BY <1>2 DEF ClockTicks
  <1>3. ASSUME NEW c \in Calls, CallStep(c) PROVE GrantTypeOK'
    <2> DEFINE Tx == [pc : {"idle", "open", "locked", "written", "over"},
                      at : 0..MaxClock, seen : GrantRow]
    <2>0. tx[c] \in Tx /\ c.grant \in Grants /\ c.user \in Users /\ c.id \in Nat
          /\ c.kind \in Kinds
      BY CallFacts
    <2>m. ASSUME NEW pc \in {"over", "written"}, MovesTo(c, pc)
          PROVE tx' \in [Calls -> Tx]
      BY <2>m, <2>0 DEF MovesTo
    <2>a. Absent \in GrantRow
      BY DEF Absent, GrantRow
    <2>l. LogRow(c) \in [id : Nat, action : Kinds, grant : Grants,
                         by : Users, at : 0..MaxClock]
      BY <2>0 DEF LogRow
    <2>1. CASE Begins(c)
      BY <2>1, <2>0, <2>a DEF Begins
    <2>2. CASE Request(c)
      <3>1. tx' \in [Calls -> Tx]
        BY <2>2, <2>m DEF Request
      <3>2. grants' \in [Grants -> GrantRow]
        BY <2>2, <2>0 DEF Request, GrantRow
      <3> QED
        BY <2>2, <2>l, <3>1, <3>2 DEF Request
    <2>3. CASE ApproveReads(c)
      BY <2>3, <2>0 DEF ApproveReads
    <2>4. CASE ApproveRefuses(c)
      BY <2>4, <2>m DEF ApproveRefuses
    <2>5. CASE ApproveSkips(c)
      BY <2>5, <2>m DEF ApproveSkips
    <2>6. CASE ApproveUpdates(c)
      BY <2>6, <2>m DEF ApproveUpdates
    <2>7. CASE ApproveCommits(c)
      <3>1. tx' \in [Calls -> Tx]
        BY <2>7, <2>m DEF ApproveCommits
      <3>2. grants[c.grant] \in GrantRow /\ ExpiresAt \in 0..(MaxClock + TtlMinutes)
        BY <2>0 DEF ExpiresAt
      <3>3. grants' \in [Grants -> GrantRow]
        BY <2>7, <2>0, <3>2 DEF ApproveCommits, GrantRow
      <3> QED
        BY <2>7, <2>l, <3>1, <3>3 DEF ApproveCommits
    <2>8. CASE RevokeUpdates(c)
      BY <2>8, <2>m DEF RevokeUpdates
    <2>9. CASE RevokeCommits(c)
      <3>1. tx' \in [Calls -> Tx]
        BY <2>9, <2>m DEF RevokeCommits
      <3>2. grants[c.grant] \in GrantRow
        BY <2>0
      <3>3. grants' \in [Grants -> GrantRow]
        BY <2>9, <2>0, <3>2 DEF RevokeCommits, GrantRow
      <3> QED
        BY <2>9, <2>l, <3>1, <3>3 DEF RevokeCommits
    <2>10. CASE CallFails(c)
      BY <2>10, <2>m DEF CallFails
    <2> QED
      BY <1>3, <2>1, <2>2, <2>3, <2>4, <2>5, <2>6, <2>7, <2>8, <2>9, <2>10 DEF CallStep
  <1> QED
    BY <1>1, <1>2, <1>3 DEF GrantNext

(* What one call does to its own transaction and to its grant. *)
LEMMA OthersKept ==
  ASSUME GrantTypeOK, NEW c \in Calls, CallStep(c)
  PROVE  /\ \A d \in Calls \ {c} : tx'[d] = tx[d]
         /\ \A g \in Grants : g # c.grant => grants'[g] = grants[g]
  BY DEF GrantTypeOK, CallStep, Begins, Request, ApproveReads, ApproveRefuses, ApproveSkips,
         ApproveUpdates, ApproveCommits, RevokeUpdates, RevokeCommits, CallFails, MovesTo

(* A requested grant stays requested. *)
LEMMA RequestedKept ==
  ASSUME GrantTypeOK, NEW c \in Calls, CallStep(c), NEW g \in Grants, Requested(g)
  PROVE  Requested(g)'
  BY CallFacts DEF GrantTypeOK, Requested, CallStep, Begins, Request, ApproveReads,
         ApproveRefuses, ApproveSkips, ApproveUpdates, ApproveCommits, RevokeUpdates,
         RevokeCommits, CallFails, MovesTo

(* The lock: a transaction that holds it keeps what it knows, because no other
   transaction of the grant can write; one that takes it learns the row. *)
LEMMA LockStep ==
  ASSUME GrantInv, NEW c \in Calls, CallStep(c)
  PROVE  LockInv'
  <1> USE CallFacts DEF GrantInv
  <1>1. ASSUME NEW d \in Calls, d # c
        PROVE  CallInv(d)'
    <2>1. tx'[d] = tx[d] /\ Holds(d)' = Holds(d)
      BY <1>1, OthersKept DEF Holds
    <2>2. CallInv(d) /\ CallInv(c)
      BY DEF LockInv
    <2>3. (tx[d].pc # "idle" /\ d.kind # "request" => Requested(d.grant))'
      BY <2>1, <2>2, RequestedKept DEF CallInv
    <2>4. Holds(d) => grants'[d.grant] = grants[d.grant] /\ ~(d.grant = c.grant /\ Holds(c)')
      <3>1. CASE d.grant # c.grant
        BY <3>1, OthersKept
      <3>2. CASE d.grant = c.grant /\ Holds(d)
        <4>1. ~RowFree(c) /\ ~Holds(c)
          BY <3>2, <1>1, <2>2 DEF RowFree, CallInv
        <4>2. Requested(c.grant)
          BY <3>2, <2>2 DEF CallInv, Holds
        <4> QED
          BY <4>1, <4>2, <3>2 DEF CallStep, Begins, Request, ApproveReads, ApproveRefuses,
             ApproveSkips, ApproveUpdates, ApproveCommits, RevokeUpdates, RevokeCommits,
             CallFails, MovesTo, Holds, GrantTypeOK
      <3> QED
        BY <3>1, <3>2
    <2>5. (Holds(d) => d.kind # "request")' /\ (Holds(d) /\ d.kind = "approve" => tx[d].seen = grants[d.grant])'
      BY <2>1, <2>2, <2>4 DEF CallInv
    <2>6. (tx[d].pc = "written" /\ d.kind = "approve" => SecondPerson(d) /\ Pending(d))'
      BY <2>1, <2>2 DEF CallInv, SecondPerson, Pending
    <2>7. (tx[d].pc = "written" /\ d.kind = "revoke" => ~grants[d.grant].revoked)'
      BY <2>1, <2>2, <2>4 DEF CallInv, Holds
    <2>8. (Holds(d) => RowFree(d))'
      <3> SUFFICES ASSUME Holds(d), NEW e \in Calls \ {d}, e.grant = d.grant, Holds(e)'
                   PROVE FALSE
        BY <2>1 DEF RowFree
      <3>1. CASE e = c
        BY <3>1, <2>4
      <3>2. CASE e # c
        BY <3>2, <2>2, OthersKept DEF RowFree, CallInv, Holds
      <3> QED
        BY <3>1, <3>2
    <2> QED
      BY <2>3, <2>5, <2>6, <2>7, <2>8 DEF CallInv
  <1>2. CallInv(c)'
    <2>1. CallInv(c)
      BY DEF LockInv
    <2>2. (tx[c].pc # "idle" /\ c.kind # "request" => Requested(c.grant))'
      <3>1. c.kind # "request" => Requested(c.grant)
        BY <2>1 DEF CallInv, CallStep, Begins, Request, ApproveReads, ApproveRefuses,
           ApproveSkips, ApproveUpdates, ApproveCommits, RevokeUpdates, RevokeCommits, CallFails
      <3> QED
        BY <3>1, RequestedKept
    <2>3. Holds(c)' => ApproveReads(c) \/ ApproveUpdates(c) \/ RevokeUpdates(c)
      BY DEF CallStep, Begins, Request, ApproveReads, ApproveRefuses,
         ApproveSkips, ApproveUpdates, ApproveCommits, RevokeUpdates, RevokeCommits, CallFails,
         MovesTo, Holds, GrantTypeOK
    <2>4. (Holds(c) => RowFree(c))'
      <3>1. Holds(c)' => RowFree(c)
        BY <2>3 DEF ApproveReads, ApproveUpdates, RevokeUpdates
      <3> QED
        BY <3>1, OthersKept DEF RowFree, Holds
    <2>5. CASE ApproveReads(c)
      BY <2>2, <2>4, <2>5 DEF ApproveReads, CallInv, Holds, GrantTypeOK
    <2>6. CASE ApproveUpdates(c)
      BY <2>1, <2>2, <2>4, <2>6
         DEF ApproveUpdates, CallInv, Holds, GrantTypeOK, MovesTo, SecondPerson, Pending
    <2>7. CASE RevokeUpdates(c)
      BY <2>2, <2>4, <2>7 DEF RevokeUpdates, CallInv, Holds, GrantTypeOK, MovesTo
    <2>8. CASE ~Holds(c)'
      BY <2>2, <2>4, <2>8 DEF CallInv, Holds
    <2> QED
      BY <2>3, <2>5, <2>6, <2>7, <2>8
  <1> QED
    BY <1>1, <1>2 DEF LockInv

(* The three commits.  A request writes a grant nobody knew; an approval and a
   revocation write the row they hold, once. *)
LEMMA RequestStep ==
  ASSUME GrantInv, NEW c \in Calls, Request(c)
  PROVE  /\ (RowInv /\ NeverSelfApproved /\ ChangesAuditedOnce)'
         /\ ~grants[c.grant].revoked
  <1> DEFINE g == c.grant
  <1>1. g \in Grants /\ ~Requested(g) /\ ~Approved(g) /\ ~grants[g].revoked
    BY CallFacts DEF Request, GrantInv, RowInv
  <1>2. /\ \A h \in Grants : h # g => grants'[h] = grants[h]
        /\ grants'[g] = [requestedBy |-> c.user, approvedBy |-> None,
                         expiresAt |-> 0, revoked |-> FALSE]
        /\ log' = log \cup {LogRow(c)}
        /\ LogRow(c).action = "request" /\ LogRow(c).grant = g
    BY <1>1 DEF Request, GrantInv, GrantTypeOK, LogRow
  <1>3. \A r \in log : r.action = "request" => r.grant # g
    BY <1>1 DEF GrantInv, RowInv
  <1>4. \A r \in log : r.grant \in Grants
    BY DEF GrantInv, GrantTypeOK
  <1>5. \A r \in log : r.action = "approve" => r.grant # g
    BY <1>1 DEF GrantInv, ChangesAuditedOnce
  <1>6. RowInv'
    BY <1>2, <1>4, CallFacts DEF GrantInv, RowInv, Approved, Requested
  <1>7. NeverSelfApproved'
    BY <1>2 DEF GrantInv, NeverSelfApproved, Approved
  <1>8. ChangesAuditedOnce'
    BY <1>1, <1>2, <1>3, <1>4, <1>5 DEF GrantInv, ChangesAuditedOnce, Approved
  <1> QED
    BY <1>1, <1>6, <1>7, <1>8

LEMMA ApproveStep ==
  ASSUME GrantInv, NEW c \in Calls, ApproveCommits(c)
  PROVE  /\ (RowInv /\ NeverSelfApproved /\ ChangesAuditedOnce)'
         /\ ~grants[c.grant].revoked
  <1> DEFINE g == c.grant
  <1>0. c.user # None /\ g \in Grants
    BY CallFacts
  <1>1. /\ ~Approved(g) /\ ~grants[g].revoked /\ Requested(g)
        /\ grants[g].requestedBy # c.user
    BY DEF ApproveCommits, GrantInv, LockInv, CallInv, Holds, SecondPerson, Pending, Approved
  <1>2. /\ \A h \in Grants : h # g => grants'[h] = grants[h]
        /\ grants'[g] = [requestedBy |-> grants[g].requestedBy, approvedBy |-> c.user,
                         expiresAt |-> ExpiresAt, revoked |-> grants[g].revoked]
        /\ log' = log \cup {LogRow(c)}
        /\ LogRow(c).action = "approve" /\ LogRow(c).grant = g /\ LogRow(c).by = c.user
    BY <1>0 DEF ApproveCommits, GrantInv, GrantTypeOK, LogRow
  <1>3. \A r \in log : r.grant \in Grants /\ (r.action = "approve" => r.grant # g)
    BY <1>1 DEF GrantInv, GrantTypeOK, ChangesAuditedOnce
  <1>4. RowInv'
    BY <1>1, <1>2, <1>3 DEF GrantInv, RowInv, Approved, Requested
  <1>5. NeverSelfApproved'
    BY <1>1, <1>2 DEF GrantInv, NeverSelfApproved, Approved
  <1>6. ChangesAuditedOnce'
    BY <1>0, <1>1, <1>2, <1>3 DEF GrantInv, ChangesAuditedOnce, Approved
  <1> QED
    BY <1>1, <1>4, <1>5, <1>6

LEMMA RevokeStep ==
  ASSUME GrantInv, NEW c \in Calls, RevokeCommits(c)
  PROVE  /\ (RowInv /\ NeverSelfApproved /\ ChangesAuditedOnce)'
         /\ ~grants[c.grant].revoked
  <1> DEFINE g == c.grant
  <1>0. g \in Grants
    BY CallFacts
  <1>1. ~grants[g].revoked /\ Requested(g)
    BY DEF RevokeCommits, GrantInv, LockInv, CallInv
  <1>2. /\ \A h \in Grants : h # g => grants'[h] = grants[h]
        /\ grants'[g] = [requestedBy |-> grants[g].requestedBy,
                         approvedBy |-> grants[g].approvedBy,
                         expiresAt |-> grants[g].expiresAt, revoked |-> TRUE]
        /\ log' = log \cup {LogRow(c)}
        /\ LogRow(c).action = "revoke" /\ LogRow(c).grant = g
    BY <1>0 DEF RevokeCommits, GrantInv, GrantTypeOK, LogRow
  <1>3. \A r \in log : r.grant \in Grants /\ (r.action = "revoke" => r.grant # g)
    BY <1>1 DEF GrantInv, GrantTypeOK, ChangesAuditedOnce
  <1>4. RowInv'
    BY <1>1, <1>2, <1>3 DEF GrantInv, RowInv, Approved, Requested
  <1>5. NeverSelfApproved'
    BY <1>2 DEF GrantInv, NeverSelfApproved, Approved
  <1>6. ChangesAuditedOnce'
    BY <1>0, <1>1, <1>2, <1>3 DEF GrantInv, ChangesAuditedOnce, Approved
  <1> QED
    BY <1>1, <1>4, <1>5, <1>6

-----------------------------------------------------------------------------
(* Every step: the invariant is kept, and a revoked row is left alone. *)
LEMMA StepInv ==
  ASSUME GrantInv, [GrantNext]_grantVars
  PROVE  /\ GrantInv'
         /\ \A g \in Grants : grants[g].revoked => grants'[g] = grants[g]
  <1>0. GrantTypeOK'
    BY TypeStep DEF GrantInv
  <1>1. CASE UNCHANGED grantVars
    BY <1>0, <1>1 DEF GrantInv, LockInv, CallInv, Holds, RowFree, SecondPerson, Pending, RowInv,
       NeverSelfApproved, ChangesAuditedOnce, Requested, Approved, grantVars
  <1>2. CASE ClockTicks
    BY <1>0, <1>2 DEF GrantInv, LockInv, CallInv, Holds, RowFree, SecondPerson, Pending, RowInv,
       NeverSelfApproved, ChangesAuditedOnce, Requested, Approved, ClockTicks
  <1>3. ASSUME NEW c \in Calls, CallStep(c)
        PROVE  /\ GrantInv'
               /\ \A g \in Grants : grants[g].revoked => grants'[g] = grants[g]
    <2>1. LockInv'
      BY <1>3, LockStep
    <2>2. CASE Request(c) \/ ApproveCommits(c) \/ RevokeCommits(c)
      <3>1. (RowInv /\ NeverSelfApproved /\ ChangesAuditedOnce)' /\ ~grants[c.grant].revoked
        BY <2>2, RequestStep, ApproveStep, RevokeStep
      <3>2. GrantTypeOK
        BY DEF GrantInv
      <3> QED
        BY <1>0, <1>3, <2>1, <3>1, <3>2, OthersKept DEF GrantInv
    <2>3. CASE ~(Request(c) \/ ApproveCommits(c) \/ RevokeCommits(c))
      <3>1. UNCHANGED <<grants, log>>
        BY <1>3, <2>3 DEF CallStep, Begins, ApproveReads, ApproveRefuses, ApproveSkips,
           ApproveUpdates, RevokeUpdates, CallFails
      <3>2. (RowInv /\ NeverSelfApproved /\ ChangesAuditedOnce)'
        BY <3>1 DEF GrantInv, RowInv, NeverSelfApproved, ChangesAuditedOnce, Requested, Approved
      <3> QED
        BY <1>0, <2>1, <3>1, <3>2 DEF GrantInv
    <2> QED
      BY <2>2, <2>3
  <1> QED
    BY <1>1, <1>2, <1>3 DEF GrantNext

(* The lock invariant and everything that follows from it. *)
THEOREM GrantInvariant == GrantSpec => []GrantInv
  BY InitInv, StepInv, PTL DEF GrantSpec

(* Types of the tables and transactions of approveBreakGlass and its kin. *)
THEOREM GrantTypes == GrantSpec => []GrantTypeOK
  <1>1. GrantInv => GrantTypeOK
    BY DEF GrantInv
  <1> QED
    BY <1>1, GrantInvariant, PTL

(* assertSecondPerson, although it reads the row before the update, keeps
   every approver different from the requester. *)
THEOREM SecondPersonAlways == GrantSpec => []NeverSelfApproved
  <1>1. GrantInv => NeverSelfApproved
    BY DEF GrantInv
  <1> QED
    BY <1>1, GrantInvariant, PTL

(* However many approvals and revocations race, the log has one row for each
   change that happened and none for a change that did not. *)
THEOREM AuditExact == GrantSpec => []ChangesAuditedOnce
  <1>1. GrantInv => ChangesAuditedOnce
    BY DEF GrantInv
  <1> QED
    BY <1>1, GrantInvariant, PTL

(* No approval that had read the grant before its revocation changes it after. *)
THEOREM RevokedStaysRevoked == GrantSpec => RevocationIsFinal
  <1>1. GrantInv /\ [GrantNext]_grantVars
        => [\A g \in Grants : grants[g].revoked => grants'[g] = grants[g]]_grantVars
    BY StepInv
  <1> QED
    BY <1>1, GrantInvariant, PTL DEF GrantSpec, RevocationIsFinal

-----------------------------------------------------------------------------
(* Paging through the log.  The cursor divides it: no row returned lies past it,  *)
(* and every row promised does, was returned, or was lost to its rounding.        *)

RowKeys == [id : Nat, at : Nat]

Table == {Key(r) : r \in log} \cup reads

Lost(r) == \E s \in reader.rows : Newer(s, r) /\ ~Newer(Cursor(s), r)

PageTypes ==
  /\ IsFiniteSet(log) /\ IsFiniteSet(reads) /\ IsFiniteSet(reader.rows)
  /\ reads \subseteq RowKeys
  /\ reader.pages \in Nat /\ reader.open \in BOOLEAN
  /\ reader.rows \subseteq RowKeys /\ reader.promised \subseteq RowKeys
  /\ reader.cursor # <<>> => reader.cursor = <<reader.cursor[1]>> /\ reader.cursor[1] \in RowKeys

Position ==
  /\ reader.pages = 0 => reader.open /\ reader.cursor = <<>> /\ reader.rows = {}
                         /\ reader.promised = {}
  /\ reader.pages # 0 /\ reader.open => reader.cursor # <<>>
  /\ reader.cursor # <<>> => \A r \in reader.rows : ~PastCursor(r)
  /\ reader.promised \subseteq Table

Promise ==
  \A r \in reader.promised \ reader.rows : (reader.open /\ PastCursor(r)) \/ Lost(r)

PagesInv == GrantTypeOK /\ PageTypes /\ Position /\ Promise /\ NoRowTwice

(* Keys are ordered strictly and totally. *)
LEMMA KeysOrdered ==
  /\ \A r \in RowKeys : ~Newer(r, r)
  /\ \A r, s, t \in RowKeys : Newer(r, s) /\ Newer(s, t) => Newer(r, t)
  /\ \A r, s \in RowKeys : r = s \/ Newer(r, s) \/ Newer(s, r)
BY DEF RowKeys, Newer

LEMMA RoundedDown ==
  ASSUME NEW n \in Nat
  PROVE  Precision * (n \div Precision) \in Nat /\ Precision * (n \div Precision) <= n
BY PagesAssumption

(* The cursor is at or before the row it was made of. *)
LEMMA CursorBehind ==
  ASSUME NEW r \in RowKeys
  PROVE  Cursor(r) \in RowKeys /\ Cursor(r).at <= r.at /\ Cursor(r).id = r.id
<1>1. r.at \in Nat /\ r.id \in Nat
  BY DEF RowKeys
<1>2. Precision * (r.at \div Precision) <= r.at /\ Precision * (r.at \div Precision) \in Nat
  BY <1>1, RoundedDown
<1> QED BY <1>1, <1>2 DEF Cursor, RowKeys

(* A page of a finite table: the newest rows, the rest only if there is a next. *)
PageOf(found) == {r \in found : Cardinality({s \in found : Newer(s, r)}) < PageSize}

LEMMA NewestRows ==
  ASSUME NEW found \in SUBSET RowKeys, IsFiniteSet(found), found # {}
  PROVE  /\ PageOf(found) \subseteq found /\ IsFiniteSet(PageOf(found))
         /\ \E last \in PageOf(found) : \A s \in PageOf(found) : s = last \/ Newer(s, last)
         /\ \A r \in found \ PageOf(found), last \in PageOf(found) :
              Cardinality(found) > PageSize /\ Newer(last, r)
<1> DEFINE R == {q \in found \X found : Newer(q[1], q[2])}
<1>1. \A x, y \in found : <<x, y>> \in R <=> Newer(x, y)
  OBVIOUS
<1> HIDE DEF R
<1>2. StrictOrder(R, found) /\ Total(R, found)
  BY <1>1, KeysOrdered DEF StrictOrder, Total
<1>3. PageOf(found) = FirstPage(R, found, PageSize)
  <2>1. \A r \in found : {s \in found : Newer(s, r)} = {s \in found : <<s, r>> \in R}
    BY <1>1
  <2> QED BY <2>1 DEF PageOf, FirstPage
<1>4. FirstPage(R, found, PageSize) \subseteq found
  BY DEF FirstPage
<1>5. /\ IsFiniteSet(FirstPage(R, found, PageSize))
      /\ \E last \in FirstPage(R, found, PageSize) :
           \A x \in FirstPage(R, found, PageSize) : x = last \/ <<x, last>> \in R
      /\ \A x \in found \ FirstPage(R, found, PageSize), p \in FirstPage(R, found, PageSize) :
           Cardinality(found) > PageSize /\ <<p, x>> \in R
  BY <1>2, PageFacts, PagesAssumption
<1> HIDE DEF PageOf, FirstPage
<1> QED BY <1>1, <1>3, <1>4, <1>5

LEMMA PagesInitInv == Init => PagesInv
<1> SUFFICES ASSUME Init PROVE PagesInv
  OBVIOUS
<1>1. log = {} /\ reads = {} /\ GrantTypeOK
  BY InitInv DEF Init, GrantInit, GrantInv
<1>2. reader = [pages |-> 0, cursor |-> <<>>, open |-> TRUE, rows |-> {}, returned |-> 0,
                promised |-> {}]
  BY DEF Init
<1> QED BY <1>1, <1>2, FS_EmptySet DEF PagesInv, PageTypes, Position, Promise, NoRowTwice

LEMMA TableTypes ==
  ASSUME GrantTypeOK, PageTypes
  PROVE  Table \subseteq RowKeys /\ IsFiniteSet(Table)
<1> DEFINE keys == {Key(r) : r \in log}
           f == [r \in log |-> Key(r)]
<1>1. \A r \in log : r.id \in Nat /\ r.at \in Nat
  BY BreakGlassAssumption DEF GrantTypeOK
<1>2. keys \subseteq RowKeys
  BY <1>1 DEF Key, RowKeys
<1>3. f \in Surjection(log, keys)
  BY DEF Surjection
<1>4. IsFiniteSet(keys)
  BY <1>3, FS_Surjection DEF PageTypes
<1> HIDE DEF keys
<1>5. Table = keys \cup reads
  BY DEF Table, keys
<1> QED BY <1>2, <1>4, <1>5, FS_Union DEF PageTypes

(* The calls of break-glass only add rows to the log. *)
LEMMA CallsKeepPages ==
  ASSUME PagesInv, GrantNext, UNCHANGED <<reads, reader>>
  PROVE  PagesInv'
<1>1. GrantTypeOK'
  BY TypeStep DEF PagesInv
<1>2. log' = log \/ \E r : log' = log \cup {r}
  BY DEF GrantNext, ClockTicks, CallStep, Begins, Request, ApproveReads, ApproveRefuses, ApproveSkips,
         ApproveUpdates, ApproveCommits, RevokeUpdates, RevokeCommits, CallFails
<1>3. IsFiniteSet(log') /\ log \subseteq log'
  BY <1>2, FS_AddElement DEF PagesInv, PageTypes
<1>4. Table \subseteq Table'
  BY <1>3 DEF Table, Key
<1> QED BY <1>1, <1>3, <1>4 DEF PagesInv, PageTypes, Position, Promise, NoRowTwice, PastCursor, Lost

(* One page more. *)
LEMMA ReadKeepsPages ==
  ASSUME PagesInv, ReadPage
  PROVE  PagesInv'
<1> DEFINE row == [id |-> ReadIds[reader.pages], at |-> clock]
           reads1 == reads \cup {row}
           table == {Key(r) : r \in log} \cup reads1
           found == {r \in table : PastCursor(r)}
           page == PageOf(found)
           last == CHOOSE r \in page : \A s \in page : s = r \/ Newer(s, r)
           more == Cardinality(found) > PageSize
<1>1. /\ reader.open /\ reader.pages < MaxPages /\ reads' = reads1 /\ UNCHANGED grantVars
      /\ reader' = [pages |-> reader.pages + 1,
                    cursor |-> IF more THEN <<Cursor(last)>> ELSE <<>>,
                    open |-> more,
                    rows |-> reader.rows \cup page,
                    returned |-> reader.returned + Cardinality(page),
                    promised |-> IF reader.pages = 0 THEN table ELSE reader.promised]
  BY DEF ReadPage, PageOf
<1>2. row \in RowKeys
  <2>1. clock \in Nat /\ reader.pages \in 0..MaxPages
    BY <1>1, BreakGlassAssumption, PagesAssumption DEF PagesInv, PageTypes, GrantTypeOK
  <2> QED BY <2>1, PagesAssumption DEF RowKeys
<1> HIDE DEF row
<1>3. reads1 \subseteq RowKeys /\ IsFiniteSet(reads1)
  BY <1>2, FS_AddElement DEF PagesInv, PageTypes
<1>4. GrantTypeOK' /\ UNCHANGED log
  BY <1>1 DEF PagesInv, GrantTypeOK, grantVars
<1>5. Table' = table /\ Table \subseteq table
  BY <1>1, <1>4 DEF Table, Key
<1>6. table \subseteq RowKeys /\ IsFiniteSet(table)
  <2>1. table = Table \cup reads1
    BY DEF Table
  <2> QED BY <1>3, <2>1, TableTypes, FS_Union DEF PagesInv
<1> HIDE DEF reads1, table
<1>7. found \in SUBSET RowKeys /\ IsFiniteSet(found)
  BY <1>6, FS_Subset
<1>8. page \subseteq found /\ IsFiniteSet(page)
  BY <1>7, NewestRows, FS_EmptySet DEF PageOf
<1>9. found # {} => /\ last \in page /\ \A s \in page : s = last \/ Newer(s, last)
                    /\ \A r \in found \ page : more /\ Newer(last, r)
  BY <1>7, NewestRows
<1>10. more => found # {}
  BY FS_EmptySet, PagesAssumption
<1>11. \A r \in found : PastCursor(r)
  OBVIOUS
<1>12. \A r \in table : PastCursor(r) => r \in found
  OBVIOUS
<1> HIDE DEF found, page, last, more
<1>13. more => Cursor(last) \in RowKeys /\ last \in RowKeys
  BY <1>7, <1>8, <1>9, <1>10, CursorBehind
<1>14. PageTypes'
  <2>1. reader'.rows = reader.rows \cup page /\ reader'.pages = reader.pages + 1
        /\ reader'.open = more /\ more \in BOOLEAN
        /\ reader'.cursor = (IF more THEN <<Cursor(last)>> ELSE <<>>)
        /\ reader'.promised = (IF reader.pages = 0 THEN table ELSE reader.promised)
    BY <1>1 DEF more
  <2>2. IsFiniteSet(reader'.rows)
    <3>1. IsFiniteSet(reader.rows)
      BY DEF PagesInv, PageTypes
    <3>2. IsFiniteSet(reader.rows \cup page)
      BY <1>8, <3>1, FS_Union
    <3> QED BY <2>1, <3>2
  <2> QED BY <1>1, <1>3, <1>4, <1>6, <1>7, <1>8, <1>13, <2>1, <2>2 DEF PagesInv, PageTypes
<1>15. page \cap reader.rows = {}
  BY <1>1, <1>8, <1>11 DEF PagesInv, Position
<1>16. NoRowTwice'
  <2>1. Cardinality(reader.rows \cup page) = Cardinality(reader.rows) + Cardinality(page)
    <3>1. IsFiniteSet(reader.rows)
      BY DEF PagesInv, PageTypes
    <3>2. Cardinality(reader.rows) \in Nat /\ Cardinality(page) \in Nat
      BY <1>8, <3>1, FS_CardinalityType
    <3>3. Cardinality(reader.rows \cup page)
            = Cardinality(reader.rows) + Cardinality(page) - Cardinality(reader.rows \cap page)
      BY <1>8, <3>1, FS_Union
    <3>4. Cardinality(reader.rows \cap page) = 0
      BY <1>15, FS_EmptySet
    <3> QED BY <3>2, <3>3, <3>4
  <2> QED BY <1>1, <2>1 DEF PagesInv, NoRowTwice
<1>17. ASSUME more, NEW r \in reader.rows \cup page PROVE ~PastCursor(r)'
  <2>1. r \in RowKeys /\ last \in RowKeys /\ (r = last \/ Newer(r, last))
    <3>1. last \in page /\ PastCursor(last) /\ last \in RowKeys
      BY <1>7, <1>8, <1>9, <1>10, <1>11, <1>17
    <3>2. CASE r \in page
      BY <1>7, <1>8, <1>9, <1>10, <1>17, <3>1, <3>2
    <3>3. CASE r \in reader.rows
      <4>1. reader.cursor # <<>> /\ ~PastCursor(r) /\ reader.cursor[1] \in RowKeys /\ r \in RowKeys
        BY <1>1, <3>3 DEF PagesInv, Position, PageTypes
      <4> QED BY <3>1, <4>1 DEF PastCursor, Newer, RowKeys
    <3> QED BY <3>2, <3>3
  <2>2. Cursor(last) \in RowKeys /\ Cursor(last).at <= last.at /\ Cursor(last).id = last.id
    BY <2>1, CursorBehind
  <2>3. reader'.cursor = <<Cursor(last)>>
    BY <1>1, <1>17
  <2> QED BY <2>1, <2>2, <2>3 DEF PastCursor, Newer, RowKeys
<1>18. Position'
  <2>1. reader'.promised \subseteq Table'
    BY <1>1, <1>5 DEF PagesInv, Position
  <2>2. reader'.pages # 0
    BY <1>1 DEF PagesInv, PageTypes
  <2> QED BY <1>1, <1>17, <2>1, <2>2 DEF Position
<1>19. ASSUME NEW r \in reader'.promised, r \notin reader'.rows
       PROVE  (reader'.open /\ PastCursor(r)') \/ Lost(r)'
  <2>1. reader'.rows = reader.rows \cup page /\ reader'.open = more
    BY <1>1
  <2>2. Lost(r) => Lost(r)'
    BY <2>1 DEF Lost
  <2>3. ~Lost(r) => r \in found \ page
    <3>1. CASE reader.pages = 0
      BY <1>1, <1>12, <1>19, <2>1, <3>1 DEF PagesInv, Position, PastCursor
    <3>2. CASE reader.pages # 0
      <4>1. r \in reader.promised \ reader.rows /\ r \in table
        BY <1>1, <1>5, <1>19, <2>1, <3>2 DEF PagesInv, Position
      <4> QED BY <1>12, <1>19, <2>1, <4>1 DEF PagesInv, Promise
    <3> QED BY <3>1, <3>2
  <2>4. ASSUME r \in found \ page, ~PastCursor(r)' PROVE Lost(r)'
    <3>1. more /\ Newer(last, r) /\ last \in page
      BY <1>9, <2>4
    <3>2. reader'.cursor = <<Cursor(last)>> /\ Cursor(last) \in RowKeys /\ r \in RowKeys
      BY <1>1, <1>7, <1>13, <2>4, <3>1
    <3>3. ~Newer(Cursor(last), r)
      BY <2>4, <3>2 DEF PastCursor, RowKeys, Newer
    <3> QED BY <2>1, <3>1, <3>3 DEF Lost
  <2>5. r \in found \ page => more
    BY <1>9
  <2> QED BY <2>1, <2>2, <2>3, <2>4, <2>5
<1> QED BY <1>4, <1>14, <1>16, <1>18, <1>19 DEF PagesInv, Promise

LEMMA PagesKeep == PagesInv /\ [Next]_vars => PagesInv'
<1>1. PagesInv /\ UNCHANGED vars => PagesInv'
  BY DEF vars, grantVars, PagesInv, GrantTypeOK, PageTypes, Position, Promise, NoRowTwice, PastCursor,
         Lost, Table, Key
<1> QED BY <1>1, CallsKeepPages, ReadKeepsPages DEF Next

(* Where the reader is in the log, and what became of each row it was promised. *)
THEOREM PagesInvariant == Spec => []PagesInv
BY PagesInitInv, PagesKeep, PTL DEF Spec

(* listAccess: however the log grows between the pages and however coarse the cursor,
   no row is returned twice, and those that paging misses lie between a row that was
   shown and its cursor, in the millisecond they were written in. *)
THEOREM PagesLostAreTies == Spec => []PagesLoseOnlyTies
<1>1. PagesInv => NoRowTwice
  BY DEF PagesInv
<1>2. PagesInv => MissedOnlyByRounding
  BY DEF PagesInv, Promise, Lost, MissedOnlyByRounding
<1> QED BY <1>1, <1>2, PagesInvariant, PTL DEF PagesLoseOnlyTies

-----------------------------------------------------------------------------
(* Connector administration.  A PUT holds its row from the upsert on, so that  *)
(* what it read and what it told Temporal is still so when it commits.         *)

PutTypes ==
  [at : {"schedule", "commit"}, engagement : ConnectedTo, row : Rows, fields : SUBSET DOMAIN Defaults]

AdminTypes ==
  /\ configs \in [ConnectedTo -> Rows \cup {Unset}]
  /\ schedules \in [ConnectedTo -> Nat]
  /\ puts \in [Admins -> PutTypes \cup {NoPut}]
  /\ torn \subseteq ConnectedTo

(* The row of a PUT differs from the committed one in the fields it names only;
   its scope is nobody else's; once Temporal was told, it was told of this row. *)
PutInv(a) ==
  LET p == puts[a] e == p.engagement IN
  /\ \A b \in Admins : b # a /\ Writing(b) => puts[b].engagement # e
  /\ \A f \in DOMAIN Defaults \ p.fields : configs[e] # Unset => p.row[f] = configs[e][f]
  /\ p.row.scope # Unset =>
       /\ ~ClaimConflicts(e, p.row)
       /\ \A b \in Admins : b # a /\ Writing(b) => puts[b].row.scope # p.row.scope
  /\ p.at = "commit" => schedules[e] = WantedInterval(p.row)

AdminInv ==
  /\ AdminTypes
  /\ \A a \in Admins : Writing(a) => PutInv(a)
  /\ ScheduleFollowsConfig
  /\ ScopeClaimedOnce

LEMMA PutsAreRecords == NoPut \notin PutTypes /\ NoPut.at = "none"
  BY DEF NoPut, PutTypes

LEMMA UpsertedIsRow ==
  ASSUME NEW row \in Rows \cup {Unset}, NEW patch \in Patches
  PROVE  /\ Upserted(row, patch) \in Rows
         /\ DOMAIN patch \subseteq DOMAIN Defaults
         /\ \A f \in DOMAIN Defaults \ DOMAIN patch : row # Unset => Upserted(row, patch)[f] = row[f]
<1>1. DOMAIN Defaults = {"enabled", "credential", "poll", "scope"} /\ Defaults \in Rows
  BY AdminAssumption DEF Defaults, Rows
<1>2. /\ DOMAIN patch \subseteq DOMAIN Defaults
      /\ "enabled" \in DOMAIN patch => patch["enabled"] \in BOOLEAN
      /\ "credential" \in DOMAIN patch => patch["credential"] \in BOOLEAN
      /\ "poll" \in DOMAIN patch => patch["poll"] \in Intervals
      /\ "scope" \in DOMAIN patch => patch["scope"] \in Scopes \cup {Unset}
  <2>1. CASE \E b \in BOOLEAN : patch = [enabled |-> b]
    <3> PICK b \in BOOLEAN : patch = [enabled |-> b]
      BY <2>1
    <3>1. DOMAIN patch = {"enabled"} /\ patch["enabled"] = b
      OBVIOUS
    <3> QED BY <1>1, <3>1
  <2>2. CASE patch = [credential |-> TRUE]
    BY <1>1, <2>2
  <2>3. CASE \E n \in Intervals : patch = [poll |-> n]
    <3> PICK n \in Intervals : patch = [poll |-> n]
      BY <2>3
    <3>1. DOMAIN patch = {"poll"} /\ patch["poll"] = n
      OBVIOUS
    <3> QED BY <1>1, <3>1
  <2>4. CASE \E s \in Scopes \cup {Unset} : patch = [scope |-> s]
    <3> PICK s \in Scopes \cup {Unset} : patch = [scope |-> s]
      BY <2>4
    <3>1. DOMAIN patch = {"scope"} /\ patch["scope"] = s
      OBVIOUS
    <3> QED BY <1>1, <3>1
  <2>5. CASE \E n \in Intervals : patch = [enabled |-> TRUE, credential |-> TRUE, poll |-> n]
    <3> PICK n \in Intervals : patch = [enabled |-> TRUE, credential |-> TRUE, poll |-> n]
      BY <2>5
    <3>1. /\ DOMAIN patch = {"enabled", "credential", "poll"}
          /\ patch["enabled"] = TRUE /\ patch["credential"] = TRUE /\ patch["poll"] = n
      OBVIOUS
    <3> QED BY <1>1, <3>1
  <2> QED BY <2>1, <2>2, <2>3, <2>4, <2>5 DEF Patches, CardPatches
<1> DEFINE base == IF row = Unset THEN Defaults ELSE row
           value(f) == IF f \in DOMAIN patch THEN patch[f] ELSE base[f]
           enabled    == value("enabled")
           credential == value("credential")
           poll       == value("poll")
           scope      == value("scope")
<1>3. base \in Rows /\ (row # Unset => base = row)
  BY <1>1
<1>4. Upserted(row, patch) = [f \in DOMAIN Defaults |-> value(f)]
  BY DEF Upserted
<1>5. Upserted(row, patch) = [enabled |-> enabled, credential |-> credential, poll |-> poll, scope |-> scope]
  BY <1>1, <1>4
<1>6. /\ base["enabled"] \in BOOLEAN /\ base["credential"] \in BOOLEAN /\ base["poll"] \in Intervals
      /\ base["scope"] \in Scopes \cup {Unset}
  BY <1>3 DEF Rows
<1>7. /\ enabled \in BOOLEAN /\ credential \in BOOLEAN /\ poll \in Intervals
      /\ scope \in Scopes \cup {Unset}
  BY <1>2, <1>6
<1>8. Upserted(row, patch) \in Rows
  <2>1. ASSUME NEW b \in BOOLEAN, NEW c \in BOOLEAN, NEW n \in Intervals, NEW s \in Scopes \cup {Unset}
        PROVE  [enabled |-> b, credential |-> c, poll |-> n, scope |-> s] \in Rows
    BY DEF Rows
  <2> HIDE DEF value, enabled, credential, poll, scope
  <2> QED BY <1>5, <1>7, <2>1
<1> QED BY <1>2, <1>3, <1>4, <1>8

LEMMA PutFacts ==
  ASSUME AdminTypes, NEW a \in Admins, Writing(a)
  PROVE  /\ puts[a] \in PutTypes
         /\ puts[a].at \in {"schedule", "commit"} /\ puts[a].engagement \in ConnectedTo
         /\ puts[a].row \in Rows /\ puts[a].row # Unset
         /\ puts[a].fields \subseteq DOMAIN Defaults
<1>1. puts[a] \in PutTypes
  BY DEF AdminTypes, Writing
<1> QED BY <1>1, AdminAssumption DEF PutTypes

LEMMA WantedIsNat ==
  ASSUME NEW row \in Rows \cup {Unset}
  PROVE  WantedInterval(row) \in Nat
BY AdminAssumption DEF WantedInterval, Rows

LEMMA AdminInitInv == AdminInit => AdminInv
<1> SUFFICES ASSUME AdminInit PROVE AdminInv
  OBVIOUS
<1>1. WantedInterval(Unset) = 0
  BY DEF WantedInterval
<1>2. \A a \in Admins : ~Writing(a)
  BY DEF AdminInit, Writing
<1> QED BY <1>1, <1>2 DEF AdminInit, AdminInv, AdminTypes, ScheduleFollowsConfig, ScopeClaimedOnce

LEMMA PutsKeep ==
  ASSUME AdminInv, NEW a \in Admins, NEW e \in ConnectedTo, NEW patch \in Patches, Puts(a, e, patch)
  PROVE  AdminInv'
<1> DEFINE row == Upserted(configs[e], patch)
           put == [at |-> "schedule", engagement |-> e, row |-> row, fields |-> DOMAIN patch]
<1>1. /\ row \in Rows /\ DOMAIN patch \subseteq DOMAIN Defaults
      /\ \A f \in DOMAIN Defaults \ DOMAIN patch : configs[e] # Unset => row[f] = configs[e][f]
  BY UpsertedIsRow DEF AdminInv, AdminTypes
<1>2. /\ puts[a] = NoPut /\ ~RowLocked(e) /\ ~ClaimWaits(e, row) /\ ~ClaimConflicts(e, row)
      /\ puts' = [puts EXCEPT ![a] = put] /\ UNCHANGED <<configs, schedules, torn>>
  BY DEF Puts
<1>3. /\ put \in PutTypes /\ put.at = "schedule" /\ put.engagement = e /\ put.row = row
      /\ put.fields = DOMAIN patch
  BY <1>1 DEF PutTypes
<1> HIDE DEF row, put
<1>4. AdminTypes' /\ puts'[a] = put /\ \A b \in Admins : b # a => puts'[b] = puts[b]
  BY <1>2, <1>3 DEF AdminInv, AdminTypes
<1>5. Writing(a)' /\ \A b \in Admins : b # a => (Writing(b)' <=> Writing(b))
  BY <1>3, <1>4, PutsAreRecords DEF Writing
<1>6. \A b \in Admins : b # a /\ Writing(b) => puts[b].engagement # e
  BY <1>2 DEF RowLocked
<1>7. row.scope # Unset => \A b \in Admins : b # a /\ Writing(b) => puts[b].row.scope # row.scope
  BY <1>2, <1>6 DEF ClaimWaits
<1>8. PutInv(a)'
  BY <1>1, <1>2, <1>3, <1>4, <1>5, <1>6, <1>7 DEF PutInv, ClaimConflicts
<1>9. ASSUME NEW b \in Admins, b # a, Writing(b) PROVE PutInv(b)'
  <2>1. PutInv(b) /\ puts'[b] = puts[b]
    BY <1>4, <1>9 DEF AdminInv
  <2>2. \A c \in Admins : c # b /\ Writing(c)' => puts'[c].engagement # puts[b].engagement
    BY <1>3, <1>4, <1>5, <1>6, <1>9, <2>1 DEF PutInv
  <2>3. puts[b].row.scope # Unset =>
          \A c \in Admins : c # b /\ Writing(c)' => puts'[c].row.scope # puts[b].row.scope
    BY <1>3, <1>4, <1>5, <1>7, <1>9, <2>1 DEF PutInv
  <2> QED BY <1>2, <2>1, <2>2, <2>3 DEF PutInv, ClaimConflicts
<1>10. ScheduleFollowsConfig' /\ ScopeClaimedOnce'
  <2>1. \A d \in ConnectedTo : RowLocked(d) => RowLocked(d)'
    BY <1>2, <1>4, <1>5 DEF RowLocked, Writing
  <2> QED BY <1>2, <2>1 DEF AdminInv, ScheduleFollowsConfig, ScopeClaimedOnce
<1> QED BY <1>4, <1>5, <1>8, <1>9, <1>10 DEF AdminInv

LEMMA SchedulesKeep ==
  ASSUME AdminInv, NEW a \in Admins, Schedules(a)
  PROVE  AdminInv'
<1> DEFINE e == puts[a].engagement
<1>0. puts[a].at = "schedule" /\ UNCHANGED configs
  BY DEF Schedules
<1>1. Writing(a) /\ puts[a].at = "schedule" /\ UNCHANGED configs
  BY <1>0, PutsAreRecords DEF Writing
<1>2. PICK done \in BOOLEAN, told \in BOOLEAN :
        /\ told => done
        /\ schedules' = IF done THEN Reconciled(e, puts[a].row) ELSE schedules
        /\ puts' = [puts EXCEPT ![a] = IF told THEN [puts[a] EXCEPT !.at = "commit"] ELSE NoPut]
        /\ torn' = IF told THEN torn ELSE torn \cup {e}
  BY DEF Schedules
<1>3. e \in ConnectedTo /\ puts[a] \in PutTypes /\ puts[a].row \in Rows /\ puts[a].row # Unset
  BY <1>1, PutFacts DEF AdminInv
<1>4. WantedInterval(puts[a].row) \in Nat
  BY <1>3, WantedIsNat
<1> DEFINE put == [puts[a] EXCEPT !.at = "commit"]
<1>5. /\ put \in PutTypes /\ put.at = "commit" /\ put.engagement = e /\ put.row = puts[a].row
      /\ put.fields = puts[a].fields
  BY <1>3 DEF PutTypes
<1>6. /\ schedules' \in [ConnectedTo -> Nat]
      /\ done => schedules'[e] = WantedInterval(puts[a].row)
      /\ \A d \in ConnectedTo : d # e => schedules'[d] = schedules[d]
  BY <1>2, <1>3, <1>4 DEF Reconciled, AdminInv, AdminTypes
<1> HIDE DEF put
<1>7. /\ puts' \in [Admins -> PutTypes \cup {NoPut}]
      /\ \A b \in Admins : b # a => puts'[b] = puts[b]
      /\ puts'[a] = IF told THEN put ELSE NoPut
  <2>1. puts' = [puts EXCEPT ![a] = IF told THEN put ELSE NoPut]
    BY <1>2 DEF put
  <2> QED BY <1>5, <2>1 DEF AdminInv, AdminTypes
<1>8. AdminTypes'
  BY <1>1, <1>2, <1>3, <1>6, <1>7 DEF AdminInv, AdminTypes
<1>9. (Writing(a)' <=> told) /\ \A b \in Admins : b # a => (Writing(b)' <=> Writing(b))
  BY <1>5, <1>7, PutsAreRecords DEF Writing
<1>10. told => PutInv(a)'
  <2> SUFFICES ASSUME told PROVE PutInv(a)'
    OBVIOUS
  <2>1. PutInv(a) /\ puts'[a] = put
    BY <1>1, <1>7 DEF AdminInv
  <2>2. \A b \in Admins : b # a => puts'[b] = puts[b] /\ (Writing(b)' <=> Writing(b))
    BY <1>7, <1>9
  <2>3. \A f \in DOMAIN Defaults \ put.fields : configs[e] # Unset => put.row[f] = configs[e][f]
    BY <1>5, <2>1 DEF PutInv
  <2>4. put.row.scope # Unset =>
          /\ ~ClaimConflicts(e, put.row)
          /\ \A b \in Admins : b # a /\ Writing(b) => puts[b].row.scope # put.row.scope
    BY <1>5, <2>1 DEF PutInv
  <2>5. \A b \in Admins : b # a /\ Writing(b) => puts[b].engagement # e
    BY <2>1 DEF PutInv
  <2>6. schedules'[e] = WantedInterval(put.row)
    BY <1>2, <1>5, <1>6
  <2> QED BY <1>1, <1>5, <2>1, <2>2, <2>3, <2>4, <2>5, <2>6 DEF PutInv, ClaimConflicts
<1>11. ASSUME NEW b \in Admins, b # a, Writing(b) PROVE PutInv(b)'
  <2>1. puts[b].engagement \in ConnectedTo /\ puts[b].engagement # e
    BY <1>1, <1>11, PutFacts DEF AdminInv, PutInv
  <2>2. PutInv(b) /\ puts'[b] = puts[b] /\ Writing(b)
    BY <1>7, <1>11 DEF AdminInv
  <2>3. \A c \in Admins : Writing(c)' => /\ Writing(c) /\ puts'[c].engagement = puts[c].engagement
                                         /\ puts'[c].row = puts[c].row
    BY <1>1, <1>5, <1>7, <1>9
  <2> QED BY <1>1, <1>6, <2>1, <2>2, <2>3 DEF PutInv, ClaimConflicts
<1>12. ScheduleFollowsConfig'
  <2> SUFFICES ASSUME NEW d \in ConnectedTo, d \notin torn', ~RowLocked(d)'
               PROVE  schedules'[d] = WantedInterval(configs'[d])
    BY DEF ScheduleFollowsConfig
  <2>1. d # e
    BY <1>2, <1>5, <1>7, <1>9 DEF RowLocked
  <2>2. ~RowLocked(d)
    BY <1>7, <1>9, <2>1 DEF RowLocked
  <2> QED BY <1>1, <1>2, <1>6, <2>1, <2>2 DEF AdminInv, ScheduleFollowsConfig
<1> QED BY <1>1, <1>8, <1>9, <1>10, <1>11, <1>12 DEF AdminInv, ScopeClaimedOnce

LEMMA CommitsKeep ==
  ASSUME AdminInv, NEW a \in Admins, Commits(a)
  PROVE  AdminInv'
<1> DEFINE e == puts[a].engagement
<1>0. puts[a].at = "commit" /\ puts' = [puts EXCEPT ![a] = NoPut] /\ UNCHANGED schedules
  BY DEF Commits
<1>1. Writing(a) /\ puts[a].at = "commit" /\ puts' = [puts EXCEPT ![a] = NoPut] /\ UNCHANGED schedules
  BY <1>0, PutsAreRecords DEF Writing
<1>2. /\ e \in ConnectedTo /\ puts[a].row \in Rows /\ puts[a].row # Unset
      /\ PutInv(a)
  BY <1>1, PutFacts DEF AdminInv
<1>3. /\ \A b \in Admins : b # a => puts'[b] = puts[b]
      /\ ~Writing(a)' /\ \A b \in Admins : b # a => (Writing(b)' <=> Writing(b))
  BY <1>1 DEF AdminInv, AdminTypes, Writing
<1>4. \/ configs' = [configs EXCEPT ![e] = puts[a].row] /\ torn' = torn \ {e}
      \/ configs' = configs /\ torn' = torn \cup {e}
  BY DEF Commits
<1>5. AdminTypes'
  BY <1>1, <1>2, <1>4 DEF AdminInv, AdminTypes
<1>6. /\ configs'[e] \in {puts[a].row, configs[e]}
      /\ \A d \in ConnectedTo : d # e => configs'[d] = configs[d]
  BY <1>2, <1>4 DEF AdminInv, AdminTypes
<1>7. ASSUME NEW b \in Admins, b # a, Writing(b) PROVE PutInv(b)'
  <2>1. PutInv(b) /\ puts'[b] = puts[b] /\ puts[b].engagement \in ConnectedTo \ {e}
    BY <1>1, <1>3, <1>7, PutFacts DEF AdminInv, PutInv
  <2>2. puts[b].row.scope # Unset => puts[b].row.scope # puts[a].row.scope
    BY <1>1, <1>2, <1>7, <2>1 DEF PutInv
  <2>3. puts[b].row.scope # Unset => ~ClaimConflicts(puts[b].engagement, puts[b].row)'
    <3> SUFFICES ASSUME puts[b].row.scope # Unset,
                        NEW o \in ConnectedTo \ {puts[b].engagement}, configs'[o] # Unset
                 PROVE  configs'[o].scope # puts[b].row.scope
      BY <2>1 DEF ClaimConflicts
    <3>1. configs[o] # Unset => configs[o].scope # puts[b].row.scope
      BY <2>1 DEF PutInv, ClaimConflicts
    <3>2. CASE o = e
      BY <1>6, <2>2, <3>1, <3>2
    <3>3. CASE o # e
      BY <1>6, <3>1, <3>3
    <3> QED BY <3>2, <3>3
  <2>4. configs'[puts[b].engagement] = configs[puts[b].engagement]
    BY <1>6, <2>1
  <2>5. \A c \in Admins : Writing(c)' => Writing(c) /\ puts'[c] = puts[c]
    BY <1>3
  <2> QED BY <1>1, <2>1, <2>3, <2>4, <2>5 DEF PutInv
<1>8. ScheduleFollowsConfig'
  <2> SUFFICES ASSUME NEW d \in ConnectedTo, d \notin torn', ~RowLocked(d)'
               PROVE  schedules[d] = WantedInterval(configs'[d])
    BY <1>1 DEF ScheduleFollowsConfig
  <2>1. CASE d = e
    BY <1>1, <1>2, <1>4, <2>1 DEF PutInv, AdminInv, AdminTypes
  <2>2. CASE d # e
    <3>1. ~RowLocked(d) /\ d \notin torn
      BY <1>3, <1>4, <2>2 DEF RowLocked
    <3> QED BY <1>6, <2>2, <3>1 DEF AdminInv, ScheduleFollowsConfig
  <2> QED BY <2>1, <2>2
<1>9. ScopeClaimedOnce'
  <2>1. ASSUME NEW d \in ConnectedTo \ {e}, configs[d] # Unset, puts[a].row.scope # Unset
        PROVE  configs[d].scope # puts[a].row.scope
    BY <1>2, <2>1 DEF PutInv, ClaimConflicts
  <2> SUFFICES ASSUME NEW d \in ConnectedTo, NEW f \in ConnectedTo, d # f,
                      configs'[d] # Unset, configs'[f] # Unset, configs'[d].scope # Unset
               PROVE  configs'[d].scope # configs'[f].scope
    BY DEF ScopeClaimedOnce
  <2>2. configs[d] # Unset /\ configs[f] # Unset /\ configs[d].scope # Unset => configs[d].scope # configs[f].scope
    BY DEF AdminInv, ScopeClaimedOnce
  <2>3. CASE d = e
    BY <1>2, <1>6, <2>1, <2>2, <2>3
  <2>4. CASE f = e
    BY <1>2, <1>6, <2>1, <2>2, <2>4
  <2>5. CASE d # e /\ f # e
    BY <1>6, <2>2, <2>5
  <2> QED BY <2>3, <2>4, <2>5
<1> QED BY <1>3, <1>5, <1>7, <1>8, <1>9 DEF AdminInv

LEMMA AdminKeeps == AdminInv /\ [AdminNext]_adminVars => AdminInv'
<1> SUFFICES ASSUME AdminInv, [AdminNext]_adminVars PROVE AdminInv'
  OBVIOUS
<1>1. CASE UNCHANGED adminVars
  BY <1>1 DEF adminVars, AdminInv, AdminTypes, PutInv, Writing, ClaimConflicts, RowLocked,
              ScheduleFollowsConfig, ScopeClaimedOnce
<1> QED BY <1>1, PutsKeep, SchedulesKeep, CommitsKeep DEF AdminNext

(* What a PUT knows while it holds its row, and what follows for the committed
   rows and the schedules. *)
THEOREM AdminInvariant == AdminSpec => []AdminInv
BY AdminInitInv, AdminKeeps, PTL DEF AdminSpec

(* putConnector with reconcileConnectorSchedule: however PUTs overlap and
   whichever call fails after the other took effect, an engagement whose last PUT
   met no failure is polled as its row asks. *)
THEOREM ScheduleIsAsConfigured == AdminSpec => []ScheduleFollowsConfig
<1>1. AdminInv => ScheduleFollowsConfig
  BY DEF AdminInv
<1> QED BY <1>1, AdminInvariant, PTL

(* The partial unique index on the scope: an external workspace is never claimed
   by two engagements, so that a webhook has one to be routed to. *)
THEOREM ScopesAreClaimedOnce == AdminSpec => []ScopeClaimedOnce
<1>1. AdminInv => ScopeClaimedOnce
  BY DEF AdminInv
<1> QED BY <1>1, AdminInvariant, PTL

(* upsertConnectorConfig: a PUT leaves each field it does not name as the last
   committed PUT left it, although it was sent before that one committed. *)
THEOREM FieldsAreKept == AdminSpec => OmittedFieldsKept
<1>1. ASSUME AdminInv, [AdminNext]_adminVars, NEW e \in ConnectedTo, configs'[e] # configs[e]
      PROVE  \E a \in Admins :
               /\ puts[a].at = "commit" /\ puts[a].engagement = e
               /\ configs[e] # Unset => \A f \in DOMAIN Defaults :
                    configs'[e][f] # configs[e][f] => f \in puts[a].fields
  <2>1. PICK a \in Admins : Commits(a)
    BY <1>1 DEF AdminNext, adminVars, Puts, Schedules
  <2>2. Writing(a) /\ puts[a].at = "commit"
    <3>1. puts[a].at = "commit"
      BY <2>1 DEF Commits
    <3> QED BY <3>1, PutsAreRecords DEF Writing
  <2>3. puts[a].engagement \in ConnectedTo /\ configs' = [configs EXCEPT ![puts[a].engagement] = puts[a].row]
    BY <1>1, <2>1, <2>2, PutFacts DEF Commits, AdminInv
  <2>4. puts[a].engagement = e /\ configs'[e] = puts[a].row
    BY <1>1, <2>3 DEF AdminInv, AdminTypes
  <2>5. PutInv(a)
    BY <1>1, <2>2 DEF AdminInv
  <2> QED BY <2>2, <2>4, <2>5 DEF PutInv
<1>2. AdminInv /\ [AdminNext]_adminVars =>
        [\A e \in ConnectedTo : configs'[e] # configs[e] =>
           \E a \in Admins :
             /\ puts[a].at = "commit" /\ puts[a].engagement = e
             /\ configs[e] # Unset => \A f \in DOMAIN Defaults :
                  configs'[e][f] # configs[e][f] => f \in puts[a].fields]_adminVars
  BY <1>1
<1> QED BY <1>2, AdminInvariant, PTL DEF AdminSpec, OmittedFieldsKept

-----------------------------------------------------------------------------
(* Deprovisioned people.  From the moment that an event has disabled the rows   *)
(* of a person with none of their logins under way, nothing makes one active    *)
(* again but a login that starts later, which the event or `out` hears of.      *)

UserIds == {c.id : c \in Acts}
UserRows ==
  [id : UserIds, wid : {l.wid : l \in Logins} \cup {Nobody},
   email : {l.email : l \in Logins} \cup {k.id : k \in Keys}, active : BOOLEAN]
ActStates ==
  [pc : {"idle", "done", "failed", "upserting", "inserting", "granting", "opening", "revoking",
         "tenant", "storing", "parenting", "looking"},
   user : UserIds \cup {Nobody}, todo : SUBSET (Engagements \cup Logins)]

AccessTypes ==
  /\ users \subseteq UserRows
  /\ sessions \subseteq [id : UserIds, wid : {l.wid : l \in Logins} \cup {Nobody},
                         user : UserIds \cup {Nobody}]
  /\ acts \in [Acts -> ActStates]

(* Nothing under way can make an account of this person active or open a session. *)
Gone(wid) ==
  /\ wid # Nobody
  /\ \A u \in UserFor(wid) : ~u.active
  /\ \A l \in Logins : l.wid = wid => ~InFlight(l)

StayOutInv ==
  /\ \A wid \in out : Gone(wid) /\ \A s \in sessions : s.wid # wid
  /\ \A d \in Deprovisions : acts[d].pc = "revoking" /\ acts[d].todo = {} => Gone(d.wid)

AccessInv == AccessTypes /\ StayOutInv

LEMMA AccessInitInv == AccessInit => AccessInv
<1> SUFFICES ASSUME AccessInit PROVE AccessInv
  OBVIOUS
<1>1. Fresh \in ActStates /\ Fresh.pc = "idle"
  BY DEF Fresh, ActStates
<1>2. AccessTypes
  BY <1>1 DEF AccessInit, AccessTypes
<1>3. \A d \in Deprovisions : acts[d].pc = "idle"
  BY <1>1 DEF AccessInit, Acts
<1> QED BY <1>2, <1>3 DEF AccessInit, AccessInv, StayOutInv

(* A call that changes no user, session or `out` keeps the invariant, unless it is
   a login that starts or an event that disables. *)
LEMMA CallMoves ==
  ASSUME AccessInv, NEW c \in Acts, NEW t \in ActStates, acts' = [acts EXCEPT ![c] = t],
         UNCHANGED <<users, sessions, out>>,
         c \in Logins => InFlight(c),
         c \in Deprovisions => t.pc # "revoking"
  PROVE  AccessInv'
<1>1. acts'[c] = t /\ \A x \in Acts : x # c => acts'[x] = acts[x]
  BY DEF AccessInv, AccessTypes
<1>2. AccessTypes'
  BY DEF AccessInv, AccessTypes
<1>3. \A l \in Logins : InFlight(l)' => InFlight(l)
  BY <1>1 DEF InFlight, Acts
<1>4. \A wid : Gone(wid) => Gone(wid)'
  BY <1>3 DEF Gone, UserFor
<1>5. StayOutInv'
  BY <1>1, <1>4 DEF AccessInv, StayOutInv, Acts
<1> QED BY <1>2, <1>5 DEF AccessInv

LEMMA CallGoes ==
  ASSUME AccessInv, NEW c \in Acts,
         NEW pc \in {"done", "failed", "upserting", "inserting", "granting", "opening", "tenant", "storing"},
         GoesTo(c, pc), UNCHANGED <<users, sessions, out>>, c \in Logins => InFlight(c)
  PROVE  AccessInv'
<1> DEFINE t == [acts[c] EXCEPT !.pc = pc]
<1>1. acts[c] \in ActStates
  BY DEF AccessInv, AccessTypes
<1>2. t \in ActStates /\ t.pc = pc /\ acts' = [acts EXCEPT ![c] = t]
  BY <1>1 DEF GoesTo, ActStates
<1> HIDE DEF t
<1> QED BY <1>2, CallMoves

(* A login that is under way may write and activate rows of its own person. *)
LEMMA LoginWrites ==
  ASSUME AccessInv, NEW l \in Logins, InFlight(l), NEW t \in ActStates,
         acts' = [acts EXCEPT ![l] = t], UNCHANGED <<sessions, out>>,
         users' \subseteq UserRows, \A u \in users' \ users : u.wid = l.wid
  PROVE  AccessInv'
<1>1. /\ l \in Acts /\ acts'[l] = t /\ \A x \in Acts : x # l => acts'[x] = acts[x]
      /\ l \notin Deprovisions
  BY AccessAssumption DEF AccessInv, AccessTypes, Acts
<1>2. AccessTypes'
  BY <1>1 DEF AccessInv, AccessTypes
<1>3. \A x \in Logins : InFlight(x)' => InFlight(x)
  BY <1>1 DEF InFlight, Acts
<1>4. ASSUME NEW wid, Gone(wid) PROVE Gone(wid)'
  <2>1. wid # l.wid
    BY <1>4 DEF Gone
  <2> QED BY <1>3, <1>4, <2>1 DEF Gone, UserFor
<1>5. StayOutInv'
  BY <1>1, <1>4 DEF AccessInv, StayOutInv, Acts
<1> QED BY <1>2, <1>5 DEF AccessInv

LEMMA AuthenticatesKeeps ==
  ASSUME AccessInv, NEW l \in Logins, Authenticates(l)
  PROVE  AccessInv'
<1>1. l \in Acts /\ l \notin Deprovisions
  BY AccessAssumption DEF Acts
<1>2. /\ acts' = [c \in Acts |->
           IF c = l THEN [acts[l] EXCEPT !.pc = "upserting"]
           ELSE IF c \in Deprovisions /\ acts[c].pc = "revoking" /\ c.wid = l.wid
                THEN [acts[c] EXCEPT !.todo = acts[c].todo \cup {l}] ELSE acts[c]]
      /\ out' = out \ {l.wid} /\ UNCHANGED <<users, sessions>>
  BY DEF Authenticates
<1>3. \A c \in Acts : acts[c] \in ActStates
  BY DEF AccessInv, AccessTypes
<1>4. \A c \in Acts : acts'[c] \in ActStates
  <2> TAKE c \in Acts
  <2>1. [acts[l] EXCEPT !.pc = "upserting"] \in ActStates
    BY <1>1, <1>3 DEF ActStates
  <2>2. [acts[c] EXCEPT !.todo = acts[c].todo \cup {l}] \in ActStates
    BY <1>3 DEF ActStates
  <2> QED BY <1>2, <1>3, <2>1, <2>2
<1>5. AccessTypes'
  BY <1>2, <1>4 DEF AccessInv, AccessTypes
<1>6. \A x \in Logins : x # l => acts'[x] = acts[x]
  BY <1>2, AccessAssumption DEF Acts
<1>7. ASSUME NEW wid, wid # l.wid, Gone(wid) PROVE Gone(wid)'
  BY <1>2, <1>6, <1>7 DEF Gone, UserFor, InFlight
<1>8. ASSUME NEW d \in Deprovisions, acts'[d].pc = "revoking", acts'[d].todo = {}
      PROVE  d.wid # l.wid /\ acts[d].pc = "revoking" /\ acts[d].todo = {}
  <2>1. d \in Acts /\ d # l
    BY <1>1 DEF Acts
  <2>2. CASE acts[d].pc = "revoking" /\ d.wid = l.wid
    <3>1. acts'[d] = [acts[d] EXCEPT !.todo = acts[d].todo \cup {l}]
      BY <1>2, <2>1, <2>2
    <3>2. l \in acts'[d].todo
      BY <1>3, <2>1, <3>1 DEF ActStates
    <3> QED BY <1>8, <3>2
  <2>3. CASE ~(acts[d].pc = "revoking" /\ d.wid = l.wid)
    BY <1>2, <1>8, <2>1, <2>3
  <2> QED BY <2>2, <2>3
<1>9. StayOutInv'
  BY <1>2, <1>7, <1>8 DEF AccessInv, StayOutInv
<1> QED BY <1>5, <1>9 DEF AccessInv

LEMMA UpdatesKeeps ==
  ASSUME AccessInv, NEW l \in Logins, Updates(l)
  PROVE  AccessInv'
<1>1. l \in Acts /\ acts[l].pc = "upserting" /\ InFlight(l) /\ acts[l] \in ActStates /\ UserFor(l.wid) # {}
  BY DEF Updates, Acts, InFlight, AccessInv, AccessTypes
<1> DEFINE u == CHOOSE u \in users : u.wid = l.wid
           row == [u EXCEPT !.email = l.email, !.active = TRUE]
           t == [acts[l] EXCEPT !.pc = "granting", !.user = u.id]
<1>2. CASE users' = (users \ {u}) \cup {row} /\ acts' = [acts EXCEPT ![l].pc = "granting", ![l].user = u.id]
  <2>1. u \in users /\ u.wid = l.wid /\ u \in UserRows
    <3>1. \E x \in users : x.wid = l.wid
      BY <1>1 DEF UserFor
    <3>2. u \in users /\ u.wid = l.wid
      BY <3>1
    <3> QED BY <3>2 DEF AccessInv, AccessTypes
  <2> HIDE DEF u
  <2>2. row \in UserRows /\ row.wid = l.wid
    BY <2>1 DEF UserRows
  <2>3. t \in ActStates /\ acts' = [acts EXCEPT ![l] = t]
    <3>1. u.id \in UserIds
      BY <2>1 DEF UserRows
    <3>2. t \in ActStates
      BY <1>1, <3>1 DEF ActStates
    <3>3. acts' = [acts EXCEPT ![l] = t]
      BY <1>2
    <3> QED BY <3>2, <3>3
  <2>4. users' \subseteq UserRows /\ \A x \in users' \ users : x.wid = l.wid
    BY <1>2, <2>2 DEF AccessInv, AccessTypes
  <2> HIDE DEF t
  <2> QED BY <1>1, <2>3, <2>4, LoginWrites DEF Updates
<1>3. CASE GoesTo(l, "failed") /\ UNCHANGED users
  BY <1>1, <1>3, CallGoes DEF Updates
<1> QED BY <1>2, <1>3 DEF Updates

LEMMA InsertsKeeps ==
  ASSUME AccessInv, NEW l \in Logins, Inserts(l)
  PROVE  AccessInv'
<1>1. l \in Acts /\ acts[l].pc = "inserting" /\ InFlight(l) /\ acts[l] \in ActStates
  BY DEF Inserts, Acts, InFlight, AccessInv, AccessTypes
<1> DEFINE same == {u \in users : u.email = l.email}
           id   == IF same = {} THEN l.id ELSE (CHOOSE u \in same : TRUE).id
           row  == [id |-> id, wid |-> l.wid, email |-> l.email, active |-> TRUE]
           t == [acts[l] EXCEPT !.pc = "granting", !.user = id]
<1>2. users' = (users \ same) \cup {row} /\ acts' = [acts EXCEPT ![l].pc = "granting", ![l].user = id]
  BY DEF Inserts
<1>3. id \in UserIds
  <2>1. CASE same = {}
    BY <1>1, <2>1 DEF UserIds
  <2>2. CASE same # {}
    <3>1. (CHOOSE u \in same : TRUE) \in users
      BY <2>2
    <3> QED BY <2>2, <3>1 DEF AccessInv, AccessTypes, UserRows
  <2> QED BY <2>1, <2>2
<1> HIDE DEF id
<1>4. row \in UserRows /\ row.wid = l.wid
  BY <1>3 DEF UserRows
<1>5. t \in ActStates /\ acts' = [acts EXCEPT ![l] = t]
  BY <1>1, <1>2, <1>3 DEF ActStates
<1>6. users' \subseteq UserRows /\ \A x \in users' \ users : x.wid = l.wid
  BY <1>2, <1>4 DEF AccessInv, AccessTypes
<1> HIDE DEF t
<1> QED BY <1>1, <1>5, <1>6, LoginWrites DEF Inserts

LEMMA OpensKeeps ==
  ASSUME AccessInv, NEW l \in Logins, Opens(l)
  PROVE  AccessInv'
<1> DEFINE s == [id |-> l.id, wid |-> l.wid, user |-> acts[l].user]
           t == [acts[l] EXCEPT !.pc = "done"]
<1>1. /\ l \in Acts /\ l \notin Deprovisions /\ acts[l] \in ActStates
      /\ acts[l].pc = "opening" /\ InFlight(l)
  BY AccessAssumption DEF Opens, Acts, InFlight, AccessInv, AccessTypes
<1>2. sessions' = sessions \cup {s} /\ acts' = [acts EXCEPT ![l].pc = "done"] /\ UNCHANGED <<users, out>>
  BY DEF Opens, GoesTo
<1>3. t \in ActStates /\ acts' = [acts EXCEPT ![l] = t]
  BY <1>1, <1>2 DEF ActStates
<1>4. s.wid = l.wid /\ s \in [id : UserIds, wid : {x.wid : x \in Logins} \cup {Nobody}, user : UserIds \cup {Nobody}]
  BY <1>1 DEF UserIds, ActStates
<1> HIDE DEF s, t
<1>5. AccessTypes' /\ \A x \in Acts : x # l => acts'[x] = acts[x]
  BY <1>2, <1>3, <1>4 DEF AccessInv, AccessTypes
<1>6. ASSUME NEW wid, Gone(wid) PROVE Gone(wid)' /\ wid # l.wid
  <2>1. wid # l.wid
    BY <1>1, <1>6 DEF Gone
  <2> QED BY <1>2, <1>5, <1>6, <2>1 DEF Gone, UserFor, InFlight, Acts
<1>7. StayOutInv'
  BY <1>1, <1>2, <1>4, <1>5, <1>6 DEF AccessInv, StayOutInv, Acts
<1> QED BY <1>5, <1>7 DEF AccessInv

LEMMA DisablesKeeps ==
  ASSUME AccessInv, NEW d \in Deprovisions, Disables(d)
  PROVE  AccessInv'
<1> DEFINE off(u) == [u EXCEPT !.active = u.active /\ u.wid # d.wid]
           todo == {l \in Logins : l.wid = d.wid /\ InFlight(l)}
           t == [acts[d] EXCEPT !.pc = "revoking", !.todo = todo]
<1>1. d \in Acts /\ d \notin Logins /\ acts[d] \in ActStates
  BY AccessAssumption DEF Acts, AccessInv, AccessTypes
<1>2. users' = {off(u) : u \in users} /\ UNCHANGED <<sessions, out>>
  BY DEF Disables
<1>3. t \in ActStates /\ t.todo = todo /\ acts' = [acts EXCEPT ![d] = t]
  BY <1>1 DEF ActStates, Disables
<1>4. ASSUME NEW u \in users PROVE off(u) \in UserRows /\ off(u).wid = u.wid
                                 /\ (off(u).active <=> u.active /\ u.wid # d.wid)
  <2>1. u \in UserRows
    BY DEF AccessInv, AccessTypes
  <2> QED BY <2>1 DEF UserRows
<1> HIDE DEF off, t
<1>5. AccessTypes' /\ acts'[d] = t /\ \A x \in Acts : x # d => acts'[x] = acts[x]
  BY <1>1, <1>2, <1>3, <1>4 DEF AccessInv, AccessTypes
<1>6. \A l \in Logins : InFlight(l)' <=> InFlight(l)
  BY <1>1, <1>5 DEF InFlight, Acts
<1>7. ASSUME NEW wid, Gone(wid) PROVE Gone(wid)'
  BY <1>2, <1>4, <1>6, <1>7 DEF Gone, UserFor
<1>8. ASSUME todo = {} PROVE Gone(d.wid)'
  BY <1>2, <1>4, <1>6, <1>8, AccessAssumption DEF Gone, UserFor
<1>9. StayOutInv'
  BY <1>2, <1>3, <1>5, <1>7, <1>8 DEF AccessInv, StayOutInv, Acts
<1> QED BY <1>5, <1>9 DEF AccessInv

LEMMA RevokesKeeps ==
  ASSUME AccessInv, NEW d \in Deprovisions, Revokes(d)
  PROVE  AccessInv'
<1> DEFINE t == [acts[d] EXCEPT !.pc = "done"]
<1>1. d \in Acts /\ d \notin Logins /\ acts[d] \in ActStates /\ acts[d].pc = "revoking"
  BY AccessAssumption DEF Acts, AccessInv, AccessTypes, Revokes
<1>2. /\ sessions' \subseteq sessions /\ \A s \in sessions' : s.wid # d.wid
      /\ UNCHANGED users
  BY DEF Revokes, RevokeByWorkosUser
<1>3. t \in ActStates /\ t.pc = "done" /\ acts' = [acts EXCEPT ![d] = t]
  BY <1>1 DEF ActStates, Revokes, GoesTo
<1> HIDE DEF t
<1>4. AccessTypes' /\ acts'[d] = t /\ \A x \in Acts : x # d => acts'[x] = acts[x]
  BY <1>1, <1>2, <1>3 DEF AccessInv, AccessTypes
<1>5. \A wid : Gone(wid) => Gone(wid)'
  BY <1>1, <1>2, <1>4 DEF Gone, UserFor, InFlight, Acts
<1>6. \A wid \in out' : Gone(wid) /\ \A s \in sessions' : s.wid # wid
  BY <1>1, <1>2 DEF Revokes, AccessInv, StayOutInv
<1>7. StayOutInv'
  BY <1>3, <1>4, <1>5, <1>6 DEF AccessInv, StayOutInv, Acts
<1> QED BY <1>4, <1>7 DEF AccessInv

LEMMA RestartsKeeps ==
  ASSUME AccessInv, Restarts
  PROVE  AccessInv'
<1> DEFINE on(u) == [u EXCEPT !.active = TRUE]
           of(u) == [id |-> u.id, wid |-> u.wid, user |-> u.id]
<1>1. PICK kept \in SUBSET {u \in users : \E l \in Logins : l.dev /\ l.wid = u.wid} :
        /\ sessions' = {of(u) : u \in kept}
        /\ users' = (users \ kept) \cup {on(u) : u \in kept}
        /\ out' = out \ {u.wid : u \in kept}
  BY DEF Restarts
<1>2. acts' = [c \in Acts |-> IF InFlight(c) THEN [acts[c] EXCEPT !.pc = "failed"] ELSE acts[c]]
  BY DEF Restarts
<1>3. \A c \in Acts : acts[c] \in ActStates
  BY DEF AccessInv, AccessTypes
<1>4. \A c \in Acts : acts'[c] \in ActStates /\ ~InFlight(c)'
  <2> TAKE c \in Acts
  <2>1. [acts[c] EXCEPT !.pc = "failed"] \in ActStates /\ [acts[c] EXCEPT !.pc = "failed"].pc = "failed"
    BY <1>3 DEF ActStates
  <2> QED BY <1>2, <1>3, <2>1 DEF InFlight
<1>5. ASSUME NEW u \in kept
      PROVE  /\ on(u) \in UserRows /\ on(u).wid = u.wid /\ of(u).wid = u.wid
             /\ of(u) \in [id : UserIds, wid : {l.wid : l \in Logins} \cup {Nobody}, user : UserIds \cup {Nobody}]
  <2>1. u \in UserRows
    BY DEF AccessInv, AccessTypes
  <2> QED BY <2>1 DEF UserRows
<1> HIDE DEF on, of
<1>6. AccessTypes'
  <2>1. users' \subseteq UserRows
    BY <1>1, <1>5 DEF AccessInv, AccessTypes
  <2>2. sessions' \subseteq [id : UserIds, wid : {l.wid : l \in Logins} \cup {Nobody}, user : UserIds \cup {Nobody}]
    BY <1>1, <1>5
  <2>3. acts' \in [Acts -> ActStates]
    BY <1>2, <1>4
  <2> QED BY <2>1, <2>2, <2>3 DEF AccessTypes
<1>7. ASSUME NEW wid \in out' PROVE Gone(wid)' /\ \A s \in sessions' : s.wid # wid
  <2>1. wid \in out /\ \A u \in kept : u.wid # wid
    BY <1>1
  <2>2. Gone(wid)
    BY <2>1 DEF AccessInv, StayOutInv
  <2>3. \A l \in Logins : ~InFlight(l)'
    BY <1>4 DEF Acts
  <2> QED BY <1>1, <1>5, <2>1, <2>2, <2>3 DEF Gone, UserFor
<1>8. \A d \in Deprovisions : acts'[d].pc # "revoking"
  BY <1>4 DEF InFlight, Acts
<1>9. StayOutInv'
  BY <1>7, <1>8 DEF StayOutInv
<1> QED BY <1>6, <1>9 DEF AccessInv

LEMMA OtherCallsKeep ==
  ASSUME AccessInv, NEW c \in Admissions \cup Keys \cup Lists,
         \/ c \in Admissions /\ Gates(c)
         \/ c \in Keys /\ (GrantsTenant(c) \/ ShowsKey(c))
         \/ c \in Admissions \cup Keys /\ (LinksToTenant(c) \/ GrantsRole(c))
         \/ c \in Lists /\ (ParentsAll(c) \/ ListsViewable(c))
  PROVE  AccessInv'
<1>1. c \in Acts /\ c \notin Logins /\ c \notin Deprovisions
  BY AccessAssumption DEF Acts
<1>2. acts[c] \in ActStates
  BY <1>1 DEF AccessInv, AccessTypes
<1>3. UNCHANGED <<users, sessions, out>>
  BY DEF Gates, GrantsTenant, ShowsKey, LinksToTenant, GrantsRole, ParentsAll, ListsViewable
<1>4. ASSUME NEW pc \in {"done", "failed", "granting", "storing", "looking", "parenting"},
             NEW user \in UserIds \cup {Nobody}, NEW todo \in SUBSET Engagements,
             acts' = [acts EXCEPT ![c].pc = pc, ![c].user = user, ![c].todo = todo]
      PROVE  AccessInv'
  <2> DEFINE t == [acts[c] EXCEPT !.pc = pc, !.user = user, !.todo = todo]
  <2>1. t \in ActStates /\ t.pc = pc
    BY <1>2 DEF ActStates
  <2>2. acts' = [acts EXCEPT ![c] = t]
    BY <1>4
  <2> HIDE DEF t
  <2> QED BY <1>1, <1>3, <2>1, <2>2, CallMoves
<1>5. CASE c \in Admissions /\ Gates(c)
  <2>1. PICK caller \in CallerOf(c), grantee \in {u.id : u \in UserFor(c.grantee)} :
          acts' = [acts EXCEPT
            ![c].pc = IF /\ \/ Resolve(c.on, "administer", caller)
                            \/ Resolve(Tenant, "administer", caller)
                         /\ Resolve(Tenant, "belong", grantee)
                      THEN "granting" ELSE "failed",
            ![c].user = grantee, ![c].todo = {c.on}]
    BY <1>5 DEF Gates
  <2>2. grantee \in UserIds
    BY DEF UserFor, AccessInv, AccessTypes, UserRows
  <2>3. {c.on} \in SUBSET Engagements
    BY <1>5, AccessAssumption
  <2> QED BY <1>4, <2>1, <2>2, <2>3
<1>6. CASE c \in Keys /\ (GrantsTenant(c) \/ ShowsKey(c))
  BY <1>1, <1>3, <1>6, CallGoes DEF GrantsTenant, ShowsKey
<1>7. CASE c \in Admissions \cup Keys /\ (LinksToTenant(c) \/ GrantsRole(c))
  <2>1. CASE LinksToTenant(c)
    BY <1>3, <2>1 DEF LinksToTenant, AccessInv, AccessTypes, StayOutInv, Gone, UserFor, InFlight
  <2>2. ASSUME NEW object \in acts[c].todo,
               acts' = [acts EXCEPT ![c].todo = @ \ {object},
                 ![c].pc = IF acts[c].todo # {object} THEN @
                           ELSE IF c \in Keys THEN "storing" ELSE "done"]
        PROVE  AccessInv'
    <3> DEFINE pc == IF acts[c].todo # {object} THEN acts[c].pc ELSE IF c \in Keys THEN "storing" ELSE "done"
               t == [acts[c] EXCEPT !.todo = acts[c].todo \ {object}, !.pc = pc]
    <3>1. t \in ActStates
      BY <1>2 DEF ActStates
    <3>2. acts' = [acts EXCEPT ![c] = t]
      BY <2>2
    <3> HIDE DEF t
    <3> QED BY <1>1, <1>3, <3>1, <3>2, CallMoves
  <2> QED BY <1>7, <2>1, <2>2 DEF GrantsRole
<1>8. CASE c \in Lists /\ ParentsAll(c)
  <2>1. PICK object \in Engagements :
          acts' = [acts EXCEPT ![c].todo = @ \cup {object},
            ![c].pc = IF acts[c].todo \cup {object} = Engagements THEN "looking" ELSE "parenting"]
    BY <1>8 DEF ParentsAll
  <2> DEFINE t == [acts[c] EXCEPT !.todo = acts[c].todo \cup {object},
            !.pc = IF acts[c].todo \cup {object} = Engagements THEN "looking" ELSE "parenting"]
  <2>2. t \in ActStates
    BY <1>2 DEF ActStates
  <2>3. acts' = [acts EXCEPT ![c] = t]
    BY <2>1
  <2> HIDE DEF t
  <2> QED BY <1>1, <1>3, <2>2, <2>3, CallMoves
<1>9. CASE c \in Lists /\ ListsViewable(c)
  <2> DEFINE viewable(caller) == Engagements \cap LookupResources("engagement", "view", caller)
  <2>1. PICK caller \in CallerOf(c) :
          acts' = [acts EXCEPT ![c].pc = "done", ![c].user = caller, ![c].todo = viewable(caller)]
    BY <1>9 DEF ListsViewable
  <2>2. caller \in UserIds \cup {Nobody}
    BY DEF CallerOf, AccessInv, AccessTypes
  <2>3. viewable(caller) \in SUBSET Engagements
    OBVIOUS
  <2> HIDE DEF viewable
  <2> QED BY <1>4, <2>1, <2>2, <2>3
<1> QED BY <1>5, <1>6, <1>7, <1>8, <1>9

LEMMA InsertsUserKeeps ==
  ASSUME AccessInv, NEW k \in Keys, InsertsUser(k)
  PROVE  AccessInv'
<1> DEFINE row == [id |-> k.id, wid |-> Nobody, email |-> k.id, active |-> TRUE]
           t == [acts[k] EXCEPT !.pc = IF k.on = {} THEN "tenant" ELSE "granting",
                                !.user = k.id, !.todo = k.on]
<1>1. k \in Acts /\ k \notin Logins /\ k \notin Deprovisions /\ k.on \subseteq Engagements
  BY AccessAssumption DEF Acts
<1>2. acts[k] \in ActStates
  BY <1>1 DEF AccessInv, AccessTypes
<1>3. users' = users \cup {row} /\ UNCHANGED <<sessions, out>>
      /\ acts' = [acts EXCEPT ![k].pc = IF k.on = {} THEN "tenant" ELSE "granting",
                             ![k].user = k.id, ![k].todo = k.on]
  BY DEF InsertsUser
<1>4. t \in ActStates /\ t.pc # "revoking"
  BY <1>1, <1>2 DEF ActStates, UserIds
<1>5. acts' = [acts EXCEPT ![k] = t]
  BY <1>3
<1>6. row \in UserRows /\ row.wid = Nobody
  BY <1>1 DEF UserRows, UserIds
<1> HIDE DEF row, t
<1>7. AccessTypes' /\ acts'[k] = t /\ \A x \in Acts : x # k => acts'[x] = acts[x]
  <2>1. users' \subseteq UserRows
    BY <1>3, <1>6 DEF AccessInv, AccessTypes
  <2>2. acts' \in [Acts -> ActStates] /\ acts'[k] = t /\ \A x \in Acts : x # k => acts'[x] = acts[x]
    BY <1>1, <1>4, <1>5 DEF AccessInv, AccessTypes
  <2>3. UNCHANGED sessions
    BY <1>3
  <2> QED BY <2>1, <2>2, <2>3 DEF AccessInv, AccessTypes
<1>8. ASSUME NEW wid, Gone(wid) PROVE Gone(wid)'
  BY <1>1, <1>3, <1>6, <1>7, <1>8 DEF Gone, UserFor, InFlight, Acts
<1>9. StayOutInv'
  BY <1>1, <1>3, <1>7, <1>8 DEF AccessInv, StayOutInv, Acts
<1> QED BY <1>7, <1>9 DEF AccessInv

LEMMA AccessKeeps == AccessInv /\ [AccessNext]_accessVars => AccessInv'
<1> SUFFICES ASSUME AccessInv, [AccessNext]_accessVars PROVE AccessInv'
  OBVIOUS
<1>1. CASE UNCHANGED accessVars
  BY <1>1 DEF accessVars, AccessInv, AccessTypes, StayOutInv, Gone, UserFor, InFlight
<1>2. ASSUME NEW c \in Acts, ActFails(c) PROVE AccessInv'
  BY <1>2, CallGoes DEF ActFails
<1>3. ASSUME NEW l \in Logins, FindsNone(l) \/ SeedsMembership(l) PROVE AccessInv'
  <2>1. l \in Acts /\ InFlight(l) /\ UNCHANGED <<users, sessions, out>>
        /\ (GoesTo(l, "inserting") \/ GoesTo(l, "opening"))
    BY <1>3 DEF FindsNone, SeedsMembership, Acts, InFlight
  <2> QED BY <2>1, CallGoes
<1> QED BY <1>1, <1>2, <1>3, RestartsKeeps, AuthenticatesKeeps, UpdatesKeeps, InsertsKeeps, OpensKeeps,
           DisablesKeeps, RevokesKeeps, InsertsUserKeeps, OtherCallsKeep DEF AccessNext

(* Every row, session and call under way keeps its type, and who is out is. *)
THEOREM AccessInvariant == AccessSpec => []AccessInv
BY AccessInitInv, AccessKeeps, PTL DEF AccessSpec

(* DirectorySyncService.apply with SessionService.revokeByWorkosUser: however
   logins, restarts, keys and admissions overlap an event, once it is handled with
   no login of that person under way or since, the person has no session and no
   active account. *)
THEOREM OutStaysOut == AccessSpec => []DeprovisionedStaysOut
<1>1. AccessInv => DeprovisionedStaysOut
  BY DEF AccessInv, StayOutInv, Gone, DeprovisionedStaysOut
<1> QED BY <1>1, AccessInvariant, PTL

-----------------------------------------------------------------------------
(* The authorisation tuples: what is granted to whom, which calls leave behind   *)
(* even when they fail, and what the rules make of it.                           *)

Granter == {"viewer", "member", "admin"}
TupleShapes ==
  [on : Engagements \cup {Tenant}, rel : Granter \cup {"parent_tenant"}, subject : UserIds \cup {Nobody, Tenant}]
Link(object) == [on |-> object, rel |-> "parent_tenant", subject |-> Tenant]

TuplesInv ==
  /\ tuples \subseteq TupleShapes
  /\ \A t \in tuples : t.rel = "parent_tenant" => t.on # Tenant /\ t.subject = Tenant
  /\ RolesHangOffTenant

(* A key run has granted the role on every engagement it no longer has to do. *)
Held(k, object) == [on |-> object, rel |-> k.role, subject |-> k.id] \in tuples
KeyInv(k) ==
  /\ acts[k].pc = "tenant" => k.on = {}
  /\ acts[k].pc \in {"granting", "tenant"} =>
       acts[k].user = k.id /\ \A object \in k.on \ acts[k].todo : Held(k, object)
  /\ acts[k].pc = "storing" \/ k \in shown => \A object \in k.on : Held(k, object)

GrantsInv ==
  /\ TuplesInv
  /\ shown \subseteq Keys /\ \A k \in Keys : KeyInv(k)
  /\ \A c \in Admissions \cup Keys : acts[c].todo \subseteq Engagements

LEMMA LinkKeeps ==
  ASSUME TuplesInv, NEW object \in Engagements, tuples' = tuples \cup {Link(object)}
  PROVE  TuplesInv'
<1>1. object # Tenant
  BY AccessAssumption
<1>2. Link(object) \in TupleShapes
  BY DEF Link, TupleShapes
<1>3. Link(object).on = object /\ Link(object).rel = "parent_tenant" /\ Link(object).subject = Tenant
  BY DEF Link
<1>4. tuples' \subseteq TupleShapes
  BY <1>2 DEF TuplesInv
<1>5. \A t \in tuples' : t.rel = "parent_tenant" => t.on # Tenant /\ t.subject = Tenant
  BY <1>1, <1>3 DEF TuplesInv
<1>6. \A t \in tuples' : t.on # Tenant => Link(t.on) \in tuples'
  BY <1>3 DEF TuplesInv, RolesHangOffTenant, Link
<1> QED BY <1>4, <1>5, <1>6 DEF TuplesInv, RolesHangOffTenant, Link, TupleShapes

LEMMA GrantKeeps ==
  ASSUME TuplesInv, NEW object \in Engagements \cup {Tenant}, NEW role \in Granter,
         NEW subject \in UserIds \cup {Nobody}, object # Tenant => Link(object) \in tuples,
         tuples' = tuples \cup {[on |-> object, rel |-> role, subject |-> subject]}
  PROVE  TuplesInv'
<1> DEFINE new == [on |-> object, rel |-> role, subject |-> subject]
<1>1. new \in TupleShapes /\ new.on = object /\ new.rel # "parent_tenant"
  BY DEF TupleShapes, Granter
<1>2. tuples' = tuples \cup {new}
  OBVIOUS
<1> HIDE DEF new
<1>3. tuples' \subseteq TupleShapes
  BY <1>1, <1>2 DEF TuplesInv
<1>4. \A t \in tuples' : t.rel = "parent_tenant" => t.on # Tenant /\ t.subject = Tenant
  BY <1>1, <1>2 DEF TuplesInv
<1>5. \A t \in tuples' : t.on # Tenant => Link(t.on) \in tuples'
  BY <1>1, <1>2 DEF TuplesInv, RolesHangOffTenant, Link
<1> QED BY <1>3, <1>4, <1>5 DEF TuplesInv, RolesHangOffTenant, Link, TupleShapes

(* What a step that takes no key anywhere new leaves of the keys' invariant. *)
LEMMA KeysStay ==
  ASSUME GrantsInv, tuples \subseteq tuples', UNCHANGED shown, NEW k \in Keys,
         acts'[k] = acts[k] \/ acts'[k].pc \notin {"granting", "tenant", "storing"}
  PROVE  KeyInv(k)'
<1>1. \A object : Held(k, object) => Held(k, object)'
  BY DEF Held
<1>2. KeyInv(k)
  BY DEF GrantsInv
<1> QED BY <1>1, <1>2 DEF KeyInv

(* The calls that grant: each lets one act move, and only those of a key matter. *)
LEMMA KeyAlone ==
  ASSUME AccessInv, GrantsInv, tuples \subseteq tuples', UNCHANGED shown, NEW c \in Acts,
         \A x \in Acts : x # c => acts'[x] = acts[x],
         c \in Keys => KeyInv(c)', c \in Admissions \cup Keys => acts'[c].todo \subseteq Engagements,
         TuplesInv'
  PROVE  GrantsInv'
<1>1. ASSUME NEW k \in Keys PROVE KeyInv(k)'
  BY <1>1, KeysStay DEF Acts
<1>2. ASSUME NEW x \in Admissions \cup Keys PROVE acts'[x].todo \subseteq Engagements
  BY <1>2 DEF Acts, GrantsInv
<1> QED BY <1>1, <1>2 DEF GrantsInv

LEMMA SameTuples == TuplesInv /\ UNCHANGED tuples => TuplesInv'
BY DEF TuplesInv, RolesHangOffTenant, TupleShapes

LEMMA RowIds ==
  ASSUME AccessInv, NEW u \in users
  PROVE  u.id \in UserIds
BY DEF AccessInv, AccessTypes, UserRows

LEMMA ActsUser ==
  ASSUME AccessInv, NEW c \in Acts
  PROVE  acts[c].user \in UserIds \cup {Nobody} /\ acts[c] \in ActStates
BY DEF AccessInv, AccessTypes, ActStates

LEMMA RestartGrants ==
  ASSUME AccessInv, GrantsInv, Restarts
  PROVE  GrantsInv'
<1>1. PICK kept \in SUBSET users :
        tuples' = tuples \cup {[on |-> Tenant, rel |-> "admin", subject |-> u.id] : u \in kept}
  BY DEF Restarts
<1>2. \A k \in Keys : acts'[k] = acts[k] \/ acts'[k].pc \notin {"granting", "tenant", "storing"}
  <2> SUFFICES ASSUME NEW k \in Keys
               PROVE  acts'[k] = acts[k] \/ acts'[k].pc \notin {"granting", "tenant", "storing"}
    OBVIOUS
  <2>1. acts'[k] = IF InFlight(k) THEN [acts[k] EXCEPT !.pc = "failed"] ELSE acts[k]
    BY DEF Restarts, Acts
  <2>2. acts[k] \in ActStates
    BY ActsUser DEF Acts
  <2>3. [acts[k] EXCEPT !.pc = "failed"].pc = "failed"
    BY <2>2 DEF ActStates
  <2> QED BY <2>1, <2>3
<1>7. ASSUME NEW c \in Admissions \cup Keys PROVE acts'[c].todo \subseteq Engagements
  <2>1. acts'[c] = IF InFlight(c) THEN [acts[c] EXCEPT !.pc = "failed"] ELSE acts[c]
    BY DEF Restarts, Acts
  <2>2. acts[c] \in ActStates /\ acts[c].todo \subseteq Engagements
    BY ActsUser DEF Acts, GrantsInv
  <2>3. [acts[c] EXCEPT !.pc = "failed"].todo = acts[c].todo
    BY <2>2 DEF ActStates
  <2> QED BY <2>1, <2>2, <2>3
<1>3. tuples' \subseteq TupleShapes
  <2>1. \A u \in kept : [on |-> Tenant, rel |-> "admin", subject |-> u.id] \in TupleShapes
    BY RowIds DEF TupleShapes, Granter
  <2> QED BY <1>1, <2>1 DEF GrantsInv, TuplesInv
<1>4. \A t \in tuples' \ tuples : t.on = Tenant /\ t.rel = "admin"
  BY <1>1
<1>5. TuplesInv'
  <2>1. \A t \in tuples' : t.rel = "parent_tenant" => t.on # Tenant /\ t.subject = Tenant
    BY <1>4 DEF GrantsInv, TuplesInv
  <2>2. \A t \in tuples' : t.on # Tenant => Link(t.on) \in tuples'
    BY <1>1, <1>4 DEF GrantsInv, TuplesInv, RolesHangOffTenant, Link
  <2> QED BY <1>3, <2>1, <2>2 DEF TuplesInv, RolesHangOffTenant, Link, TupleShapes
<1>6. tuples \subseteq tuples' /\ UNCHANGED shown
  BY <1>1 DEF Restarts
<1> QED BY <1>2, <1>5, <1>6, <1>7, KeysStay DEF GrantsInv

LEMMA SeedsGrants ==
  ASSUME AccessInv, GrantsInv, NEW l \in Logins, SeedsMembership(l)
  PROVE  GrantsInv'
<1>1. l \in Acts /\ l \notin Keys /\ l \notin Admissions
  BY AccessAssumption DEF Acts
<1>2. acts' = [acts EXCEPT ![l].pc = "opening"] /\ UNCHANGED shown
  BY DEF SeedsMembership, GoesTo
<1>3. \A x \in Acts : x # l => acts'[x] = acts[x]
  BY <1>2 DEF AccessInv, AccessTypes
<1>4. TuplesInv' /\ tuples \subseteq tuples'
  <2>1. CASE UNCHANGED tuples
    BY <2>1, SameTuples DEF GrantsInv
  <2>2. ASSUME Touch(Tenant, IF l.dev THEN "admin" ELSE "member", acts[l].user)
        PROVE  TuplesInv' /\ tuples \subseteq tuples'
    <3>1. PICK role \in {"admin", "member"} : Touch(Tenant, role, acts[l].user)
      BY <2>2
    <3>2. tuples' = tuples \cup {[on |-> Tenant, rel |-> role, subject |-> acts[l].user]}
      BY <3>1 DEF Touch
    <3> QED BY <1>1, <3>2, ActsUser, GrantKeeps DEF GrantsInv, Granter
  <2> QED BY <2>1, <2>2 DEF SeedsMembership
<1> QED BY <1>1, <1>2, <1>3, <1>4, KeyAlone

LEMMA LinkGrants ==
  ASSUME AccessInv, GrantsInv, NEW c \in Admissions \cup Keys, LinksToTenant(c)
  PROVE  GrantsInv'
<1>1. PICK object \in Engagements : Touch(object, "parent_tenant", Tenant)
  BY DEF LinksToTenant, GrantsInv
<1>2. tuples' = tuples \cup {Link(object)}
  BY <1>1 DEF Touch, Link
<1>3. TuplesInv'
  BY <1>2, LinkKeeps DEF GrantsInv
<1>4. UNCHANGED <<acts, shown>>
  BY DEF LinksToTenant
<1> QED BY <1>2, <1>3, <1>4, KeysStay DEF GrantsInv

LEMMA RoleGrants ==
  ASSUME AccessInv, GrantsInv, NEW c \in Admissions \cup Keys, GrantsRole(c)
  PROVE  GrantsInv'
<1> DEFINE t(object) == [acts[c] EXCEPT !.todo = acts[c].todo \ {object},
                !.pc = IF acts[c].todo # {object} THEN acts[c].pc
                       ELSE IF c \in Keys THEN "storing" ELSE "done"]
<1>1. c \in Acts /\ acts[c] \in ActStates /\ acts[c].user \in UserIds \cup {Nobody}
  BY ActsUser DEF Acts
<1>2. PICK object \in acts[c].todo :
        /\ Link(object) \in tuples /\ Touch(object, c.role, acts[c].user)
        /\ acts' = [acts EXCEPT ![c] = t(object)]
  BY DEF GrantsRole, LinkFirst, Link
<1>3. object \in Engagements /\ c.role \in Granter /\ UNCHANGED shown
  BY AccessAssumption DEF GrantsInv, Granter, GrantsRole
<1>4. tuples' = tuples \cup {[on |-> object, rel |-> c.role, subject |-> acts[c].user]}
  BY <1>2 DEF Touch
<1>5. TuplesInv'
  BY <1>1, <1>2, <1>3, <1>4, GrantKeeps DEF GrantsInv
<1>6. /\ t(object).todo = acts[c].todo \ {object} /\ t(object).user = acts[c].user
      /\ t(object).pc = IF acts[c].todo # {object} THEN acts[c].pc
                       ELSE IF c \in Keys THEN "storing" ELSE "done"
  BY <1>1 DEF ActStates
<1> HIDE DEF t
<1>7. acts'[c] = t(object) /\ \A x \in Acts : x # c => acts'[x] = acts[x]
  BY <1>1, <1>2 DEF AccessInv, AccessTypes
<1>8. acts[c].pc = "granting"
  BY DEF GrantsRole
<1>9. ASSUME c \in Keys PROVE KeyInv(c)'
  <2>1. KeyInv(c)
    BY <1>9 DEF GrantsInv
  <2>2. acts[c].user = c.id /\ \A o \in c.on \ acts[c].todo : Held(c, o)
    BY <1>8, <2>1 DEF KeyInv
  <2>3. \A o : Held(c, o) => Held(c, o)'
    BY <1>4 DEF Held
  <2>4. Held(c, object)'
    BY <1>4, <2>2 DEF Held
  <2>5. \A o \in c.on \ acts'[c].todo : Held(c, o)'
    BY <1>6, <1>7, <2>2, <2>3, <2>4
  <2>6. CASE acts[c].todo # {object}
    <3>1. acts'[c].pc = "granting" /\ acts'[c].user = c.id
      BY <1>6, <1>7, <1>8, <2>2, <2>6
    <3>2. c \in shown' => \A o \in c.on : Held(c, o)'
      BY <1>3, <2>1, <2>3 DEF KeyInv
    <3> QED BY <2>5, <3>1, <3>2 DEF KeyInv
  <2>7. CASE acts[c].todo = {object}
    <3>1. acts'[c].pc = "storing"
      BY <1>6, <1>7, <1>9, <2>7
    <3>2. \A o \in c.on : Held(c, o)'
      BY <1>6, <1>7, <2>5, <2>7
    <3> QED BY <3>1, <3>2 DEF KeyInv
  <2> QED BY <2>6, <2>7
<1>10. acts'[c].todo \subseteq Engagements
  BY <1>6, <1>7 DEF GrantsInv
<1>11. tuples \subseteq tuples'
  BY <1>4
<1> QED BY <1>1, <1>3, <1>5, <1>7, <1>9, <1>10, <1>11, KeyAlone

LEMMA TenantGrants ==
  ASSUME AccessInv, GrantsInv, NEW k \in Keys, GrantsTenant(k)
  PROVE  GrantsInv'
<1> DEFINE t == [acts[k] EXCEPT !.pc = "storing"]
<1>1. k \in Acts /\ acts[k] \in ActStates /\ acts[k].user \in UserIds \cup {Nobody}
  BY ActsUser DEF Acts
<1>2. tuples' = tuples \cup {[on |-> Tenant, rel |-> k.role, subject |-> acts[k].user]}
  BY DEF GrantsTenant, Touch
<1>3. TuplesInv'
  BY <1>1, <1>2, AccessAssumption, GrantKeeps DEF GrantsInv, Granter
<1>4. acts' = [acts EXCEPT ![k] = t] /\ UNCHANGED shown /\ acts[k].pc = "tenant"
  BY DEF GrantsTenant, GoesTo
<1>5. t.todo = acts[k].todo /\ t.pc = "storing"
  BY <1>1 DEF ActStates
<1> HIDE DEF t
<1>6. acts'[k] = t /\ \A x \in Acts : x # k => acts'[x] = acts[x]
  BY <1>1, <1>4 DEF AccessInv, AccessTypes
<1>7. KeyInv(k)'
  <2>1. k.on = {}
    BY <1>4 DEF GrantsInv, KeyInv
  <2> QED BY <1>5, <1>6, <2>1 DEF KeyInv
<1>8. acts'[k].todo \subseteq Engagements /\ tuples \subseteq tuples'
  BY <1>2, <1>5, <1>6 DEF GrantsInv
<1> QED BY <1>1, <1>3, <1>4, <1>6, <1>7, <1>8, KeyAlone

LEMMA UserGrants ==
  ASSUME AccessInv, GrantsInv, NEW k \in Keys, InsertsUser(k)
  PROVE  GrantsInv'
<1> DEFINE t == [acts[k] EXCEPT !.pc = IF k.on = {} THEN "tenant" ELSE "granting",
                                !.user = k.id, !.todo = k.on]
<1>1. k \in Acts /\ acts[k] \in ActStates /\ k.on \subseteq Engagements
  BY ActsUser, AccessAssumption DEF Acts
<1>2. acts' = [acts EXCEPT ![k] = t] /\ UNCHANGED <<shown, tuples>>
  BY DEF InsertsUser
<1>3. t.todo = k.on /\ t.user = k.id /\ t.pc = IF k.on = {} THEN "tenant" ELSE "granting"
  BY <1>1 DEF ActStates
<1> HIDE DEF t
<1>4. acts'[k] = t /\ \A x \in Acts : x # k => acts'[x] = acts[x]
  BY <1>1, <1>2 DEF AccessInv, AccessTypes
<1>5. KeyInv(k)'
  BY <1>2, <1>3, <1>4 DEF KeyInv, GrantsInv, Held
<1>6. TuplesInv'
  BY <1>2, SameTuples DEF GrantsInv
<1> QED BY <1>1, <1>2, <1>3, <1>4, <1>5, <1>6, KeyAlone

LEMMA ShowsGrants ==
  ASSUME AccessInv, GrantsInv, NEW k \in Keys, ShowsKey(k)
  PROVE  GrantsInv'
<1> DEFINE t == [acts[k] EXCEPT !.pc = "done"]
<1>1. k \in Acts /\ acts[k] \in ActStates /\ acts[k].pc = "storing"
  BY ActsUser DEF Acts, ShowsKey, MayShow
<1>2. acts' = [acts EXCEPT ![k] = t] /\ UNCHANGED tuples /\ shown' = shown \cup {k}
  BY DEF ShowsKey, GoesTo
<1>3. t.todo = acts[k].todo /\ t.pc = "done"
  BY <1>1 DEF ActStates
<1> HIDE DEF t
<1>4. acts'[k] = t /\ \A x \in Acts : x # k => acts'[x] = acts[x]
  BY <1>1, <1>2 DEF AccessInv, AccessTypes
<1>5. TuplesInv'
  BY <1>2, SameTuples DEF GrantsInv
<1>6. ASSUME NEW x \in Keys PROVE KeyInv(x)'
  <2>1. KeyInv(x)
    BY DEF GrantsInv
  <2>2. CASE x = k
    BY <1>1, <1>2, <1>3, <1>4, <2>1, <2>2 DEF KeyInv, Held
  <2>3. CASE x # k
    <3>1. acts'[x] = acts[x] /\ (x \in shown' => x \in shown)
      BY <1>2, <1>4, <2>3 DEF Acts
    <3> QED BY <1>2, <2>1, <3>1 DEF KeyInv, Held
  <2> QED BY <2>2, <2>3
<1>7. ASSUME NEW c \in Admissions \cup Keys PROVE acts'[c].todo \subseteq Engagements
  BY <1>3, <1>4 DEF Acts, GrantsInv
<1> QED BY <1>2, <1>5, <1>6, <1>7 DEF GrantsInv

(* A call that goes on without granting and is no key's. *)
LEMMA OtherAlone ==
  ASSUME AccessInv, GrantsInv, UNCHANGED <<tuples, shown>>, NEW c \in Acts, c \notin Keys,
         NEW t, acts' = [acts EXCEPT ![c] = t], c \in Admissions => t.todo \subseteq Engagements
  PROVE  GrantsInv'
<1>1. acts'[c] = t /\ \A x \in Acts : x # c => acts'[x] = acts[x]
  BY DEF AccessInv, AccessTypes
<1>2. TuplesInv'
  BY SameTuples DEF GrantsInv
<1> QED BY <1>1, <1>2, KeyAlone

LEMMA FailsGrants ==
  ASSUME AccessInv, GrantsInv, NEW c \in Acts, ActFails(c)
  PROVE  GrantsInv'
<1> DEFINE t == [acts[c] EXCEPT !.pc = "failed"]
<1>1. acts[c] \in ActStates
  BY ActsUser
<1>2. acts' = [acts EXCEPT ![c] = t] /\ UNCHANGED <<tuples, shown>>
  BY DEF ActFails, GoesTo
<1>3. t.todo = acts[c].todo /\ t.pc = "failed"
  BY <1>1 DEF ActStates
<1> HIDE DEF t
<1>4. acts'[c] = t /\ \A x \in Acts : x # c => acts'[x] = acts[x]
  BY <1>2 DEF AccessInv, AccessTypes
<1>5. c \in Keys => KeyInv(c)'
  BY <1>2, <1>3, <1>4, KeysStay
<1>6. TuplesInv'
  BY <1>2, SameTuples DEF GrantsInv
<1>7. c \in Admissions \cup Keys => acts'[c].todo \subseteq Engagements
  BY <1>3, <1>4 DEF GrantsInv
<1> QED BY <1>2, <1>4, <1>5, <1>6, <1>7, KeyAlone

LEMMA LoginGrants ==
  ASSUME AccessInv, GrantsInv, NEW l \in Logins,
         Authenticates(l) \/ Updates(l) \/ FindsNone(l) \/ Inserts(l) \/ Opens(l)
  PROVE  GrantsInv'
<1>1. /\ l \in Acts /\ l \notin Keys /\ l \notin Admissions
      /\ UNCHANGED <<tuples, shown>>
  BY AccessAssumption DEF Acts, Authenticates, Updates, FindsNone, Inserts, Opens
<1>2. TuplesInv'
  BY <1>1, SameTuples DEF GrantsInv
<1>3. \A c \in Admissions \cup Keys : acts'[c] = acts[c]
  <2>1. CASE Authenticates(l)
    <3>1. ASSUME NEW c \in Admissions \cup Keys PROVE acts'[c] = acts[c]
      <4>1. c \in Acts /\ c # l /\ c \notin Deprovisions
        BY AccessAssumption DEF Acts
      <4> QED BY <2>1, <4>1 DEF Authenticates
    <3> QED BY <3>1
  <2>2. CASE FindsNone(l) \/ Opens(l)
    <3>1. PICK pc : GoesTo(l, pc)
      BY <2>2 DEF FindsNone, Opens
    <3> QED BY <1>1, <3>1 DEF GoesTo, AccessInv, AccessTypes, Acts
  <2>3. CASE Updates(l)
    BY <1>1, <2>3 DEF Updates, GoesTo, AccessInv, AccessTypes, Acts
  <2>4. CASE Inserts(l)
    <3>1. PICK id : acts' = [acts EXCEPT ![l].pc = "granting", ![l].user = id]
      BY <2>4 DEF Inserts
    <3> QED BY <1>1, <3>1 DEF AccessInv, AccessTypes, Acts
  <2> QED BY <2>1, <2>2, <2>3, <2>4
<1>4. ASSUME NEW k \in Keys PROVE KeyInv(k)'
  BY <1>1, <1>3, KeysStay
<1> QED BY <1>1, <1>2, <1>3, <1>4 DEF GrantsInv

LEMMA EventGrants ==
  ASSUME AccessInv, GrantsInv, NEW d \in Deprovisions, Disables(d) \/ Revokes(d)
  PROVE  GrantsInv'
<1>1. d \in Acts /\ d \notin Keys /\ d \notin Admissions /\ UNCHANGED <<tuples, shown>>
  BY AccessAssumption DEF Acts, Disables, Revokes
<1>2. \A x \in Acts : x # d => acts'[x] = acts[x]
  <2>1. CASE Disables(d)
    BY <2>1 DEF Disables, AccessInv, AccessTypes
  <2>2. CASE Revokes(d)
    BY <2>2 DEF Revokes, GoesTo, AccessInv, AccessTypes
  <2> QED BY <2>1, <2>2
<1>3. TuplesInv'
  BY <1>1, SameTuples DEF GrantsInv
<1> QED BY <1>1, <1>2, <1>3, KeyAlone

LEMMA GateGrants ==
  ASSUME AccessInv, GrantsInv, NEW a \in Admissions, Gates(a)
  PROVE  GrantsInv'
<1>1. a \in Acts /\ a \notin Keys /\ a.on \in Engagements /\ UNCHANGED <<tuples, shown>>
  BY AccessAssumption DEF Acts, Gates
<1>2. PICK pc, grantee : acts' = [acts EXCEPT ![a].pc = pc, ![a].user = grantee, ![a].todo = {a.on}]
  BY DEF Gates
<1> DEFINE t == [acts[a] EXCEPT !.pc = pc, !.user = grantee, !.todo = {a.on}]
<1>3. acts' = [acts EXCEPT ![a] = t]
  BY <1>2
<1>4. acts[a] \in ActStates
  BY <1>1, ActsUser
<1>5. t.todo \subseteq Engagements
  BY <1>1, <1>4 DEF ActStates
<1> HIDE DEF t
<1> QED BY <1>1, <1>3, <1>5, OtherAlone

LEMMA ListGrants ==
  ASSUME AccessInv, GrantsInv, NEW q \in Lists, ParentsAll(q) \/ ListsViewable(q)
  PROVE  GrantsInv'
<1>1. q \in Acts /\ q \notin Keys /\ q \notin Admissions /\ UNCHANGED shown
  BY AccessAssumption DEF Acts, ParentsAll, ListsViewable
<1>2. TuplesInv' /\ tuples \subseteq tuples'
  <2>1. CASE ParentsAll(q)
    <3>1. PICK object \in Engagements : Touch(object, "parent_tenant", Tenant)
      BY <2>1 DEF ParentsAll
    <3>2. tuples' = tuples \cup {Link(object)}
      BY <3>1 DEF Touch, Link
    <3> QED BY <3>2, LinkKeeps DEF GrantsInv
  <2>2. CASE ListsViewable(q)
    <3>1. UNCHANGED tuples
      BY <2>2 DEF ListsViewable
    <3> QED BY <3>1, SameTuples DEF GrantsInv
  <2> QED BY <2>1, <2>2
<1>3. \A x \in Acts : x # q => acts'[x] = acts[x]
  <2>1. CASE ParentsAll(q)
    <3>1. PICK todo, pc : acts' = [acts EXCEPT ![q].todo = todo, ![q].pc = pc]
      BY <2>1 DEF ParentsAll
    <3> QED BY <3>1 DEF AccessInv, AccessTypes
  <2>2. CASE ListsViewable(q)
    <3>1. PICK caller, todo : acts' = [acts EXCEPT ![q].pc = "done", ![q].user = caller, ![q].todo = todo]
      BY <2>2 DEF ListsViewable
    <3> QED BY <3>1 DEF AccessInv, AccessTypes
  <2> QED BY <2>1, <2>2
<1> QED BY <1>1, <1>2, <1>3, KeyAlone

LEMMA GrantsKeep ==
  AccessInv /\ GrantsInv /\ [AccessNext]_accessVars => GrantsInv'
<1> SUFFICES ASSUME AccessInv, GrantsInv, [AccessNext]_accessVars PROVE GrantsInv'
  OBVIOUS
<1>1. CASE UNCHANGED accessVars
  <2>1. UNCHANGED <<tuples, shown, acts>>
    BY <1>1 DEF accessVars
  <2>2. TuplesInv'
    BY <2>1, SameTuples DEF GrantsInv
  <2> QED BY <2>1, <2>2 DEF GrantsInv, KeyInv, Held
<1> QED BY <1>1, RestartGrants, FailsGrants, LoginGrants, SeedsGrants, EventGrants, GateGrants, UserGrants,
           TenantGrants, ShowsGrants, LinkGrants, RoleGrants, ListGrants DEF AccessNext

LEMMA GrantsInvariant == AccessSpec => [](AccessInv /\ GrantsInv)
<1>1. AccessInit => GrantsInv
  <2> SUFFICES ASSUME AccessInit PROVE GrantsInv
    OBVIOUS
  <2>1. \A c \in Acts : acts[c].pc = "idle" /\ acts[c].todo = {}
    BY DEF AccessInit, Fresh
  <2> QED BY <2>1 DEF AccessInit, GrantsInv, TuplesInv, RolesHangOffTenant, KeyInv, Acts
<1> QED BY <1>1, AccessInitInv, AccessKeeps, GrantsKeep, PTL DEF AccessSpec

(* linkEngagementToTenant before every grantEngagementRole: wherever a call that
   grants a role fails or the process dies, an engagement with a role on it hangs
   off its tenant, for any calls. *)
THEOREM RolesAreUnderTenant == AccessSpec => []RolesHangOffTenant
<1>1. GrantsInv => RolesHangOffTenant
  BY DEF GrantsInv, TuplesInv
<1> QED BY <1>1, GrantsInvariant, PTL

LEMMA RulesAre ==
  /\ Rules["tenant"]["administer"] = {"admin"}
  /\ Rules["tenant"]["belong"] = {"admin", "member"}
  /\ Rules["engagement"]["administer"] = {"admin"}
  /\ Rules["engagement"]["contribute"] = {"member", "admin"}
  /\ Rules["engagement"]["view"] = {"viewer", "member", "admin", "parent_tenant->administer"}
BY DEF Rules

(* main of issue-api-key: every engagement's grant is committed before the key is
   printed, so a key that was shown works on all of them, whatever failed around
   it and however often the process restarted. *)
THEOREM ShownKeysWork == AccessSpec => []ShownKeyWorks
<1>1. ASSUME GrantsInv, NEW k \in shown, NEW object \in k.on PROVE Resolve(object, "view", k.id)
  <2>1. k \in Keys /\ object \in Engagements /\ object # Tenant /\ k.role \in Granter
    BY <1>1, AccessAssumption DEF GrantsInv, Granter
  <2>2. Held(k, object)
    BY <1>1, <2>1 DEF GrantsInv, KeyInv
  <2>3. Granted(object, "view", k.id)
    BY <2>1, <2>2, RulesAre DEF Granted, TypeOf, RelationHolds, Held, Granter
  <2> QED BY <2>3 DEF Resolve
<1>2. GrantsInv => ShownKeyWorks
  BY <1>1 DEF ShownKeyWorks
<1> QED BY <1>2, GrantsInvariant, PTL

(* The client's rules against the schema. *)
LEMMA OnTenant ==
  ASSUME NEW u
  PROVE  \A p \in {"administer", "belong"} : Resolve(Tenant, p, u) <=> InSchema(Tenant, p, u)
<1>1. TypeOf(Tenant) = "tenant"
  BY DEF TypeOf
<1>2. Resolve(Tenant, "administer", u) <=> InSchema(Tenant, "administer", u)
  BY <1>1, RulesAre DEF Resolve, Granted, InSchema
<1>3. Resolve(Tenant, "belong", u) <=> InSchema(Tenant, "belong", u)
  BY <1>1, RulesAre DEF Resolve, Granted, InSchema
<1> QED BY <1>2, <1>3

LEMMA OnEngagement ==
  ASSUME TuplesInv, NEW u, NEW object \in Engagements
  PROVE  \A p \in {"view", "contribute", "administer"} : Resolve(object, p, u) <=> InSchema(object, p, u)
<1>1. TypeOf(object) = "engagement" /\ TypeOf(Tenant) = "tenant"
  BY AccessAssumption DEF TypeOf
<1>2. Resolve(object, "administer", u) <=> InSchema(object, "administer", u)
  BY <1>1, RulesAre DEF Resolve, Granted, InSchema
<1>3. Resolve(object, "contribute", u) <=> InSchema(object, "contribute", u)
  BY <1>1, RulesAre DEF Resolve, Granted, InSchema
<1>4. Resolve(object, "view", u) <=> InSchema(object, "view", u)
  <2>1. ~RelationHolds(object, "parent_tenant->administer", u)
    <3>1. ASSUME RelationHolds(object, "parent_tenant->administer", u) PROVE FALSE
      <4>1. [on |-> object, rel |-> "parent_tenant->administer", subject |-> u] \in TupleShapes
        BY <3>1 DEF RelationHolds, TuplesInv
      <4> QED BY <4>1 DEF TupleShapes, Granter
    <3> QED BY <3>1
  <2>2. Granted(object, "view", u) <=> \E rel \in {"viewer", "member", "admin"} : RelationHolds(object, rel, u)
    BY <1>1, <2>1, RulesAre DEF Granted
  <2>3. Granted(Tenant, "administer", u) <=> RelationHolds(Tenant, "admin", u)
    BY <1>1, RulesAre DEF Granted
  <2>4. (\E t \in tuples : t.on = object /\ t.rel = "parent_tenant" /\ Granted(t.subject, "administer", u))
        <=> RelationHolds(object, "parent_tenant", Tenant) /\ RelationHolds(Tenant, "admin", u)
    <3>1. ASSUME NEW t \in tuples, t.on = object, t.rel = "parent_tenant", Granted(t.subject, "administer", u)
          PROVE  RelationHolds(object, "parent_tenant", Tenant) /\ RelationHolds(Tenant, "admin", u)
      <4>1. t.subject = Tenant /\ t \in TupleShapes
        BY <3>1 DEF TuplesInv
      <4>2. t = [on |-> object, rel |-> "parent_tenant", subject |-> Tenant]
        BY <3>1, <4>1 DEF TupleShapes
      <4> QED BY <2>3, <3>1, <4>1, <4>2 DEF RelationHolds
    <3>2. ASSUME RelationHolds(object, "parent_tenant", Tenant), RelationHolds(Tenant, "admin", u)
          PROVE  \E t \in tuples : t.on = object /\ t.rel = "parent_tenant" /\ Granted(t.subject, "administer", u)
      <4>1. Granted(Tenant, "administer", u)
        BY <2>3, <3>2
      <4> QED BY <3>2, <4>1 DEF RelationHolds
    <3> QED BY <3>1, <3>2
  <2>5. "parent_tenant->administer" \in Rules[TypeOf(object)]["view"]
    BY <1>1, RulesAre
  <2> QED BY <2>2, <2>4, <2>5 DEF Resolve, InSchema
<1> QED BY <1>2, <1>3, <1>4

(* InMemoryAuthzClient: for any calls, in any interleaving, with any failures and
   restarts, the client the tests run on answers every check as the schema does,
   and its lookup lists exactly the engagements a check admits. *)
THEOREM ClientFollowsSchema == AccessSpec => []ResolutionFollowsSchema
<1>1. ASSUME GrantsInv, NEW u
      PROVE  LookupResources("engagement", "view", u) = {e \in Engagements : InSchema(e, "view", u)}
  <2>1. \A e \in Engagements : Resolve(e, "view", u) <=> InSchema(e, "view", u)
    BY <1>1, OnEngagement DEF GrantsInv
  <2>2. ASSUME NEW e \in LookupResources("engagement", "view", u) PROVE e \in Engagements /\ Resolve(e, "view", u)
    <3>1. PICK t \in tuples : TypeOf(t.on) = "engagement" /\ e = t.on /\ Resolve(e, "view", u)
      BY <2>2 DEF LookupResources
    <3>2. t.on \in Engagements \cup {Tenant}
      BY <1>1 DEF GrantsInv, TuplesInv, TupleShapes
    <3> QED BY <3>1, <3>2 DEF TypeOf
  <2>3. ASSUME NEW e \in Engagements, InSchema(e, "view", u) PROVE e \in LookupResources("engagement", "view", u)
    <3>1. PICK rel, subject : RelationHolds(e, rel, subject)
      BY <2>3 DEF InSchema
    <3>2. [on |-> e, rel |-> rel, subject |-> subject] \in tuples
      BY <3>1 DEF RelationHolds
    <3>3. TypeOf(e) = "engagement"
      BY AccessAssumption DEF TypeOf
    <3>4. \E t \in tuples : TypeOf(t.on) = "engagement" /\ e = t.on
      BY <3>2, <3>3
    <3> QED BY <2>1, <2>3, <3>4 DEF LookupResources
  <2> QED BY <2>1, <2>2, <2>3
<1>2. ASSUME GrantsInv, NEW u, NEW object \in Engagements, NEW p \in {"view", "contribute", "administer"}
      PROVE  Resolve(object, p, u) = InSchema(object, p, u)
  <2>1. Resolve(object, p, u) <=> InSchema(object, p, u)
    BY <1>2, OnEngagement DEF GrantsInv
  <2>2. Resolve(object, p, u) \in BOOLEAN
    BY DEF Resolve
  <2>3. InSchema(object, p, u) \in BOOLEAN
    BY DEF InSchema
  <2> QED BY <2>1, <2>2, <2>3
<1>3. ASSUME NEW u, NEW p \in {"administer", "belong"}
      PROVE  Resolve(Tenant, p, u) = InSchema(Tenant, p, u)
  <2>1. Resolve(Tenant, p, u) <=> InSchema(Tenant, p, u)
    BY OnTenant
  <2>2. Resolve(Tenant, p, u) \in BOOLEAN
    BY DEF Resolve
  <2>3. InSchema(Tenant, p, u) \in BOOLEAN
    BY DEF InSchema
  <2> QED BY <2>1, <2>2, <2>3
<1>4. GrantsInv => ResolutionFollowsSchema
  BY <1>1, <1>2, <1>3 DEF ResolutionFollowsSchema
<1> QED BY <1>4, GrantsInvariant, PTL

-----------------------------------------------------------------------------
(* Custom integrations used through the API.  A push takes its mapping from one  *)
(* read of the row and checks it whole before anything is written.               *)

ValidMappings == {m \in Mappings : ValidMapping(m)}
IntegrationRows == [enabled : BOOLEAN, mapping : ValidMappings, secret : Nat]

IntegrationTypes ==
  /\ rows \in [Ids -> IntegrationRows \cup {NoRow}]
  /\ issued \in Nat
  /\ pushes = [p \in Pushers |-> pushes[p]]

Checked(p) ==
  LET r == pushes[p] IN r.mapping \in Mappings /\ Issues(r.mapping, r.payload) = {}

PushInv ==
  /\ IntegrationTypes
  /\ \A p \in Pushers : pushes[p] # NoPush => Checked(p)
  /\ PushesLandWhole

(* A payload without an issue resolves every part of the mapping. *)
LEMMA NoIssueIsWhole ==
  ASSUME NEW m \in Mappings, NEW payload, Issues(m, payload) = {}
  PROVE  Records(m, payload) = [entities |-> ToSet(m.entities), edges |-> ToSet(m.relationships)]
<1> DEFINE keys == {e.key : e \in Resolved(m, payload)}
           kept == {[key |-> e.key, attributes |-> e.attributes \cap payload] : e \in Resolved(m, payload)}
           joined == {r \in ToSet(m.relationships) : {r.from, r.to} \subseteq keys}
<1>1. Resolved(m, payload) = ToSet(m.entities)
  <2>1. {{e.key} : e \in ToSet(m.entities) \ Resolved(m, payload)} = {}
    BY DEF Issues
  <2>2. \A e \in ToSet(m.entities) \ Resolved(m, payload) :
          {e.key} \in {{x.key} : x \in ToSet(m.entities) \ Resolved(m, payload)}
    OBVIOUS
  <2>3. \A e \in ToSet(m.entities) : e \in Resolved(m, payload)
    BY <2>1, <2>2
  <2> QED BY <2>3 DEF Resolved
<1>2. \A e \in ToSet(m.entities) : e.attributes \subseteq payload
  <2>1. {{a} : a \in UNION {e.attributes \ payload : e \in Resolved(m, payload)}} = {}
    BY DEF Issues
  <2> SUFFICES ASSUME NEW e \in ToSet(m.entities), NEW a \in e.attributes, a \notin payload
               PROVE  FALSE
    OBVIOUS
  <2>2. e \in Resolved(m, payload) /\ a \in e.attributes \ payload
    BY <1>1
  <2>3. a \in UNION {x.attributes \ payload : x \in Resolved(m, payload)}
    BY <2>2
  <2>4. {a} \in {{b} : b \in UNION {x.attributes \ payload : x \in Resolved(m, payload)}}
    BY <2>3
  <2> QED BY <2>1, <2>4
<1>3. \A r \in ToSet(m.relationships) : {r.from, r.to} \subseteq keys
  <2>1. {{r.from, r.to} : r \in {q \in ToSet(m.relationships) : ~{q.from, q.to} \subseteq keys}} = {}
    BY DEF Issues
  <2> SUFFICES ASSUME NEW r \in ToSet(m.relationships), ~({r.from, r.to} \subseteq keys)
               PROVE  FALSE
    OBVIOUS
  <2>2. r \in {q \in ToSet(m.relationships) : ~{q.from, q.to} \subseteq keys}
    OBVIOUS
  <2> DEFINE bad == {q \in ToSet(m.relationships) : ~{q.from, q.to} \subseteq keys}
  <2> HIDE DEF bad
  <2>3. {r.from, r.to} \in {{x.from, x.to} : x \in bad}
    BY <2>2 DEF bad
  <2> QED BY <2>1, <2>3 DEF bad
<1>4. kept = ToSet(m.entities)
  <2>1. \A e \in ToSet(m.entities) : [key |-> e.key, attributes |-> e.attributes \cap payload] = e
    <3> TAKE e \in ToSet(m.entities)
    <3>1. e.attributes \cap payload = e.attributes
      BY <1>2
    <3>2. e = [key |-> e.key, attributes |-> e.attributes]
      BY IntegrationsAssumption
    <3> QED BY <3>1, <3>2
  <2> DEFINE part(e) == [key |-> e.key, attributes |-> e.attributes \cap payload]
  <2>2. kept = {part(e) : e \in ToSet(m.entities)}
    BY <1>1
  <2>3. \A e \in ToSet(m.entities) : part(e) = e
    BY <2>1
  <2> HIDE DEF part, kept
  <2> QED BY <2>2, <2>3
<1>5. joined = ToSet(m.relationships)
  BY <1>3
<1>6. Records(m, payload) = [entities |-> kept, edges |-> joined]
  BY DEF Records
<1> QED BY <1>4, <1>5, <1>6

LEMMA AdministersKeepsTypes ==
  ASSUME IntegrationTypes, AdministersNext
  PROVE  IntegrationTypes'
<1>1. PICK i \in Ids :
        \/ \E m \in Mappings : Creates(i, m) \/ Maps(i, m)
        \/ Toggles(i) \/ Rotates(i) \/ Removes(i)
  BY DEF AdministersNext
<1>2. UNCHANGED pushes
  BY DEF AdministersNext
<1>3. ASSUME NEW row \in IntegrationRows \cup {NoRow}, NEW n \in Nat,
             rows' = [rows EXCEPT ![i] = row], issued' = n
      PROVE  IntegrationTypes'
  BY <1>2, <1>3 DEF IntegrationTypes
<1>4. rows[i] # NoRow => rows[i] \in IntegrationRows
  BY DEF IntegrationTypes
<1>5. ASSUME NEW m \in Mappings, Creates(i, m) PROVE IntegrationTypes'
  <2> DEFINE row == [enabled |-> TRUE, mapping |-> m, secret |-> issued']
  <2>1. row \in IntegrationRows /\ issued' \in Nat
    BY <1>5 DEF Creates, IntegrationTypes, IntegrationRows, ValidMappings
  <2>2. rows' = [rows EXCEPT ![i] = row]
    BY <1>5 DEF Creates
  <2> HIDE DEF row
  <2> QED BY <1>3, <2>1, <2>2
<1>6. ASSUME NEW m \in Mappings, Maps(i, m) PROVE IntegrationTypes'
  <2> DEFINE row == [rows[i] EXCEPT !.mapping = m]
  <2>1. row \in IntegrationRows
    BY <1>4, <1>6 DEF Maps, IntegrationRows, ValidMappings
  <2>2. rows' = [rows EXCEPT ![i] = row] /\ issued' = issued /\ issued \in Nat
    BY <1>6 DEF Maps, IntegrationTypes
  <2> HIDE DEF row
  <2> QED BY <1>3, <2>1, <2>2
<1>7. ASSUME Toggles(i) PROVE IntegrationTypes'
  <2> DEFINE row == [rows[i] EXCEPT !.enabled = ~rows[i].enabled]
  <2>1. row \in IntegrationRows
    BY <1>4, <1>7 DEF Toggles, IntegrationRows
  <2>2. rows' = [rows EXCEPT ![i] = row] /\ issued' = issued /\ issued \in Nat
    BY <1>7 DEF Toggles, IntegrationTypes
  <2> HIDE DEF row
  <2> QED BY <1>3, <2>1, <2>2
<1>8. ASSUME Rotates(i) PROVE IntegrationTypes'
  <2> DEFINE row == [rows[i] EXCEPT !.secret = issued']
  <2>1. row \in IntegrationRows /\ issued' \in Nat
    BY <1>4, <1>8 DEF Rotates, IntegrationRows, IntegrationTypes
  <2>2. rows' = [rows EXCEPT ![i] = row]
    BY <1>8 DEF Rotates
  <2> HIDE DEF row
  <2> QED BY <1>3, <2>1, <2>2
<1>9. ASSUME Removes(i) PROVE IntegrationTypes'
  <2>1. rows' = [rows EXCEPT ![i] = NoRow] /\ issued' = issued /\ issued \in Nat
    BY <1>9 DEF Removes, IntegrationTypes
  <2> QED BY <1>3, <2>1
<1> QED BY <1>1, <1>5, <1>6, <1>7, <1>8, <1>9

LEMMA PushKeeps == PushInv /\ [AdministersNext \/ PushNext]_integrationVars => PushInv'
<1> SUFFICES ASSUME PushInv, [AdministersNext \/ PushNext]_integrationVars PROVE PushInv'
  OBVIOUS
<1>1. CASE UNCHANGED integrationVars
  BY <1>1 DEF integrationVars, PushInv, IntegrationTypes, Checked, PushesLandWhole
<1>2. CASE AdministersNext
  <2>1. UNCHANGED <<pushes, landed>>
    BY <1>2 DEF AdministersNext
  <2> QED BY <1>2, <2>1, AdministersKeepsTypes DEF PushInv, Checked, PushesLandWhole
<1>3. ASSUME NEW p \in Pushers, NEW i \in Ids, NEW secret, NEW payload, NEW here,
             Arrives(p, i, secret, payload, here)
      PROVE  PushInv'
  <2> DEFINE r == [mapping |-> rows[i].mapping, payload |-> payload]
  <2>1. /\ rows[i] # NoRow /\ Issues(rows[i].mapping, payload) = {}
        /\ pushes' = [pushes EXCEPT ![p] = r] /\ UNCHANGED <<rows, issued, landed>>
    BY <1>3 DEF Arrives, Accepts
  <2>2. r.mapping \in Mappings /\ Issues(r.mapping, r.payload) = {}
    BY <2>1 DEF PushInv, IntegrationTypes, IntegrationRows, ValidMappings
  <2> HIDE DEF r
  <2>3. pushes'[p] = r /\ \A q \in Pushers : q # p => pushes'[q] = pushes[q]
    BY <2>1 DEF PushInv, IntegrationTypes
  <2>4. pushes' = [q \in Pushers |-> pushes'[q]]
    BY <2>1 DEF PushInv, IntegrationTypes
  <2> QED BY <2>1, <2>2, <2>3, <2>4 DEF PushInv, IntegrationTypes, Checked, PushesLandWhole
<1>4. ASSUME NEW p \in Pushers, Lands(p) PROVE PushInv'
  <2>1. pushes[p] # NoPush /\ pushes' = [pushes EXCEPT ![p] = NoPush] /\ UNCHANGED <<rows, issued>>
    BY <1>4 DEF Lands
  <2>2. pushes' = [q \in Pushers |-> pushes'[q]] /\ pushes'[p] = NoPush
        /\ \A q \in Pushers : q # p => pushes'[q] = pushes[q]
    BY <2>1 DEF PushInv, IntegrationTypes
  <2>3. Records(pushes[p].mapping, pushes[p].payload)
          = [entities |-> ToSet(pushes[p].mapping.entities),
             edges |-> ToSet(pushes[p].mapping.relationships)]
    BY <2>1, NoIssueIsWhole DEF PushInv, Checked
  <2>4. PushesLandWhole'
    <3>1. CASE landed' = [mapping |-> pushes[p].mapping,
                          records |-> Records(pushes[p].mapping, pushes[p].payload)]
      BY <2>3, <3>1 DEF PushesLandWhole
    <3> QED BY <1>4, <3>1 DEF Lands, PushInv, PushesLandWhole
  <2> QED BY <2>1, <2>2, <2>4 DEF PushInv, IntegrationTypes, Checked
<1> QED BY <1>1, <1>2, <1>3, <1>4 DEF PushNext

(* normalizeCustomArtifact before landArtifactWithGraph: whatever the
   administrator does to the mapping between a push's read and its landing, it
   lands all of one mapping or nothing. *)
THEOREM PushLandsWhole == IntegrationsSpec => []PushesLandWhole
<1>1. IntegrationsInit => PushInv
  BY IntegrationsAssumption DEF IntegrationsInit, PushInv, IntegrationTypes, PushesLandWhole
<1>2. PushInv => PushesLandWhole
  BY DEF PushInv
<1> QED BY <1>1, <1>2, PushKeeps, PTL DEF IntegrationsSpec

-----------------------------------------------------------------------------
(* The panel.  Between the API's answer and the panel's hearing of it the reply   *)
(* has the row as it is, unless somebody else changed it.                         *)

PanelKinds == {"test", "save", "toggle", "rotate", "delete"}

PanelTypes ==
  /\ rows = [i \in Ids |-> rows[i]]
  /\ items = [i \in Ids |-> items[i]]
  /\ requests = [i \in Ids |-> requests[i]]
  /\ \A i \in Ids : LET r == requests[i] IN
       r # Idle => /\ r = [kind |-> r.kind, reply |-> r.reply, draft |-> r.draft]
                   /\ r.kind \in PanelKinds /\ r.reply \in {"none", "done", "refused"}

CardInv(i) ==
  i \notin missed =>
    IF requests[i] # Idle /\ requests[i].reply = "done"
    THEN requests[i].draft = ViewOf(rows[i])
    ELSE items[i] = ViewOf(rows[i])

CardsInv == PanelTypes /\ \A i \in Ids : CardInv(i)

LEMMA OneRowChanges ==
  ASSUME NEW i \in Ids, rows = [j \in Ids |-> rows[j]], Performs(i), requests[i].kind \in PanelKinds
  PROVE  rows' = [j \in Ids |-> rows'[j]] /\ \A j \in Ids : j # i => rows'[j] = rows[j]
<1>1. CASE requests[i].kind = "toggle"
  BY <1>1 DEF Performs, Toggles
<1>2. CASE requests[i].kind = "rotate"
  BY <1>2 DEF Performs, Rotates
<1>3. CASE requests[i].kind = "delete"
  BY <1>3 DEF Performs, Removes
<1>4. CASE requests[i].kind = "save"
  BY <1>4 DEF Performs, Creates, Maps
<1>5. CASE requests[i].kind = "test"
  BY <1>5 DEF Performs
<1> QED BY <1>1, <1>2, <1>3, <1>4, <1>5 DEF PanelKinds

LEMMA CardMoves ==
  ASSUME CardsInv, NEW i \in Ids, NEW r,
         requests' = [requests EXCEPT ![i] = r],
         r # Idle => /\ r = [kind |-> r.kind, reply |-> r.reply, draft |-> r.draft]
                     /\ r.kind \in PanelKinds /\ r.reply \in {"none", "done", "refused"},
         rows' = [j \in Ids |-> rows'[j]], items' = [j \in Ids |-> items'[j]],
         \A j \in Ids : j # i => rows'[j] = rows[j] /\ items'[j] = items[j],
         missed \subseteq missed',
         i \notin missed' => IF r # Idle /\ r.reply = "done"
                             THEN r.draft = ViewOf(rows'[i])
                             ELSE items'[i] = ViewOf(rows'[i])
  PROVE  CardsInv'
<1>1. requests' = [j \in Ids |-> requests'[j]] /\ requests'[i] = r
      /\ \A j \in Ids : j # i => requests'[j] = requests[j]
  BY DEF CardsInv, PanelTypes
<1>2. PanelTypes'
  BY <1>1 DEF CardsInv, PanelTypes
<1>3. ASSUME NEW j \in Ids PROVE CardInv(j)'
  <2>1. CASE j = i
    BY <1>1, <2>1 DEF CardInv, ViewOf
  <2>2. CASE j # i
    BY <1>1, <2>2 DEF CardsInv, CardInv, ViewOf
  <2> QED BY <2>1, <2>2
<1> QED BY <1>2, <1>3 DEF CardsInv

LEMMA AsksKeeps ==
  ASSUME CardsInv, NEW i \in Ids, NEW kind \in PanelKinds, Asks(i, kind)
  PROVE  CardsInv'
<1> DEFINE r == [kind |-> kind, reply |-> "none",
                 draft |-> IF kind = "save" THEN MappingFromDraft(drafts[i]) ELSE NoView]
<1>1. /\ r = [kind |-> r.kind, reply |-> r.reply, draft |-> r.draft]
      /\ r.kind \in PanelKinds /\ r.reply = "none"
  OBVIOUS
<1>2. requests[i] = Idle /\ requests' = [requests EXCEPT ![i] = r]
      /\ UNCHANGED <<rows, items, missed>>
  BY DEF Asks, integrationVars
<1> HIDE DEF r
<1>3. i \notin missed => items[i] = ViewOf(rows[i])
  BY <1>2 DEF CardsInv, CardInv
<1>4. rows = [j \in Ids |-> rows[j]] /\ items = [j \in Ids |-> items[j]]
  BY DEF CardsInv, PanelTypes
<1> QED BY <1>1, <1>2, <1>3, <1>4, CardMoves DEF ViewOf

LEMMA AnswersKeeps ==
  ASSUME CardsInv, NEW i \in Ids, Answers(i)
  PROVE  CardsInv'
<1>1. /\ requests[i] # Idle /\ requests[i].reply = "none" /\ requests[i].kind \in PanelKinds
      /\ requests[i] = [kind |-> requests[i].kind, reply |-> requests[i].reply,
                        draft |-> requests[i].draft]
      /\ UNCHANGED <<items, missed>>
  BY DEF Answers, CardsInv, PanelTypes
<1>2. rows = [j \in Ids |-> rows[j]] /\ items = [j \in Ids |-> items[j]]
      /\ (i \notin missed => items[i] = ViewOf(rows[i]))
  BY <1>1 DEF CardsInv, PanelTypes, CardInv
<1>3. ASSUME NEW reply \in {"done", "refused"}, NEW draft,
             requests' = [requests EXCEPT ![i].reply = reply, ![i].draft = draft],
             rows' = [j \in Ids |-> rows'[j]], \A j \in Ids : j # i => rows'[j] = rows[j],
             reply = "done" => draft = ViewOf(rows'[i]),
             reply = "refused" => rows'[i] = rows[i]
      PROVE  CardsInv'
  <2> DEFINE r == [kind |-> requests[i].kind, reply |-> reply, draft |-> draft]
  <2>0. /\ r = [kind |-> r.kind, reply |-> r.reply, draft |-> r.draft]
        /\ r.kind = requests[i].kind /\ r.reply = reply /\ r.draft = draft
    OBVIOUS
  <2>2. [requests[i] EXCEPT !.reply = reply, !.draft = draft] = r
    <3> DEFINE q == requests[i]
               R == [kind : PanelKinds, reply : {"none", "done", "refused"},
                     draft : {requests[i].draft, draft}]
               y == [q EXCEPT !.reply = reply, !.draft = draft]
    <3>1. q \in R
      BY <1>1
    <3> HIDE DEF q
    <3>2. y \in R /\ y.kind = q.kind /\ y.reply = reply /\ y.draft = draft
      BY <1>3, <3>1
    <3>3. r \in R /\ r.kind = q.kind /\ r.reply = reply /\ r.draft = draft
      BY <1>1, <1>3 DEF q
    <3> HIDE DEF y, r
    <3>4. y = r
      BY <3>2, <3>3
    <3> QED BY <3>4 DEF y, q
  <2>3. requests' = [requests EXCEPT ![i] = r]
    BY <1>3, <2>2
  <2> HIDE DEF r
  <2>1. r.kind \in PanelKinds /\ r.reply = reply /\ r.draft = draft /\ reply \in {"none", "done", "refused"}
    BY <1>1, <1>3, <2>0
  <2>4. i \notin missed' => IF r # Idle /\ r.reply = "done"
                            THEN r.draft = ViewOf(rows'[i])
                            ELSE items'[i] = ViewOf(rows'[i])
    <3>1. CASE reply = "done"
      <4>1. r # Idle
        BY <2>1, <3>1 DEF Idle, PanelKinds
      <4> QED BY <1>3, <2>1, <3>1, <4>1
    <3>2. CASE reply = "refused"
      BY <1>1, <1>2, <1>3, <2>1, <3>2 DEF ViewOf
    <3> QED BY <3>1, <3>2
  <2>5. r # Idle => /\ r = [kind |-> r.kind, reply |-> r.reply, draft |-> r.draft]
                     /\ r.kind \in PanelKinds /\ r.reply \in {"none", "done", "refused"}
    BY <2>0, <2>1
  <2>6. /\ items' = [j \in Ids |-> items'[j]] /\ missed \subseteq missed'
        /\ \A j \in Ids : j # i => rows'[j] = rows[j] /\ items'[j] = items[j]
    BY <1>1, <1>2, <1>3
  <2>7. rows' = [j \in Ids |-> rows'[j]]
    BY <1>3
  <2> QED BY <2>3, <2>4, <2>5, <2>6, <2>7, CardMoves
<1>4. CASE /\ Performs(i)
           /\ requests' = [requests EXCEPT ![i].reply = "done", ![i].draft = ViewOf(rows'[i])]
  <2>1. rows' = [j \in Ids |-> rows'[j]] /\ \A j \in Ids : j # i => rows'[j] = rows[j]
    BY <1>1, <1>2, <1>4, OneRowChanges
  <2> QED BY <1>3, <1>4, <2>1
<1>5. CASE /\ requests' = [requests EXCEPT ![i].reply = "refused", ![i].draft = NoView]
           /\ UNCHANGED <<rows, issued>>
  BY <1>2, <1>3, <1>5
<1> QED BY <1>4, <1>5 DEF Answers

LEMMA HearsKeeps ==
  ASSUME CardsInv, NEW i \in Ids, Hears(i)
  PROVE  CardsInv'
<1>1. /\ requests[i] # Idle /\ requests[i].reply \in {"done", "refused"}
      /\ requests' = [requests EXCEPT ![i] = Idle] /\ UNCHANGED <<rows, missed>>
  BY DEF Hears, CardsInv, PanelTypes, integrationVars
<1>2. rows = [j \in Ids |-> rows[j]] /\ items = [j \in Ids |-> items[j]]
  BY DEF CardsInv, PanelTypes
<1>3. /\ items' = [j \in Ids |-> items'[j]] /\ \A j \in Ids : j # i => items'[j] = items[j]
      /\ i \notin missed => items'[i] = ViewOf(rows[i])
  <2>1. CASE requests[i].reply = "done"
    <3>1. items' = [items EXCEPT ![i] = requests[i].draft]
      BY <2>1 DEF Hears, Shown
    <3> QED BY <1>1, <1>2, <2>1, <3>1 DEF CardsInv, CardInv
  <2>2. CASE requests[i].reply # "done"
    <3>1. items' = items
      BY <2>2 DEF Hears
    <3> QED BY <1>2, <2>2, <3>1 DEF CardsInv, CardInv
  <2> QED BY <2>1, <2>2
<1> QED BY <1>1, <1>2, <1>3, CardMoves DEF ViewOf

LEMMA LosesReplyKeeps ==
  ASSUME CardsInv, NEW i \in Ids, LosesReply(i)
  PROVE  CardsInv'
<1>1. /\ requests[i] # Idle /\ requests' = [requests EXCEPT ![i] = Idle]
      /\ UNCHANGED <<rows, items>>
      /\ missed' = IF requests[i].reply = "done" THEN missed \cup {i} ELSE missed
  BY DEF LosesReply, integrationVars
<1>2. rows = [j \in Ids |-> rows[j]] /\ items = [j \in Ids |-> items[j]]
  BY DEF CardsInv, PanelTypes
<1>3. missed \subseteq missed' /\ (i \notin missed' => items[i] = ViewOf(rows[i]))
  BY <1>1 DEF CardsInv, CardInv
<1> QED BY <1>1, <1>2, <1>3, CardMoves DEF ViewOf

LEMMA ElsewhereKeeps ==
  ASSUME CardsInv, Elsewhere
  PROVE  CardsInv'
<1>1. PICK i \in Ids :
        \/ \E m \in Mappings : Creates(i, m) \/ Maps(i, m)
        \/ Toggles(i) \/ Rotates(i) \/ Removes(i)
  BY DEF Elsewhere, AdministersNext
<1>2. UNCHANGED <<items, requests>> /\ missed' = missed \cup {j \in Ids : rows'[j] # rows[j]}
  BY DEF Elsewhere
<1>3. rows = [j \in Ids |-> rows[j]]
  BY DEF CardsInv, PanelTypes
<1>4. rows' = [j \in Ids |-> rows'[j]]
  <2>1. CASE \E m \in Mappings : Creates(i, m) \/ Maps(i, m)
    BY <1>3, <2>1 DEF Creates, Maps
  <2>2. CASE Toggles(i)
    BY <1>3, <2>2 DEF Toggles
  <2>3. CASE Rotates(i) \/ Removes(i)
    BY <1>3, <2>3 DEF Rotates, Removes
  <2> QED BY <1>1, <2>1, <2>2, <2>3
<1>5. PanelTypes'
  BY <1>2, <1>4 DEF CardsInv, PanelTypes
<1>6. ASSUME NEW j \in Ids PROVE CardInv(j)'
  <2>1. CASE rows'[j] # rows[j]
    BY <1>2, <2>1 DEF CardInv
  <2>2. CASE rows'[j] = rows[j]
    BY <1>2, <2>2 DEF CardsInv, CardInv, ViewOf
  <2> QED BY <2>1, <2>2
<1> QED BY <1>5, <1>6 DEF CardsInv

LEMMA CardsKeep ==
  CardsInv /\ [PanelNext \/ Elsewhere \/ (PushNext /\ UNCHANGED panelVars)]_allIntegrationVars
    => CardsInv'
<1> SUFFICES ASSUME CardsInv,
                    [PanelNext \/ Elsewhere \/ (PushNext /\ UNCHANGED panelVars)]_allIntegrationVars
             PROVE  CardsInv'
  OBVIOUS
<1>1. ASSUME UNCHANGED <<rows, items, requests, missed>> PROVE CardsInv'
  BY <1>1 DEF CardsInv, PanelTypes, CardInv, ViewOf
<1>2. CASE UNCHANGED allIntegrationVars
  BY <1>1, <1>2 DEF allIntegrationVars, integrationVars, panelVars
<1>3. CASE PushNext /\ UNCHANGED panelVars
  <2>1. UNCHANGED rows
    BY <1>3 DEF PushNext, Arrives, Lands
  <2> QED BY <1>1, <1>3, <2>1 DEF panelVars
<1>4. CASE PanelNext
  <2>1. ASSUME NEW i \in Ids, OpensForm(i) \/ EditsForm(i) \/ ClosesForm(i) PROVE CardsInv'
    BY <1>1, <2>1 DEF OpensForm, EditsForm, ClosesForm, integrationVars
  <2>2. CASE Dismisses
    BY <1>1, <2>2 DEF Dismisses, integrationVars
  <2> QED BY <1>4, <2>1, <2>2, AsksKeeps, AnswersKeeps, HearsKeeps, LosesReplyKeeps
          DEF PanelNext, PanelKinds
<1> QED BY <1>2, <1>3, <1>4, ElsewhereKeeps

(* CustomIntegrationsPanel: however the requests of several cards and their
   replies cross, a card with no request out shows its integration as the API has
   it, unless a reply was lost or the change was made elsewhere. *)
THEOREM PanelShowsTheRows == CardsSpec => []PanelShowsRows
<1>1. IntegrationsInit /\ PanelInit => CardsInv
  BY DEF IntegrationsInit, PanelInit, CardsInv, PanelTypes, CardInv, ViewOf, Idle
<1>2. CardsInv => PanelShowsRows
  BY DEF CardsInv, CardInv, PanelShowsRows
<1> QED BY <1>1, <1>2, CardsKeep, PTL DEF CardsSpec
=============================================================================
