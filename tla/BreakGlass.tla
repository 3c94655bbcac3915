----------------------------- MODULE BreakGlass -----------------------------
(***************************************************************************)
(* Break-glass grants: requestBreakGlass, approveBreakGlass and            *)
(* revokeBreakGlass as concurrent transactions over break_glass_grants and *)
(* the append-only access_log.  Approval reads the grant FOR UPDATE and    *)
(* then updates it; revocation is one conditional UPDATE.  A transaction's *)
(* now() is the time it began.                                             *)
(*                                                                         *)
(* A call's id stands for the id of the access_log row it may write.       *)
(***************************************************************************)
EXTENDS Integers

CONSTANTS Calls,      \* [id, kind, grant, user] records
          Grants, Users,
          TtlMinutes, \* ttl_minutes of every grant, in ticks
          MaxClock,   \* bound: ticks of the clock
          None

Kinds == {"request", "approve", "revoke"}

ASSUME BreakGlassAssumption ==
  /\ Calls \subseteq [id : Nat, kind : Kinds, grant : Grants, user : Users]
  /\ TtlMinutes \in Nat /\ MaxClock \in Nat
  /\ None \notin Users

VARIABLES clock,
          grants,  \* [Grants -> row of break_glass_grants]
          log,     \* committed rows of access_log
          tx       \* [Calls -> transaction]

grantVars == <<clock, grants, log, tx>>

Absent == [requestedBy |-> None, approvedBy |-> None, expiresAt |-> 0, revoked |-> FALSE]

GrantRow == [requestedBy : Users \cup {None}, approvedBy : Users \cup {None},
             expiresAt : 0..(MaxClock + TtlMinutes), revoked : BOOLEAN]

Requested(g) == grants[g].requestedBy # None
Approved(g)  == grants[g].approvedBy # None

LogRow(c) == [id |-> c.id, action |-> c.kind, grant |-> c.grant, by |-> c.user, at |-> tx[c].at]

(* Who holds the grant's row lock: SELECT ... FOR UPDATE takes it, an UPDATE too. *)
MutSelectLocksNothing(d) == tx[d].pc = "written"
Holds(d) == tx[d].pc \in {"locked", "written"}

RowFree(c) == \A d \in Calls \ {c} : d.grant = c.grant => ~Holds(d)

MovesTo(c, pc) ==
  tx' = [tx EXCEPT ![c] = [pc |-> pc, at |-> tx[c].at, seen |-> tx[c].seen]]

GrantInit ==
  /\ clock = 0
  /\ grants = [g \in Grants |-> Absent]
  /\ log = {}
  /\ tx = [c \in Calls |-> [pc |-> "idle", at |-> 0, seen |-> Absent]]

-----------------------------------------------------------------------------
ClockTicks ==
  /\ clock < MaxClock
  /\ clock' = clock + 1
  /\ UNCHANGED <<grants, log, tx>>

Begins(c) ==
  /\ tx[c].pc = "idle"
  /\ c.kind # "request" => Requested(c.grant)
  /\ tx' = [tx EXCEPT ![c] = [pc |-> "open", at |-> clock, seen |-> Absent]]
  /\ UNCHANGED <<clock, grants, log>>

(* The unapproved grant and its audit row; its id is known to nobody before. *)
Request(c) ==
  /\ c.kind = "request" /\ tx[c].pc = "open" /\ ~Requested(c.grant)
  /\ grants' = [grants EXCEPT ![c.grant] =
       [requestedBy |-> c.user, approvedBy |-> None, expiresAt |-> 0, revoked |-> FALSE]]
  /\ log' = log \cup {LogRow(c)}
  /\ MovesTo(c, "over")
  /\ UNCHANGED clock

(* SELECT ... FOR UPDATE. *)
ApproveReads(c) ==
  /\ c.kind = "approve" /\ tx[c].pc = "open" /\ RowFree(c)
  /\ tx' = [tx EXCEPT ![c] = [pc |-> "locked", at |-> tx[c].at, seen |-> grants[c.grant]]]
  /\ UNCHANGED <<clock, grants, log>>

(* assertSecondPerson throws; an approved or revoked grant is left alone. *)
SecondPerson(c) == tx[c].seen.requestedBy # c.user

ApproveRefuses(c) ==
  /\ c.kind = "approve" /\ tx[c].pc = "locked"
  /\ ~SecondPerson(c)
  /\ MovesTo(c, "over")
  /\ UNCHANGED <<clock, grants, log>>

Pending(c) == tx[c].seen.approvedBy = None /\ ~tx[c].seen.revoked

ApproveSkips(c) ==
  /\ c.kind = "approve" /\ tx[c].pc = "locked"
  /\ SecondPerson(c) /\ ~Pending(c)
  /\ MovesTo(c, "over")
  /\ UNCHANGED <<clock, grants, log>>

(* UPDATE ... WHERE approved_at IS NULL. *)
ApproveUpdates(c) ==
  /\ c.kind = "approve" /\ tx[c].pc = "locked" /\ RowFree(c)
  /\ SecondPerson(c) /\ Pending(c)
  /\ MovesTo(c, IF Approved(c.grant) THEN "over" ELSE "written")
  /\ UNCHANGED <<clock, grants, log>>

(* computeExpiresAt *)
ExpiresAt == clock + TtlMinutes

ApproveCommits(c) ==
  /\ c.kind = "approve" /\ tx[c].pc = "written"
  /\ grants' = [grants EXCEPT ![c.grant] =
       [requestedBy |-> grants[c.grant].requestedBy, approvedBy |-> c.user,
        expiresAt |-> ExpiresAt, revoked |-> grants[c.grant].revoked]]
  /\ log' = log \cup {LogRow(c)}
  /\ MovesTo(c, "over")
  /\ UNCHANGED clock

(* UPDATE ... WHERE revoked_at IS NULL; no row, no audit. *)
MutRevokesAgain(c) ==
  /\ c.kind = "revoke" /\ tx[c].pc = "open" /\ RowFree(c)
  /\ MovesTo(c, "written")
  /\ UNCHANGED <<clock, grants, log>>
RevokeUpdates(c) ==
  /\ c.kind = "revoke" /\ tx[c].pc = "open" /\ RowFree(c)
  /\ MovesTo(c, IF grants[c.grant].revoked THEN "over" ELSE "written")
  /\ UNCHANGED <<clock, grants, log>>

RevokeCommits(c) ==
  /\ c.kind = "revoke" /\ tx[c].pc = "written"
  /\ grants' = [grants EXCEPT ![c.grant] =
       [requestedBy |-> grants[c.grant].requestedBy, approvedBy |-> grants[c.grant].approvedBy,
        expiresAt |-> grants[c.grant].expiresAt, revoked |-> TRUE]]
  /\ log' = log \cup {LogRow(c)}
  /\ MovesTo(c, "over")
  /\ UNCHANGED clock

(* The transaction rolls back. *)
CallFails(c) ==
  /\ tx[c].pc \in {"locked", "written"}
  /\ MovesTo(c, "over")
  /\ UNCHANGED <<clock, grants, log>>

CallStep(c) ==
  \/ Begins(c)
  \/ Request(c)
  \/ ApproveReads(c)
  \/ ApproveRefuses(c)
  \/ ApproveSkips(c)
  \/ ApproveUpdates(c)
  \/ ApproveCommits(c)
  \/ RevokeUpdates(c)
  \/ RevokeCommits(c)
  \/ CallFails(c)

GrantNext == ClockTicks \/ \E c \in Calls : CallStep(c)

GrantSpec == GrantInit /\ [][GrantNext]_grantVars

-----------------------------------------------------------------------------
GrantTypeOK ==
  /\ clock \in 0..MaxClock
  /\ grants \in [Grants -> GrantRow]
  /\ log \subseteq [id : Nat, action : Kinds, grant : Grants, by : Users, at : 0..MaxClock]
  /\ tx \in [Calls -> [pc : {"idle", "open", "locked", "written", "over"},
                       at : 0..MaxClock, seen : GrantRow]]

(* "An approver may never be the requester." *)
NeverSelfApproved ==
  \A g \in Grants : Approved(g) => grants[g].approvedBy # grants[g].requestedBy

(* Only a real state change is audited, and each exactly once, by whoever made
   it, however many approvals and revocations race. *)
ChangesAuditedOnce ==
  /\ \A g \in Grants :
       /\ Approved(g) <=> \E r \in log : r.grant = g /\ r.action = "approve"
       /\ grants[g].revoked <=> \E r \in log : r.grant = g /\ r.action = "revoke"
  /\ \A r \in log : r.action = "approve" => r.by = grants[r.grant].approvedBy
  /\ \A r, s \in log : r.grant = s.grant /\ r.action = s.action => r = s

(* A revoked grant is never touched again, least of all approved. *)
RevocationIsFinal ==
  [][\A g \in Grants : grants[g].revoked => grants'[g] = grants[g]]_grantVars
=============================================================================
