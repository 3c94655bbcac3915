--------------------------- MODULE EngagementKey ---------------------------
(***************************************************************************)
(* The life of one engagement's data encryption key (DEK): the             *)
(* `engagements` row that holds the wrapped DEK, the crypto sessions that  *)
(* unwrap it to write encrypted columns (withEngagement), the on-demand    *)
(* re-wrap under another KMS key (rotateEngagementKey) and its destruction *)
(* (shredEngagement).  packages/db/src/engagement.ts, packages/crypto.     *)
(*                                                                         *)
(* Every operation is one Postgres transaction at READ COMMITTED: it takes *)
(* a lock on the engagement row, holds it to the end, and its writes       *)
(* become visible together when it commits.  A member of Sessions,         *)
(* Rotators or Shredders is one such transaction; it runs once.            *)
(*                                                                         *)
(* A definition whose name starts with Mut is a deliberately wrong form of *)
(* the definition after it, never used here: substituting it must break a  *)
(* property.                                                               *)
(***************************************************************************)
EXTENDS Naturals

CONSTANTS Sessions,     \* withEngagement transactions
          Rotators,     \* rotateEngagementKey transactions
          Shredders,    \* shredEngagement transactions
          Rows,         \* the encrypted column values of the engagement
          Deks,         \* data encryption keys
          Cmk,          \* the tenant's platform-managed KMS key
          ByokKeys,     \* customer-supplied KMS key ARNs
          UsableKeys,   \* those whose cross-account grant KMS honours
          None          \* SQL NULL / undefined

ASSUME KeyAssumption ==
  /\ Cmk \notin ByokKeys
  /\ None \notin ByokKeys \cup {Cmk}
  /\ None \notin Deks
  /\ UsableKeys \subseteq ByokKeys
  /\ None \notin [dek : Deks, key : ByokKeys \cup {Cmk}]

VARIABLES engagement,   \* the committed engagements row
          sealed,       \* [Rows -> DEK that sealed the stored ciphertext]
          session, rotation, shredder,    \* the transactions
          audit         \* [action -> rows of access_log with that action]

keyVars == <<engagement, sealed, session, rotation, shredder, audit>>

Keys == ByokKeys \cup {Cmk}

(* access_log actions written by this file. *)
KeyActions == {"crypto_shred", "byok_key_rotated"}

(* The result of KMS Encrypt: the DEK under the key that wrapped it. *)
WrappedDeks == [dek : Deks, key : Keys]

EngagementRow == [status : {"active", "shredded"},
                  wrappedDek : WrappedDeks \cup {None},
                  byokKeyArn : ByokKeys \cup {None}]

(* KeyId: ref.byokKeyArn ?? ref.tenantCmkArn *)
KeyId(byokKeyArn) == IF byokKeyArn = None THEN Cmk ELSE byokKeyArn

(* The checks that make withEngagement and rotateEngagementKey throw. *)
IsShredded(row) == row.status = "shredded" \/ row.wrappedDek = None

(* KMS Decrypt succeeds only under the key the blob was encrypted with. *)
CanUnwrap(row) == row.wrappedDek.key = KeyId(row.byokKeyArn)

(* KMS accepts an Encrypt under this key. *)
KmsAccepts(byokKeyArn) == KeyId(byokKeyArn) \in UsableKeys \cup {Cmk}

(* KMS Encrypt of the same plaintext DEK under the new key. *)
MutRewrapFreshDek(row, byokKeyArn) ==
  [dek |-> CHOOSE d \in Deks : d # row.wrappedDek.dek, key |-> KeyId(byokKeyArn)]
Rewrap(row, byokKeyArn) ==
  [dek |-> row.wrappedDek.dek, key |-> KeyId(byokKeyArn)]

-----------------------------------------------------------------------------
(* Row locks, derived from where each transaction stands. *)

HoldsShare(s)    == session[s].pc \in {"locked", "open"}
HoldsForUpdate(t) == rotation[t].pc \in {"locked", "rewrapped"}
HoldsUpdate(t)   == shredder[t] = "updated"

(* SELECT ... FOR SHARE waits for FOR UPDATE and UPDATE only. *)
ShareLockFree == /\ \A t \in Rotators : ~HoldsForUpdate(t)
                 /\ \A t \in Shredders : ~HoldsUpdate(t)

(* SELECT ... FOR UPDATE and UPDATE wait for every other holder. *)
MutUpdateIgnoresShare == ShareLockFree
UpdateLockFree == ShareLockFree /\ \A s \in Sessions : ~HoldsShare(s)

-----------------------------------------------------------------------------
(* A session that has read the row has no cipher yet; an open one has the DEK
   in memory and a set of uncommitted writes. *)
IdleSession        == [pc |-> "idle", seen |-> None, dek |-> None, writes |-> {}]
LockedSession(row) == [pc |-> "locked", seen |-> row, dek |-> None, writes |-> {}]
OpenSession(row, dek, writes) ==
  [pc |-> "open", seen |-> row, dek |-> dek, writes |-> writes]
DoneSession        == [pc |-> "done", seen |-> None, dek |-> None, writes |-> {}]

IdleRotation == [pc |-> "idle", seen |-> None, target |-> None, rewrapped |-> None]
LockedRotation(row, target) ==
  [pc |-> "locked", seen |-> row, target |-> target, rewrapped |-> None]
Rewrapped(row, target) ==
  [pc |-> "rewrapped", seen |-> row, target |-> target,
   rewrapped |-> Rewrap(row, target)]
DoneRotation == [pc |-> "done", seen |-> None, target |-> None, rewrapped |-> None]

KeyInit ==
  /\ engagement \in {[status |-> "active",
                      wrappedDek |-> [dek |-> d, key |-> Cmk],
                      byokKeyArn |-> None] : d \in Deks}
  /\ sealed = [r \in Rows |-> None]
  /\ session = [s \in Sessions |-> IdleSession]
  /\ rotation = [t \in Rotators |-> IdleRotation]
  /\ shredder = [t \in Shredders |-> "idle"]
  /\ audit = [a \in KeyActions |-> 0]

-----------------------------------------------------------------------------
(* withEngagement: lock and read the row; a shredded one ends the session. *)
SessionLock(s) ==
  /\ session[s].pc = "idle"
  /\ ShareLockFree
  /\ session' = [session EXCEPT ![s] =
        IF IsShredded(engagement)
        THEN DoneSession
        ELSE LockedSession(engagement)]
  /\ UNCHANGED <<engagement, sealed, rotation, shredder, audit>>

(* createEngagementCipher: one KMS Decrypt of the wrapped DEK that was read. *)
SessionUnwrap(s) ==
  /\ session[s].pc = "locked"
  /\ CanUnwrap(session[s].seen)
  /\ session' = [session EXCEPT ![s] =
                    OpenSession(@.seen, @.seen.wrappedDek.dek, {})]
  /\ UNCHANGED <<engagement, sealed, rotation, shredder, audit>>

(* fn encrypts a column and writes the row; invisible until the commit. *)
SessionWrite(s, r) ==
  /\ session[s].pc = "open"
  /\ r \notin session[s].writes
  /\ session' = [session EXCEPT ![s] =
                    OpenSession(@.seen, @.dek, @.writes \cup {r})]
  /\ UNCHANGED <<engagement, sealed, rotation, shredder, audit>>

SessionCommit(s) ==
  /\ session[s].pc = "open"
  /\ sealed' = [r \in Rows |-> IF r \in session[s].writes
                               THEN session[s].dek ELSE sealed[r]]
  /\ session' = [session EXCEPT ![s] = DoneSession]
  /\ UNCHANGED <<engagement, rotation, shredder, audit>>

(* KMS refuses or is unreachable, fn throws, or the process dies. *)
SessionRollback(s) ==
  /\ session[s].pc \in {"locked", "open"}
  /\ session' = [session EXCEPT ![s] = DoneSession]
  /\ UNCHANGED <<engagement, sealed, rotation, shredder, audit>>

-----------------------------------------------------------------------------
(* rotateEngagementKey: FOR UPDATE, then refuse a shredded engagement. *)
RotateLock(t, target) ==
  /\ rotation[t].pc = "idle"
  /\ UpdateLockFree
  /\ rotation' = [rotation EXCEPT ![t] =
        IF IsShredded(engagement)
        THEN DoneRotation
        ELSE LockedRotation(engagement, target)]
  /\ UNCHANGED <<engagement, sealed, session, shredder, audit>>

(* rewrapDek: Decrypt under the old key, Encrypt under the new one, before
   anything is written. *)
RotateRewrap(t) ==
  /\ rotation[t].pc = "locked"
  /\ CanUnwrap(rotation[t].seen)
  /\ KmsAccepts(rotation[t].target)
  /\ rotation' = [rotation EXCEPT ![t] = Rewrapped(@.seen, @.target)]
  /\ UNCHANGED <<engagement, sealed, session, shredder, audit>>

RotateCommit(t) ==
  /\ rotation[t].pc = "rewrapped"
  /\ engagement' = [status     |-> engagement.status,
                     wrappedDek |-> rotation[t].rewrapped,
                     byokKeyArn |-> rotation[t].target]
  /\ audit' = [audit EXCEPT !["byok_key_rotated"] = @ + 1]
  /\ rotation' = [rotation EXCEPT ![t] = DoneRotation]
  /\ UNCHANGED <<sealed, session, shredder>>

RotateRollback(t) ==
  /\ rotation[t].pc \in {"locked", "rewrapped"}
  /\ rotation' = [rotation EXCEPT ![t] = DoneRotation]
  /\ UNCHANGED <<engagement, sealed, session, shredder, audit>>

-----------------------------------------------------------------------------
(* shredEngagement: UPDATE ... WHERE status <> 'shredded'; a re-shred matches
   no row and writes nothing. *)
ShredUpdate(t) ==
  /\ shredder[t] = "idle"
  /\ UpdateLockFree
  /\ shredder' = [shredder EXCEPT ![t] =
                    IF engagement.status = "shredded" THEN "done" ELSE "updated"]
  /\ UNCHANGED <<engagement, sealed, session, rotation, audit>>

(* The UPDATE and the access_log INSERT commit together. *)
ShredCommit(t) ==
  /\ shredder[t] = "updated"
  /\ engagement' = [status |-> "shredded", wrappedDek |-> None, byokKeyArn |-> None]
  /\ audit' = [audit EXCEPT !["crypto_shred"] = @ + 1]
  /\ shredder' = [shredder EXCEPT ![t] = "done"]
  /\ UNCHANGED <<sealed, session, rotation>>

ShredRollback(t) ==
  /\ shredder[t] = "updated"
  /\ shredder' = [shredder EXCEPT ![t] = "failed"]
  /\ UNCHANGED <<engagement, sealed, session, rotation, audit>>

-----------------------------------------------------------------------------
SessionStep(s) ==
  \/ SessionLock(s)
  \/ SessionUnwrap(s)
  \/ \E r \in Rows : SessionWrite(s, r)
  \/ SessionCommit(s)
  \/ SessionRollback(s)

RotateStep(t) ==
  \/ \E target \in ByokKeys \cup {None} : RotateLock(t, target)
  \/ RotateRewrap(t)
  \/ RotateCommit(t)
  \/ RotateRollback(t)

ShredStep(t) == ShredUpdate(t) \/ ShredCommit(t) \/ ShredRollback(t)

(* Every request has been answered. *)
KeyAllDone ==
  /\ \A s \in Sessions : session[s].pc = "done"
  /\ \A t \in Rotators : rotation[t].pc = "done"
  /\ \A t \in Shredders : shredder[t] \in {"done", "failed"}
  /\ UNCHANGED keyVars

KeyNext ==
  \/ \E s \in Sessions : SessionStep(s)
  \/ \E t \in Rotators : RotateStep(t)
  \/ \E t \in Shredders : ShredStep(t)
  \/ KeyAllDone

KeySpec == KeyInit /\ [][KeyNext]_keyVars

(* Transactions run to their end: Postgres wakes a lock waiter when the holder
   ends, and every transaction commits or rolls back. *)
KeyFairness ==
  /\ \A s \in Sessions : WF_keyVars(SessionStep(s))
  /\ \A t \in Rotators : WF_keyVars(RotateStep(t))
  /\ \A t \in Shredders : WF_keyVars(ShredStep(t))

KeyFairSpec == KeySpec /\ KeyFairness

-----------------------------------------------------------------------------
SessionStates == [pc : {"idle", "locked", "open", "done"},
                  seen : EngagementRow \cup {None},
                  dek : Deks \cup {None},
                  writes : SUBSET Rows]

RotationStates == [pc : {"idle", "locked", "rewrapped", "done"},
                   seen : EngagementRow \cup {None},
                   target : ByokKeys \cup {None},
                   rewrapped : WrappedDeks \cup {None}]

KeyTypeOK ==
  /\ engagement \in EngagementRow
  /\ sealed \in [Rows -> Deks \cup {None}]
  /\ session \in [Sessions -> SessionStates]
  /\ rotation \in [Rotators -> RotationStates]
  /\ shredder \in [Shredders -> {"idle", "updated", "done", "failed"}]
  /\ audit \in [KeyActions -> Nat]

(* While the engagement is active its DEK can be unwrapped with the key the row
   names, and that DEK opens every stored ciphertext: no rotation, and no
   session that overlapped one, leaves content behind that nobody can read
   (the torn states rotateEngagementKey's locking comment rules out). *)
ContentReadable ==
  engagement.status = "active" =>
    /\ engagement.wrappedDek # None
    /\ CanUnwrap(engagement)
    /\ \A r \in Rows : sealed[r] \in {None, engagement.wrappedDek.dek}

(* A session that holds the DEK in memory holds the one of an active
   engagement: the plaintext key never outlives its destruction by a commit. *)
OpenSessionsHoldLiveDek ==
  \A s \in Sessions : session[s].pc = "open" =>
    /\ engagement.status = "active"
    /\ engagement.wrappedDek = session[s].seen.wrappedDek
    /\ engagement.wrappedDek.dek = session[s].dek

(* However many shred requests race, the destruction is recorded exactly when
   it happened and exactly once. *)
ShredAuditedOnce ==
  audit["crypto_shred"] = IF engagement.status = "shredded" THEN 1 ELSE 0

(* The row never names a key KMS has not accepted: a rotation to a bad ARN
   leaves the previous key in place. *)
OnlyVerifiedKeys == engagement.byokKeyArn \in UsableKeys \cup {None}

(* The engagement keeps the promise of EngagementLifecycle: ciphertext appears
   only while the key exists, and the shred is final. *)
Lifecycle == INSTANCE EngagementLifecycle WITH
               live   <- engagement.status = "active",
               sealed <- {r \in Rows : sealed[r] # None}

KeepsLifecycle == Lifecycle!Spec

(* Lock waits end: a shred requested while sessions and rotations hold or
   want the row is answered, whatever order the waiters are woken in. *)
ShredsAnswered ==
  \A t \in Shredders : <>(shredder[t] \in {"done", "failed"})
=============================================================================
