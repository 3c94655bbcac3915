------------------------- MODULE CryptoShredProofs -------------------------
(***************************************************************************)
(* What the audit trail says of a purge is true for any number of          *)
(* sessions, rotations, requests, retries, tables, rows and batch sizes.   *)
(* The inductive invariant adds to KeyInv what a purge attempt knows from  *)
(* where it stands: the tables before its own are clean, and a short batch *)
(* holds all its table has left.  Nothing makes that untrue behind its     *)
(* back, since the sessions that could seal a row again need a live key.   *)
(***************************************************************************)
EXTENDS CryptoShred, FiniteOrders

(* The key alone.  Its invariant adds to the checked properties what the row locks
   buy: holders exclude each other, and what a holder read of the engagement row
   is still what is stored. *)

(* A shared holder excludes an exclusive one; exclusive holders exclude each
   other. *)
LockInv ==
  /\ \A s \in Sessions, t \in Rotators : ~(HoldsShare(s) /\ HoldsForUpdate(t))
  /\ \A s \in Sessions, t \in Shredders : ~(HoldsShare(s) /\ HoldsUpdate(t))
  /\ \A t, u \in Rotators : HoldsForUpdate(t) /\ HoldsForUpdate(u) => t = u
  /\ \A t, u \in Shredders : HoldsUpdate(t) /\ HoldsUpdate(u) => t = u
  /\ \A t \in Rotators, u \in Shredders : ~(HoldsForUpdate(t) /\ HoldsUpdate(u))

(* The wrapped DEK is gone exactly when the engagement is shredded. *)
RowInv == engagement.status = "shredded" <=> engagement.wrappedDek = None

(* What a lock holder read is what is stored. *)
SessionInv ==
  \A s \in Sessions :
    /\ HoldsShare(s) => session[s].seen = engagement /\ engagement.status = "active"
    /\ session[s].pc = "open" => session[s].dek = engagement.wrappedDek.dek

RotationInv ==
  \A t \in Rotators :
    /\ HoldsForUpdate(t) => rotation[t].seen = engagement /\ engagement.status = "active"
    /\ rotation[t].pc = "rewrapped" =>
         /\ rotation[t].rewrapped = Rewrap(engagement, rotation[t].target)
         /\ rotation[t].target \in UsableKeys \cup {None}

ShredderInv ==
  \A t \in Shredders : HoldsUpdate(t) => engagement.status = "active"

KeyInv ==
  /\ KeyTypeOK
  /\ LockInv
  /\ RowInv
  /\ SessionInv
  /\ RotationInv
  /\ ShredderInv
  /\ ContentReadable
  /\ ShredAuditedOnce
  /\ OnlyVerifiedKeys

-----------------------------------------------------------------------------
LEMMA KeyInvInit == KeyInit => KeyInv
<1> SUFFICES ASSUME KeyInit PROVE KeyInv
  OBVIOUS
<1> USE KeyAssumption DEF KeyInit
<1>1. KeyTypeOK
  BY DEF KeyTypeOK, EngagementRow, WrappedDeks, Keys, KeyActions, SessionStates,
     RotationStates, IdleSession, IdleRotation
<1>2. LockInv /\ SessionInv /\ RotationInv /\ ShredderInv
  BY DEF LockInv, SessionInv, RotationInv, ShredderInv, HoldsShare,
     HoldsForUpdate, HoldsUpdate, IdleSession, IdleRotation
<1>3. RowInv /\ ContentReadable
  BY DEF RowInv, ContentReadable, CanUnwrap, KeyId, Keys
<1>4. ShredAuditedOnce /\ OnlyVerifiedKeys
  BY DEF ShredAuditedOnce, OnlyVerifiedKeys, KeyActions
<1> QED BY <1>1, <1>2, <1>3, <1>4 DEF KeyInv

(* A step of a crypto session. *)
LEMMA KeyInvSession ==
  ASSUME KeyInv, NEW s \in Sessions, SessionStep(s)
  PROVE  KeyInv'
<1> USE DEF KeyInv
<1>1. CASE SessionLock(s)
  <2>1. KeyTypeOK'
    BY <1>1 DEF KeyTypeOK, SessionStates, OpenSession, SessionLock, LockedSession, DoneSession
  <2>2. LockInv'
    BY <1>1 DEF LockInv, KeyTypeOK, SessionLock, LockedSession, DoneSession, HoldsShare,
       HoldsForUpdate, HoldsUpdate, ShareLockFree
  <2>3. SessionInv'
    BY <1>1 DEF SessionInv, KeyTypeOK, EngagementRow, SessionLock, LockedSession,
       DoneSession, HoldsShare, IsShredded
  <2>4. UNCHANGED <<engagement, sealed, rotation, shredder, audit>>
    BY <1>1 DEF SessionLock
  <2> QED
    BY <2>1, <2>2, <2>3, <2>4 DEF RowInv, RotationInv, ShredderInv, ContentReadable,
       ShredAuditedOnce, OnlyVerifiedKeys, HoldsForUpdate, HoldsUpdate
<1>2. CASE SessionUnwrap(s)
  <2>1. engagement.wrappedDek \in WrappedDeks /\ session[s].seen = engagement
    BY <1>2 DEF SessionUnwrap, SessionInv, HoldsShare, RowInv, KeyTypeOK, EngagementRow
  <2>2. KeyTypeOK'
    BY <1>2, <2>1 DEF KeyTypeOK, SessionStates, OpenSession, SessionUnwrap, WrappedDeks
  <2>3. LockInv'
    BY <1>2 DEF LockInv, KeyTypeOK, OpenSession, SessionUnwrap, HoldsShare, HoldsForUpdate, HoldsUpdate
  <2>4. SessionInv'
    BY <1>2 DEF SessionInv, KeyTypeOK, OpenSession, SessionUnwrap, HoldsShare
  <2>5. UNCHANGED <<engagement, sealed, rotation, shredder, audit>>
    BY <1>2 DEF SessionUnwrap
  <2> QED
    BY <2>2, <2>3, <2>4, <2>5 DEF RowInv, RotationInv, ShredderInv, ContentReadable,
       ShredAuditedOnce, OnlyVerifiedKeys, HoldsForUpdate, HoldsUpdate
<1>3. CASE \E r \in Rows : SessionWrite(s, r)
  <2>1. KeyTypeOK'
    BY <1>3 DEF KeyTypeOK, SessionStates, OpenSession, SessionWrite
  <2>2. LockInv'
    BY <1>3 DEF LockInv, KeyTypeOK, OpenSession, SessionWrite, HoldsShare, HoldsForUpdate, HoldsUpdate
  <2>3. SessionInv'
    BY <1>3 DEF SessionInv, KeyTypeOK, OpenSession, SessionWrite, HoldsShare
  <2>4. UNCHANGED <<engagement, sealed, rotation, shredder, audit>>
    BY <1>3 DEF SessionWrite
  <2> QED
    BY <2>1, <2>2, <2>3, <2>4 DEF RowInv, RotationInv, ShredderInv, ContentReadable,
       ShredAuditedOnce, OnlyVerifiedKeys, HoldsForUpdate, HoldsUpdate
<1>4. CASE SessionCommit(s)
  <2>1. KeyTypeOK'
    BY <1>4 DEF KeyTypeOK, SessionStates, OpenSession, SessionCommit, LockedSession, DoneSession
  <2>2. LockInv'
    BY <1>4 DEF LockInv, KeyTypeOK, SessionCommit, LockedSession, DoneSession,
       HoldsShare, HoldsForUpdate, HoldsUpdate
  <2>3. SessionInv'
    BY <1>4 DEF SessionInv, KeyTypeOK, SessionCommit, LockedSession, DoneSession, HoldsShare
  <2>4. ContentReadable'
    <3>1. session[s].dek = engagement.wrappedDek.dek
      BY <1>4 DEF SessionCommit, SessionInv
    <3> QED BY <1>4, <3>1 DEF ContentReadable, SessionCommit, CanUnwrap
  <2>5. UNCHANGED <<engagement, rotation, shredder, audit>>
    BY <1>4 DEF SessionCommit
  <2> QED
    BY <2>1, <2>2, <2>3, <2>4, <2>5 DEF RowInv, RotationInv, ShredderInv,
       ShredAuditedOnce, OnlyVerifiedKeys, HoldsForUpdate, HoldsUpdate
<1>5. CASE SessionRollback(s)
  <2>1. KeyTypeOK'
    BY <1>5 DEF KeyTypeOK, SessionStates, OpenSession, SessionRollback, LockedSession, DoneSession
  <2>2. LockInv'
    BY <1>5 DEF LockInv, KeyTypeOK, SessionRollback, LockedSession, DoneSession,
       HoldsShare, HoldsForUpdate, HoldsUpdate
  <2>3. SessionInv'
    BY <1>5 DEF SessionInv, KeyTypeOK, SessionRollback, LockedSession, DoneSession, HoldsShare
  <2>4. UNCHANGED <<engagement, sealed, rotation, shredder, audit>>
    BY <1>5 DEF SessionRollback
  <2> QED
    BY <2>1, <2>2, <2>3, <2>4 DEF RowInv, RotationInv, ShredderInv, ContentReadable,
       ShredAuditedOnce, OnlyVerifiedKeys, HoldsForUpdate, HoldsUpdate
<1> QED BY <1>1, <1>2, <1>3, <1>4, <1>5 DEF SessionStep

(* A step of a key rotation. *)
LEMMA KeyInvRotation ==
  ASSUME KeyInv, NEW t \in Rotators, RotateStep(t)
  PROVE  KeyInv'
<1> USE DEF KeyInv
<1>1. CASE \E target \in ByokKeys \cup {None} : RotateLock(t, target)
  <2> PICK target \in ByokKeys \cup {None} : RotateLock(t, target)
    BY <1>1
  <2>1. KeyTypeOK'
    BY DEF KeyTypeOK, RotateLock, RotationStates, LockedRotation, DoneRotation
  <2>2. LockInv'
    BY DEF LockInv, KeyTypeOK, RotateLock, LockedRotation, DoneRotation, HoldsShare,
       HoldsForUpdate, HoldsUpdate, UpdateLockFree, ShareLockFree
  <2>3. RotationInv'
    BY DEF RotationInv, KeyTypeOK, EngagementRow, RotateLock, LockedRotation,
       DoneRotation, HoldsForUpdate, IsShredded
  <2>4. UNCHANGED <<engagement, sealed, session, shredder, audit>>
    BY DEF RotateLock
  <2> QED
    BY <2>1, <2>2, <2>3, <2>4 DEF RowInv, SessionInv, ShredderInv, ContentReadable,
       ShredAuditedOnce, OnlyVerifiedKeys, HoldsShare, HoldsUpdate
<1>2. CASE RotateRewrap(t)
  <2>1. /\ engagement.wrappedDek \in WrappedDeks
        /\ rotation[t].seen = engagement
        /\ rotation[t].target \in UsableKeys \cup {None}
    BY <1>2, KeyAssumption DEF RotateRewrap, KmsAccepts, RotationInv, HoldsForUpdate, RowInv,
       KeyTypeOK, EngagementRow, RotationStates, KeyId
  <2>2. Rewrap(engagement, rotation[t].target) \in WrappedDeks
    BY <2>1, KeyAssumption DEF Rewrap, KeyId, WrappedDeks, Keys
  <2>3. KeyTypeOK'
    BY <1>2, <2>1, <2>2 DEF KeyTypeOK, RotateRewrap, RotationStates, Rewrapped
  <2>4. LockInv'
    BY <1>2 DEF LockInv, KeyTypeOK, RotateRewrap, Rewrapped, HoldsShare,
       HoldsForUpdate, HoldsUpdate
  <2>5. RotationInv'
    BY <1>2, <2>1 DEF RotationInv, KeyTypeOK, RotateRewrap, Rewrapped, HoldsForUpdate,
       Rewrap
  <2>6. UNCHANGED <<engagement, sealed, session, shredder, audit>>
    BY <1>2 DEF RotateRewrap
  <2> QED
    BY <2>3, <2>4, <2>5, <2>6 DEF RowInv, SessionInv, ShredderInv, ContentReadable,
       ShredAuditedOnce, OnlyVerifiedKeys, HoldsShare, HoldsUpdate
<1>3. CASE RotateCommit(t)
  <2> DEFINE target == rotation[t].target
  <2>1. /\ engagement.status = "active"
        /\ engagement.wrappedDek \in WrappedDeks
        /\ rotation[t].rewrapped = Rewrap(engagement, target)
        /\ target \in UsableKeys \cup {None}
    BY <1>3 DEF RotateCommit, RotationInv, HoldsForUpdate, RowInv, KeyTypeOK,
       EngagementRow
  <2>2. Rewrap(engagement, target) \in WrappedDeks
    BY <2>1, KeyAssumption DEF Rewrap, KeyId, WrappedDeks, Keys
  <2>3. /\ engagement' \in EngagementRow
        /\ engagement'.status = "active"
        /\ engagement'.wrappedDek = Rewrap(engagement, target)
        /\ engagement'.byokKeyArn = target
    BY <1>3, <2>1, <2>2, KeyAssumption DEF RotateCommit, KeyTypeOK, EngagementRow
  <2>4. KeyTypeOK'
    BY <1>3, <2>3 DEF KeyTypeOK, KeyActions, RotateCommit, RotationStates, DoneRotation
  <2>5. LockInv'
    BY <1>3 DEF LockInv, KeyTypeOK, RotateCommit, DoneRotation, HoldsShare,
       HoldsForUpdate, HoldsUpdate
  <2>6. \A s \in Sessions : ~HoldsShare(s)
    BY <1>3 DEF RotateCommit, LockInv, HoldsForUpdate
  <2>7. \A u \in Rotators : u # t => ~HoldsForUpdate(u)
    BY <1>3 DEF RotateCommit, LockInv, HoldsForUpdate
  <2>8. SessionInv'
    BY <1>3, <2>6 DEF SessionInv, RotateCommit, HoldsShare
  <2>9. RotationInv'
    BY <1>3, <2>7 DEF RotationInv, KeyTypeOK, RotateCommit, DoneRotation, HoldsForUpdate
  <2>10. ShredderInv'
    BY <1>3, <2>3 DEF ShredderInv, RotateCommit, HoldsUpdate
  <2>11. RowInv'
    BY <2>2, <2>3, KeyAssumption DEF RowInv, WrappedDeks, Keys
  <2>12. ContentReadable'
    <3>1. Rewrap(engagement, target).dek = engagement.wrappedDek.dek
      BY DEF Rewrap
    <3>2. Rewrap(engagement, target).key = KeyId(target)
      BY DEF Rewrap
    <3>3. sealed' = sealed
      BY <1>3 DEF RotateCommit
    <3>4. engagement'.wrappedDek # None
      BY <2>2, <2>3, KeyAssumption DEF WrappedDeks, Keys
    <3> QED
      BY <2>1, <2>3, <3>1, <3>2, <3>3, <3>4 DEF ContentReadable, CanUnwrap
  <2>13. ShredAuditedOnce' /\ OnlyVerifiedKeys'
    BY <1>3, <2>1, <2>3 DEF ShredAuditedOnce, OnlyVerifiedKeys, RotateCommit, KeyTypeOK,
       KeyActions
  <2> QED
    BY <2>4, <2>5, <2>8, <2>9, <2>10, <2>11, <2>12, <2>13
<1>4. CASE RotateRollback(t)
  <2>1. KeyTypeOK'
    BY <1>4 DEF KeyTypeOK, RotateRollback, RotationStates, DoneRotation
  <2>2. LockInv'
    BY <1>4 DEF LockInv, KeyTypeOK, RotateRollback, DoneRotation, HoldsShare,
       HoldsForUpdate, HoldsUpdate
  <2>3. RotationInv'
    BY <1>4 DEF RotationInv, KeyTypeOK, RotateRollback, DoneRotation, HoldsForUpdate
  <2>4. UNCHANGED <<engagement, sealed, session, shredder, audit>>
    BY <1>4 DEF RotateRollback
  <2> QED
    BY <2>1, <2>2, <2>3, <2>4 DEF RowInv, SessionInv, ShredderInv, ContentReadable,
       ShredAuditedOnce, OnlyVerifiedKeys, HoldsShare, HoldsUpdate
<1> QED BY <1>1, <1>2, <1>3, <1>4 DEF RotateStep

(* A step of a shred. *)
LEMMA KeyInvShred ==
  ASSUME KeyInv, NEW t \in Shredders, ShredStep(t)
  PROVE  KeyInv'
<1> USE DEF KeyInv
<1>1. CASE ShredUpdate(t)
  <2>1. KeyTypeOK'
    BY <1>1 DEF KeyTypeOK, ShredUpdate
  <2>2. LockInv'
    BY <1>1 DEF LockInv, KeyTypeOK, ShredUpdate, HoldsShare, HoldsForUpdate,
       HoldsUpdate, UpdateLockFree, ShareLockFree
  <2>3. ShredderInv'
    BY <1>1 DEF ShredderInv, KeyTypeOK, EngagementRow, ShredUpdate, HoldsUpdate
  <2>4. UNCHANGED <<engagement, sealed, session, rotation, audit>>
    BY <1>1 DEF ShredUpdate
  <2> QED
    BY <2>1, <2>2, <2>3, <2>4 DEF RowInv, SessionInv, RotationInv, ContentReadable,
       ShredAuditedOnce, OnlyVerifiedKeys, HoldsShare, HoldsForUpdate
<1>2. CASE ShredCommit(t)
  <2>1. engagement.status = "active"
    BY <1>2 DEF ShredCommit, ShredderInv, HoldsUpdate
  <2>2. KeyTypeOK'
    BY <1>2 DEF KeyTypeOK, KeyActions, ShredCommit, EngagementRow
  <2>3. LockInv'
    BY <1>2 DEF LockInv, KeyTypeOK, ShredCommit, HoldsShare, HoldsForUpdate, HoldsUpdate
  <2>4. /\ \A s \in Sessions : ~HoldsShare(s)
        /\ \A u \in Rotators : ~HoldsForUpdate(u)
        /\ \A u \in Shredders : u # t => ~HoldsUpdate(u)
    BY <1>2 DEF ShredCommit, LockInv, HoldsUpdate
  <2>5. SessionInv' /\ RotationInv'
    BY <1>2, <2>4 DEF SessionInv, RotationInv, ShredCommit, HoldsShare, HoldsForUpdate
  <2>6. ShredderInv'
    BY <1>2, <2>4 DEF ShredderInv, KeyTypeOK, ShredCommit, HoldsUpdate
  <2>7. RowInv' /\ ContentReadable' /\ OnlyVerifiedKeys'
    BY <1>2 DEF RowInv, ContentReadable, OnlyVerifiedKeys, ShredCommit
  <2>8. ShredAuditedOnce'
    BY <1>2, <2>1 DEF ShredAuditedOnce, ShredCommit, KeyTypeOK, KeyActions
  <2> QED
    BY <2>2, <2>3, <2>5, <2>6, <2>7, <2>8
<1>3. CASE ShredRollback(t)
  <2>1. KeyTypeOK'
    BY <1>3 DEF KeyTypeOK, ShredRollback
  <2>2. LockInv'
    BY <1>3 DEF LockInv, KeyTypeOK, ShredRollback, HoldsShare, HoldsForUpdate, HoldsUpdate
  <2>3. ShredderInv'
    BY <1>3 DEF ShredderInv, KeyTypeOK, ShredRollback, HoldsUpdate
  <2>4. UNCHANGED <<engagement, sealed, session, rotation, audit>>
    BY <1>3 DEF ShredRollback
  <2> QED
    BY <2>1, <2>2, <2>3, <2>4 DEF RowInv, SessionInv, RotationInv, ContentReadable,
       ShredAuditedOnce, OnlyVerifiedKeys, HoldsShare, HoldsForUpdate
<1> QED BY <1>1, <1>2, <1>3 DEF ShredStep

LEMMA KeyInvStutter ==
  ASSUME KeyInv, UNCHANGED keyVars
  PROVE  KeyInv'
BY DEF keyVars, KeyInv, KeyTypeOK, LockInv, RowInv, SessionInv, RotationInv,
   ShredderInv, ContentReadable, ShredAuditedOnce, OnlyVerifiedKeys, HoldsShare,
   HoldsForUpdate, HoldsUpdate

-----------------------------------------------------------------------------
(* The lock discipline of engagement.ts makes KeyInv inductive. *)
THEOREM KeyInvariant == KeySpec => []KeyInv
<1>1. KeyInv /\ [KeyNext]_keyVars => KeyInv'
  BY KeyInvSession, KeyInvRotation, KeyInvShred, KeyInvStutter DEF KeyNext, KeyAllDone
<1> QED BY KeyInvInit, <1>1, PTL DEF KeySpec

(* Every variable keeps its type: the local state of each transaction, the
   engagements row and the audit counters. *)
THEOREM KeyTypeCorrect == KeySpec => []KeyTypeOK
<1>1. KeyInv => KeyTypeOK
  BY DEF KeyInv
<1> QED BY KeyInvariant, <1>1, PTL

(* An active engagement's content can always be opened: no rotation, commit or
   shred race leaves ciphertext under a DEK that is not the wrapped one, or a
   wrap under a key other than the one the row names. *)
THEOREM ContentStaysReadable == KeySpec => []ContentReadable
<1>1. KeyInv => ContentReadable
  BY DEF KeyInv
<1> QED BY KeyInvariant, <1>1, PTL

(* withEngagement's shared lock: no session holds a DEK in memory that a shred
   has destroyed or that differs from the stored one. *)
THEOREM OpenSessionsAreLive == KeySpec => []OpenSessionsHoldLiveDek
<1>1. KeyInv => OpenSessionsHoldLiveDek
  BY DEF KeyInv, OpenSessionsHoldLiveDek, SessionInv, HoldsShare
<1> QED BY KeyInvariant, <1>1, PTL

(* shredEngagement records the destruction of the key exactly once, however
   many requests and workflow attempts race to destroy it. *)
THEOREM ShredIsAuditedOnce == KeySpec => []ShredAuditedOnce
<1>1. KeyInv => ShredAuditedOnce
  BY DEF KeyInv
<1> QED BY KeyInvariant, <1>1, PTL

-----------------------------------------------------------------------------
(* Only a commit of a session and a shred are visible to the abstract
   specification; everything else stutters. *)
LEMMA KeyRefinesStep ==
  ASSUME KeyInv, [KeyNext]_keyVars
  PROVE  [Lifecycle!Next]_(Lifecycle!vars)
<1> DEFINE live     == engagement.status = "active"
           content  == {r \in Rows : sealed[r] # None}
<1>1. ASSUME UNCHANGED <<engagement, sealed>>
      PROVE  UNCHANGED Lifecycle!vars
  BY <1>1 DEF Lifecycle!vars
<1>2. ASSUME NEW s \in Sessions, SessionCommit(s)
      PROVE  Lifecycle!Seal
  <2>1. live /\ UNCHANGED engagement
    BY <1>2 DEF SessionCommit, KeyInv, SessionInv, HoldsShare
  <2>2. session[s].dek # None
    BY <1>2, <2>1, KeyAssumption
       DEF SessionCommit, KeyInv, SessionInv, RowInv, KeyTypeOK, EngagementRow, WrappedDeks
  <2>3. session[s].writes \in SUBSET Rows
    BY DEF KeyInv, KeyTypeOK, SessionStates
  <2>4. content' = content \cup session[s].writes
    BY <1>2, <2>2, <2>3 DEF SessionCommit
  <2> QED BY <2>1, <2>3, <2>4 DEF Lifecycle!Seal
<1>3. ASSUME NEW t \in Rotators, RotateCommit(t)
      PROVE  UNCHANGED Lifecycle!vars
  BY <1>3 DEF RotateCommit, Lifecycle!vars
<1>4. ASSUME NEW t \in Shredders, ShredCommit(t)
      PROVE  Lifecycle!Shred
  BY <1>4 DEF ShredCommit, KeyInv, ShredderInv, HoldsUpdate, Lifecycle!Shred
<1>5. ASSUME NEW s \in Sessions, SessionStep(s)
      PROVE  SessionCommit(s) \/ UNCHANGED <<engagement, sealed>>
  BY <1>5 DEF SessionStep, SessionLock, SessionUnwrap, SessionWrite, SessionRollback
<1>6. ASSUME NEW t \in Rotators, RotateStep(t)
      PROVE  RotateCommit(t) \/ UNCHANGED <<engagement, sealed>>
  BY <1>6 DEF RotateStep, RotateLock, RotateRewrap, RotateRollback
<1>7. ASSUME NEW t \in Shredders, ShredStep(t)
      PROVE  ShredCommit(t) \/ UNCHANGED <<engagement, sealed>>
  BY <1>7 DEF ShredStep, ShredUpdate, ShredRollback
<1>8. CASE KeyAllDone \/ UNCHANGED keyVars
  BY <1>8, <1>1 DEF KeyAllDone, keyVars
<1> QED
  BY <1>1, <1>2, <1>3, <1>4, <1>5, <1>6, <1>7, <1>8 DEF KeyNext, Lifecycle!Next

(* The transactions of engagement.ts implement the promise: content appears
   only while the key exists and the destruction of the key is final. *)
THEOREM KeyImplementsLifecycle == KeySpec => KeepsLifecycle
<1>1. KeyInit => Lifecycle!Init
  BY DEF KeyInit, Lifecycle!Init
<1>2. KeyInv /\ [KeyNext]_keyVars => [Lifecycle!Next]_(Lifecycle!vars)
  BY KeyRefinesStep
<1> QED
  BY KeyInvariant, <1>1, <1>2, PTL DEF KeySpec, KeepsLifecycle, Lifecycle!Spec

-----------------------------------------------------------------------------
(* The workflow that shreds it. *)

AttemptStates == [pc : {"idle", "select", "update", "audit", "done", "dead"},
                  table : 0..Tables, batch : SUBSET Rows]

FlowTypeOK ==
  /\ request \in [Requests -> {"shredding", "started", "answered"}]
  /\ workflow \in [Executions ->
       [phase : {"none", "shred", "purge", "completed", "failed"}, attempt : Nat]]
  /\ purge \in [PurgeActs -> AttemptStates]
  /\ purgeAudits \in Nat

(* The current attempt is one of those the retry policy allows. *)
AttemptInv ==
  \A e \in Executions :
    /\ workflow[e].phase = "shred" => workflow[e].attempt \in 1..ShredAttempts
    /\ workflow[e].phase = "purge" => workflow[e].attempt \in 1..PurgeAttempts

Purging(p) == purge[p].pc \in {"select", "update"}

CleanBefore(t) == \A r \in Rows : TableOf[r] < t => sealed[r] = None

PurgeInv ==
  \A p \in PurgeActs :
    /\ purge[p].pc \in {"select", "update", "audit", "done"} => engagement.status = "shredded"
    /\ Purging(p) => purge[p].table \in 1..Tables /\ CleanBefore(purge[p].table)
    /\ purge[p].pc = "update" /\ ShortBatch(purge[p].batch) =>
         Unpurged(purge[p].table) \subseteq purge[p].batch
    /\ purge[p].pc \in {"audit", "done"} => Clean
    /\ purge[p].pc = "done" => purgeAudits > 0

FlowInv ==
  /\ FlowTypeOK
  /\ AttemptInv
  /\ PurgeInv
  /\ PurgeAuditMeansClean
  /\ CompletedMeansAuditedPurge

ShredInv == KeyInv /\ FlowInv

-----------------------------------------------------------------------------
(* The purge may leave a table after a short batch: the batch holds every row of
   the table that still carries ciphertext. *)
LEMMA ShortBatchIsLast ==
  ASSUME NEW table, ShortBatch(Batch(table))
  PROVE  Unpurged(table) \subseteq Batch(table)
<1> DEFINE left == Unpurged(table) \ Batch(table)
           before(r) == {x \in Unpurged(table) : x < r}
<1> SUFFICES ASSUME left # {} PROVE FALSE
  OBVIOUS
<1>1. left \in SUBSET Int /\ IsFiniteSet(left)
  <2>1. left \in SUBSET Rows /\ Rows \subseteq Int
    BY ShredAssumption DEF Unpurged
  <2> HIDE DEF left
  <2> QED BY <2>1, ShredAssumption, FS_Subset
<1>0. PICK r \in left : \A y \in left : r <= y
  BY <1>1, LeastElement
<1>2. \A y \in left : ~(y < r)
  BY <1>0, <1>1
<1>3. before(r) \subseteq Batch(table)
  BY <1>2
<1>4. IsFiniteSet(Batch(table))
  BY ShredAssumption, FS_Subset DEF Batch, Unpurged
<1>5. Cardinality(before(r)) <= Cardinality(Batch(table))
  BY <1>3, <1>4, FS_Subset
<1>6. ~(Cardinality(before(r)) < BatchSize)
  BY <1>2 DEF Batch
<1>7. Cardinality(before(r)) \in Nat /\ Cardinality(Batch(table)) \in Nat
  BY <1>3, <1>4, FS_Subset, FS_CardinalityType
<1> QED BY <1>5, <1>6, <1>7, ShredAssumption DEF ShortBatch

-----------------------------------------------------------------------------
(* What of a purge attempt hangs on the other variables: a status that stays
   shredded, rows that stay clean, and an audit row that stays. *)
LEMMA PurgeInvKept ==
  ASSUME FlowInv, UNCHANGED purge,
         engagement.status = "shredded" => engagement'.status = "shredded",
         engagement.status = "shredded" =>
           \A r \in Rows : sealed[r] = None => sealed'[r] = None,
         purgeAudits' = purgeAudits
  PROVE  PurgeInv' /\ PurgeAuditMeansClean' /\ (purgeAudits > 0 => Clean')
<1>1. PurgeInv'
  <2> SUFFICES ASSUME NEW p \in PurgeActs PROVE PurgeInv!(p)'
    BY DEF PurgeInv
  <2> QED
    BY DEF FlowInv, FlowTypeOK, PurgeInv, Purging, CleanBefore, Unpurged, Clean
<1>2. purgeAudits > 0 => engagement'.status = "shredded" /\ Clean'
  BY DEF FlowInv, PurgeAuditMeansClean, Clean
<1> QED BY <1>1, <1>2 DEF PurgeAuditMeansClean

(* A transaction of EngagementKey: a shredded engagement stays shredded and takes
   no more ciphertext. *)
LEMMA KeyStepKeeps ==
  ASSUME KeyInv, [KeyNext]_keyVars, engagement.status = "shredded"
  PROVE  /\ engagement'.status = "shredded"
         /\ \A r \in Rows : sealed[r] = None => sealed'[r] = None
<1>1. ASSUME NEW s \in Sessions, SessionStep(s)
      PROVE  UNCHANGED <<engagement, sealed>>
  BY <1>1 DEF SessionStep, SessionLock, SessionUnwrap, SessionWrite, SessionCommit,
     SessionRollback, KeyInv, SessionInv, HoldsShare
<1>2. ASSUME NEW t \in Rotators, RotateStep(t)
      PROVE  UNCHANGED <<engagement, sealed>>
  BY <1>2 DEF RotateStep, RotateLock, RotateRewrap, RotateCommit, RotateRollback, KeyInv,
     RotationInv, HoldsForUpdate
<1>3. ASSUME NEW t \in Shredders, ShredStep(t)
      PROVE  UNCHANGED <<engagement, sealed>>
  BY <1>3 DEF ShredStep, ShredUpdate, ShredCommit, ShredRollback, KeyInv, ShredderInv,
     HoldsUpdate
<1> QED BY <1>1, <1>2, <1>3 DEF KeyNext, KeyAllDone, keyVars

LEMMA KeyInvNext == KeyInv /\ [KeyNext]_keyVars => KeyInv'
BY KeyInvSession, KeyInvRotation, KeyInvShred, KeyInvStutter DEF KeyNext, KeyAllDone

(* A transaction of EngagementKey leaves the purge as it was. *)
LEMMA FlowInvKeyStep ==
  ASSUME ShredInv, KeyNext, UNCHANGED flowVars
  PROVE  ShredInv'
<1>1. KeyInv'
  BY KeyInvNext DEF ShredInv
<1>2. PurgeInv' /\ PurgeAuditMeansClean' /\ (purgeAudits > 0 => Clean')
  BY KeyStepKeeps, PurgeInvKept DEF ShredInv, flowVars
<1>3. FlowTypeOK' /\ AttemptInv'
  BY DEF ShredInv, FlowInv, FlowTypeOK, AttemptInv, flowVars
<1>4. CompletedMeansAuditedPurge'
  BY <1>2 DEF ShredInv, FlowInv, CompletedMeansAuditedPurge, flowVars
<1> QED BY <1>1, <1>2, <1>3, <1>4 DEF ShredInv, FlowInv

(* A step of the workflow, or of a request, that does not purge. *)
LEMMA FlowInvWorkflowStep ==
  ASSUME ShredInv, UNCHANGED <<keyVars, purge, purgeAudits>>,
         FlowTypeOK', AttemptInv',
         \A e \in Executions : workflow'[e].phase = "completed" =>
            purgeAudits > 0
  PROVE  ShredInv'
<1>1. KeyInv'
  BY KeyInvStutter DEF ShredInv
<1>2. PurgeInv' /\ PurgeAuditMeansClean' /\ (purgeAudits > 0 => Clean')
  BY PurgeInvKept DEF ShredInv, keyVars
<1> QED BY <1>1, <1>2 DEF ShredInv, FlowInv, CompletedMeansAuditedPurge

LEMMA ExecutionStarts ==
  ASSUME ShredInv, NEW e \in Executions, StartExecution(e),
         UNCHANGED <<keyVars, purge, purgeAudits>>,
         request' \in [Requests -> {"shredding", "started", "answered"}]
  PROVE  ShredInv'
<1>1. FlowTypeOK' /\ AttemptInv'
  BY ShredAssumption DEF ShredInv, FlowInv, FlowTypeOK, AttemptInv, StartExecution
<1>2. \A f \in Executions : workflow'[f].phase = "completed" => purgeAudits > 0
  BY DEF ShredInv, FlowInv, FlowTypeOK, StartExecution, CompletedMeansAuditedPurge
<1> QED BY <1>1, <1>2, FlowInvWorkflowStep

LEMMA ShredInvRequest ==
  ASSUME ShredInv, NEW q \in Requests, RequestStep(q)
  PROVE  ShredInv'
<1>1. CASE RequestShred(q)
  <2>1. ShredStep(q) /\ q \in Shredders /\ UNCHANGED flowVars
    BY <1>1, ShredAssumption DEF RequestShred
  <2> QED BY <2>1, FlowInvKeyStep DEF KeyNext
<1>2. CASE RequestFails(q) \/ (RequestStartsPurge(q) /\ UNCHANGED workflow)
  <2>1. UNCHANGED <<keyVars, workflow, purge, purgeAudits>>
    BY <1>2 DEF RequestFails, RequestStartsPurge
  <2>2. FlowTypeOK' /\ AttemptInv'
    BY <1>2, <2>1 DEF RequestFails, RequestStartsPurge, ShredInv, FlowInv, FlowTypeOK, AttemptInv
  <2>3. \A e \in Executions : workflow'[e].phase = "completed" => purgeAudits > 0
    BY <2>1 DEF ShredInv, FlowInv, CompletedMeansAuditedPurge
  <2> QED BY <2>1, <2>2, <2>3, FlowInvWorkflowStep
<1>3. ASSUME RequestStartsPurge(q), NEW e \in Executions, StartExecution(e)
      PROVE  ShredInv'
  <2>1. request' \in [Requests -> {"shredding", "started", "answered"}]
    BY <1>3 DEF RequestStartsPurge, ShredInv, FlowInv, FlowTypeOK
  <2> QED BY <1>3, <2>1, ExecutionStarts DEF RequestStartsPurge
<1> QED BY <1>1, <1>2, <1>3 DEF RequestStep, RequestStartsPurge

(* A retry stays within the policy; past it the execution fails. *)
LEMMA NextAttemptIsAllowed ==
  ASSUME FlowTypeOK, NEW e \in Executions, NEW max \in Nat, workflow[e].attempt \in 1..max,
         NextAttempt(e, max)
  PROVE  /\ workflow' \in [Executions ->
               [phase : {"none", "shred", "purge", "completed", "failed"}, attempt : Nat]]
         /\ \A f \in Executions : f # e => workflow'[f] = workflow[f]
         /\ \/ /\ workflow'[e].phase = workflow[e].phase
               /\ workflow'[e].attempt \in 1..max
            \/ workflow'[e].phase = "failed"
BY DEF FlowTypeOK, NextAttempt

LEMMA ShredInvWorkflow ==
  ASSUME ShredInv, NEW e \in Executions, WorkflowStep(e)
  PROVE  ShredInv'
<1> USE DEF ShredInv, FlowInv
<1>1. UNCHANGED <<keyVars, purge, purgeAudits>>
  BY DEF WorkflowStep, ShredActivityCompletes, ShredActivityFails, PurgeActivityCompletes,
     PurgeActivityFails
<1>2. CASE ShredActivityCompletes(e)
  <2>1. FlowTypeOK' /\ AttemptInv'
    BY <1>2, ShredAssumption DEF ShredActivityCompletes, FlowTypeOK, AttemptInv
  <2>2. \A f \in Executions : workflow'[f].phase = "completed" => purgeAudits > 0
    BY <1>2 DEF ShredActivityCompletes, FlowTypeOK, CompletedMeansAuditedPurge
  <2> QED BY <1>1, <2>1, <2>2, FlowInvWorkflowStep
<1>3. CASE ShredActivityFails(e)
  <2>1. workflow[e].phase = "shred" /\ workflow[e].attempt \in 1..ShredAttempts
    BY <1>3 DEF ShredActivityFails, AttemptInv
  <2>2. NextAttempt(e, ShredAttempts) /\ UNCHANGED <<request, purge, purgeAudits>>
    BY <1>3 DEF ShredActivityFails
  <2>3. /\ workflow' \in [Executions ->
               [phase : {"none", "shred", "purge", "completed", "failed"}, attempt : Nat]]
        /\ \A f \in Executions : f # e => workflow'[f] = workflow[f]
        /\ \/ workflow'[e].phase = "shred" /\ workflow'[e].attempt \in 1..ShredAttempts
           \/ workflow'[e].phase = "failed"
    BY <2>1, <2>2, NextAttemptIsAllowed, ShredAssumption
  <2>4. FlowTypeOK'
    BY <2>2, <2>3 DEF FlowTypeOK
  <2>5. AttemptInv' /\ \A f \in Executions : workflow'[f].phase = "completed" => purgeAudits > 0
    BY <2>3 DEF AttemptInv, CompletedMeansAuditedPurge
  <2> QED BY <1>1, <2>4, <2>5, FlowInvWorkflowStep
<1>4. CASE PurgeActivityCompletes(e)
  <2>1. <<e, workflow[e].attempt>> \in PurgeActs
    BY <1>4 DEF PurgeActivityCompletes, AttemptInv, PurgeActs
  <2>2. purgeAudits > 0
    BY <1>4, <2>1 DEF PurgeActivityCompletes, PurgeInv
  <2>3. FlowTypeOK' /\ AttemptInv'
    BY <1>4 DEF PurgeActivityCompletes, FlowTypeOK, AttemptInv
  <2> QED BY <1>1, <2>2, <2>3, FlowInvWorkflowStep
<1>5. CASE PurgeActivityFails(e)
  <2>1. workflow[e].phase = "purge" /\ workflow[e].attempt \in 1..PurgeAttempts
    BY <1>5 DEF PurgeActivityFails, AttemptInv
  <2>2. NextAttempt(e, PurgeAttempts) /\ UNCHANGED <<request, purge, purgeAudits>>
    BY <1>5 DEF PurgeActivityFails
  <2>3. /\ workflow' \in [Executions ->
               [phase : {"none", "shred", "purge", "completed", "failed"}, attempt : Nat]]
        /\ \A f \in Executions : f # e => workflow'[f] = workflow[f]
        /\ \/ workflow'[e].phase = "purge" /\ workflow'[e].attempt \in 1..PurgeAttempts
           \/ workflow'[e].phase = "failed"
    BY <2>1, <2>2, NextAttemptIsAllowed, ShredAssumption
  <2>4. FlowTypeOK'
    BY <2>2, <2>3 DEF FlowTypeOK
  <2>5. AttemptInv' /\ \A f \in Executions : workflow'[f].phase = "completed" => purgeAudits > 0
    BY <2>3 DEF AttemptInv, CompletedMeansAuditedPurge
  <2> QED BY <1>1, <2>4, <2>5, FlowInvWorkflowStep
<1> QED BY <1>2, <1>3, <1>4, <1>5 DEF WorkflowStep

-----------------------------------------------------------------------------
(* Where a purge attempt stands once it leaves a table that is clean. *)
LEMMA AfterTableIsSound ==
  ASSUME NEW st \in AttemptStates, st.table \in 1..Tables,
         CleanBefore(st.table), Unpurged(st.table) = {}
  PROVE  LET next == AfterTable(st) IN
         /\ next \in AttemptStates /\ next.pc \in {"select", "audit"} /\ next.table \in 1..Tables
         /\ next.pc = "select" => CleanBefore(next.table)
         /\ next.pc = "audit" => Clean
<1>1. \A r \in Rows : TableOf[r] <= st.table => sealed[r] = None
  BY ShredAssumption DEF CleanBefore, Unpurged
<1>2. CASE st.table < Tables
  BY <1>1, <1>2, ShredAssumption DEF AttemptStates, AfterTable, CleanBefore
<1>3. CASE ~(st.table < Tables)
  BY <1>1, <1>3, ShredAssumption DEF AttemptStates, AfterTable, Clean
<1> QED BY <1>2, <1>3

(* An attempt moves, the tables and the workflow do not. *)
LEMMA AttemptMoves ==
  ASSUME ShredInv, NEW p \in PurgeActs, NEW st \in AttemptStates,
         st.pc \in {"select", "update", "audit", "dead"},
         st.pc # "dead" => engagement.status = "shredded",
         st.pc \in {"select", "update"} => st.table \in 1..Tables /\ CleanBefore(st.table),
         st.pc = "update" /\ ShortBatch(st.batch) => Unpurged(st.table) \subseteq st.batch,
         st.pc = "audit" => Clean,
         purge' = [purge EXCEPT ![p] = st],
         UNCHANGED <<keyVars, request, workflow, purgeAudits>>
  PROVE  ShredInv'
<1> USE DEF ShredInv, FlowInv
<1>1. KeyInv'
  BY KeyInvStutter
<1>2. FlowTypeOK' /\ AttemptInv'
  BY DEF FlowTypeOK, AttemptInv
<1>3. PurgeInv'
  <2> SUFFICES ASSUME NEW u \in PurgeActs PROVE PurgeInv!(u)'
    BY DEF PurgeInv
  <2>1. CASE u = p
    BY <2>1 DEF keyVars, FlowTypeOK, PurgeInv, Purging, CleanBefore, Unpurged, Clean
  <2>2. CASE u # p
    BY <2>2 DEF keyVars, FlowTypeOK, PurgeInv, Purging, CleanBefore, Unpurged, Clean
  <2> QED BY <2>1, <2>2
<1>4. PurgeAuditMeansClean' /\ CompletedMeansAuditedPurge'
  BY DEF keyVars, PurgeAuditMeansClean, CompletedMeansAuditedPurge, Clean
<1> QED BY <1>1, <1>2, <1>3, <1>4

LEMMA ShredInvPurgeCheck ==
  ASSUME ShredInv, NEW p \in PurgeActs, PurgeCheck(p)
  PROVE  ShredInv'
<1>1. p[1] \in Executions
  BY DEF PurgeActs
<1>2. CASE engagement.status = "shredded"
  <2> DEFINE st == [purge[p] EXCEPT !.pc = "select", !.table = 1]
  <2>1. purge[p] \in AttemptStates
    BY DEF ShredInv, FlowInv, FlowTypeOK
  <2>2. CleanBefore(1) /\ 1 \in 1..Tables /\ 1 \in 0..Tables
    BY ShredAssumption DEF CleanBefore
  <2>3. /\ st.pc = "select" /\ st.table = 1
        /\ st \in AttemptStates
    BY <2>1, <2>2 DEF AttemptStates
  <2>4. purge' = [purge EXCEPT ![p] = st] /\ UNCHANGED <<keyVars, request, workflow, purgeAudits>>
    BY <1>2 DEF PurgeCheck
  <2> HIDE DEF st
  <2> QED BY <1>2, <2>2, <2>3, <2>4, AttemptMoves
<1>3. CASE engagement.status # "shredded"
  <2> USE DEF ShredInv, FlowInv
  <2>1. /\ purge' = [purge EXCEPT ![p].pc = "dead"]
        /\ workflow' = [workflow EXCEPT ![p[1]].phase = "failed"]
        /\ UNCHANGED <<keyVars, request, purgeAudits>>
    BY <1>3 DEF PurgeCheck
  <2>2. KeyInv'
    BY <2>1, KeyInvStutter
  <2>3. FlowTypeOK' /\ AttemptInv'
    BY <1>1, <2>1 DEF AttemptStates, FlowTypeOK, AttemptInv
  <2>4. PurgeInv'
    BY <2>1 DEF keyVars, FlowTypeOK, PurgeInv, Purging, CleanBefore, Unpurged, Clean
  <2>5. PurgeAuditMeansClean' /\ CompletedMeansAuditedPurge'
    BY <1>1, <2>1 DEF keyVars, FlowTypeOK, PurgeAuditMeansClean, CompletedMeansAuditedPurge, Clean
  <2> QED BY <2>2, <2>3, <2>4, <2>5
<1> QED BY <1>2, <1>3

LEMMA ShredInvPurgeSelect ==
  ASSUME ShredInv, NEW p \in PurgeActs, PurgeSelect(p)
  PROVE  ShredInv'
<1> DEFINE b  == Batch(purge[p].table)
           st == IF b = {} THEN AfterTable(purge[p])
                 ELSE [purge[p] EXCEPT !.pc = "update", !.batch = b]
<1>1. /\ purge' = [purge EXCEPT ![p] = st]
      /\ UNCHANGED <<keyVars, request, workflow, purgeAudits>>
  BY DEF PurgeSelect
<1>2. /\ engagement.status = "shredded"
      /\ purge[p] \in AttemptStates /\ purge[p].table \in 1..Tables
      /\ CleanBefore(purge[p].table)
  BY DEF PurgeSelect, ShredInv, FlowInv, FlowTypeOK, PurgeInv, Purging
<1>3. CASE b = {}
  <2>1. ShortBatch(b)
    BY <1>3, FS_EmptySet, ShredAssumption DEF ShortBatch
  <2>2. Unpurged(purge[p].table) = {}
    BY <1>3, <2>1, ShortBatchIsLast
  <2>3. st = AfterTable(purge[p])
    BY <1>3
  <2>4. /\ st \in AttemptStates /\ st.pc \in {"select", "audit"} /\ st.table \in 1..Tables
        /\ st.pc = "select" => CleanBefore(st.table)
        /\ st.pc = "audit" => Clean
    BY <1>2, <2>2, <2>3, AfterTableIsSound
  <2>5. /\ st \in AttemptStates
        /\ st.pc \in {"select", "audit"} /\ st.table \in 1..Tables
    BY <2>4
  <2> HIDE DEF st
  <2> QED BY <1>1, <1>2, <2>4, <2>5, AttemptMoves
<1>4. CASE b # {}
  <2>1. b \in SUBSET Rows
    BY DEF Batch, Unpurged
  <2>2. /\ st \in AttemptStates
        /\ st.pc = "update" /\ st.table = purge[p].table /\ st.batch = b
    BY <1>2, <1>4, <2>1 DEF AttemptStates
  <2>3. ShortBatch(st.batch) => Unpurged(st.table) \subseteq st.batch
    BY <2>2, ShortBatchIsLast
  <2> HIDE DEF st
  <2> QED BY <1>1, <1>2, <2>2, <2>3, AttemptMoves
<1> QED BY <1>3, <1>4

(* Clearing columns of a shredded engagement, in a transaction that touches
   nothing else of the key's. *)
LEMMA KeyInvPurge ==
  ASSUME KeyInv, engagement.status = "shredded",
         sealed' \in [Rows -> Deks \cup {None}],
         UNCHANGED <<engagement, session, rotation, shredder, audit>>
  PROVE  KeyInv'
BY DEF KeyInv, KeyTypeOK, LockInv, RowInv, SessionInv, RotationInv, ShredderInv,
   ContentReadable, ShredAuditedOnce, OnlyVerifiedKeys, HoldsShare, HoldsForUpdate, HoldsUpdate

LEMMA ShredInvPurgeUpdate ==
  ASSUME ShredInv, NEW p \in PurgeActs, PurgeUpdate(p)
  PROVE  ShredInv'
<1> USE DEF ShredInv, FlowInv
<1> DEFINE at == purge[p]
           st == IF ShortBatch(at.batch) THEN AfterTable(at)
                 ELSE [at EXCEPT !.pc = "select", !.batch = {}]
<1>1. /\ purge' = [purge EXCEPT ![p] = st]
      /\ sealed' = [r \in Rows |-> IF r \in at.batch THEN None ELSE sealed[r]]
      /\ UNCHANGED <<engagement, session, rotation, shredder, audit,
                     request, workflow, purgeAudits>>
  BY DEF PurgeUpdate
<1>2. /\ engagement.status = "shredded" /\ engagement'.status = "shredded"
      /\ at \in AttemptStates /\ at.table \in 1..Tables
      /\ CleanBefore(at.table)
      /\ ShortBatch(at.batch) => Unpurged(at.table) \subseteq at.batch
  BY <1>1 DEF PurgeUpdate, FlowTypeOK, PurgeInv, Purging
<1>3. \A r \in Rows : /\ sealed[r] = None => sealed'[r] = None
                      /\ r \in at.batch => sealed'[r] = None
  BY <1>1
<1>4. KeyInv'
  <2>1. sealed' \in [Rows -> Deks \cup {None}]
    BY <1>1 DEF KeyInv, KeyTypeOK
  <2> QED BY <1>1, <1>2, <2>1, KeyInvPurge
<1>5. /\ st \in AttemptStates /\ st.pc \in {"select", "audit"} /\ st.table \in 1..Tables
      /\ st.pc = "select" => \A r \in Rows : TableOf[r] < st.table => sealed'[r] = None
      /\ st.pc = "audit" => Clean'
  <2>1. CASE ShortBatch(at.batch)
    <3>1. \A r \in Rows : TableOf[r] <= at.table => sealed'[r] = None
      BY <1>2, <1>3, <2>1, ShredAssumption DEF CleanBefore, Unpurged
    <3>2. CASE at.table < Tables
      BY <1>2, <2>1, <3>1, <3>2, ShredAssumption DEF AttemptStates, AfterTable, CleanBefore
    <3>3. CASE ~(at.table < Tables)
      BY <1>2, <2>1, <3>1, <3>3, ShredAssumption DEF AttemptStates, AfterTable, Clean
    <3> QED BY <3>2, <3>3
  <2>2. CASE ~ShortBatch(at.batch)
    BY <1>2, <1>3, <2>2 DEF AttemptStates, CleanBefore
  <2> QED BY <2>1, <2>2
<1> HIDE DEF st
<1>6. FlowTypeOK' /\ AttemptInv'
  BY <1>1, <1>5 DEF FlowTypeOK, AttemptInv
<1>7. PurgeInv'
  <2> SUFFICES ASSUME NEW u \in PurgeActs PROVE PurgeInv!(u)'
    BY DEF PurgeInv
  <2>1. CASE u = p
    <3>1. purge'[p] = st
      BY <1>1 DEF FlowTypeOK
    <3> QED BY <1>2, <1>5, <2>1, <3>1 DEF AttemptStates, Purging, CleanBefore, Clean
  <2>2. CASE u # p
    <3>1. purge'[u] = purge[u] /\ PurgeInv!(u)
      BY <1>1, <2>2 DEF FlowTypeOK, PurgeInv
    <3> QED BY <1>1, <1>2, <1>3, <3>1 DEF Purging, CleanBefore, Unpurged, Clean
  <2> QED BY <2>1, <2>2
<1>8. PurgeAuditMeansClean' /\ CompletedMeansAuditedPurge'
  BY <1>1, <1>3 DEF PurgeAuditMeansClean, CompletedMeansAuditedPurge, Clean
<1> QED BY <1>4, <1>6, <1>7, <1>8

LEMMA ShredInvPurgeAudit ==
  ASSUME ShredInv, NEW p \in PurgeActs, PurgeAudit(p)
  PROVE  ShredInv'
<1> USE DEF ShredInv, FlowInv
<1>1. engagement.status = "shredded" /\ Clean
  BY DEF PurgeAudit, PurgeInv
<1>2. /\ purge' = [purge EXCEPT ![p].pc = "done"] /\ purgeAudits' = purgeAudits + 1
      /\ UNCHANGED <<keyVars, request, workflow>>
  BY DEF PurgeAudit
<1>3. purgeAudits' \in Nat /\ purgeAudits' > 0
  BY <1>2 DEF FlowTypeOK
<1>4. KeyInv'
  BY <1>2, KeyInvStutter
<1>5. FlowTypeOK' /\ AttemptInv'
  BY <1>2, <1>3 DEF AttemptStates, FlowTypeOK, AttemptInv
<1>6. PurgeInv'
  BY <1>1, <1>2, <1>3 DEF keyVars, FlowTypeOK, PurgeInv, Purging, CleanBefore, Unpurged, Clean
<1>7. PurgeAuditMeansClean' /\ CompletedMeansAuditedPurge'
  BY <1>1, <1>2, <1>3 DEF keyVars, PurgeAuditMeansClean, CompletedMeansAuditedPurge, Clean
<1> QED BY <1>4, <1>5, <1>6, <1>7

LEMMA ShredInvPurgeDies ==
  ASSUME ShredInv, NEW p \in PurgeActs, PurgeDies(p)
  PROVE  ShredInv'
<1> DEFINE st == [IdlePurge EXCEPT !.pc = "dead"]
<1>1. /\ st \in AttemptStates
      /\ st.pc = "dead"
  BY ShredAssumption DEF AttemptStates, IdlePurge
<1>2. purge' = [purge EXCEPT ![p] = st] /\ UNCHANGED <<keyVars, request, workflow, purgeAudits>>
  BY DEF PurgeDies
<1> HIDE DEF st
<1> QED BY <1>1, <1>2, AttemptMoves

-----------------------------------------------------------------------------
LEMMA ShredInvInit == Init => ShredInv
<1> SUFFICES ASSUME Init PROVE ShredInv
  OBVIOUS
<1>1. KeyInv
  BY KeyInvInit DEF Init
<1>2. FlowTypeOK /\ AttemptInv
  BY ShredAssumption DEF AttemptStates, Init, FlowTypeOK, AttemptInv, NoExecution, IdlePurge
<1>3. PurgeInv
  BY DEF Init, PurgeInv, Purging, IdlePurge
<1>4. PurgeAuditMeansClean /\ CompletedMeansAuditedPurge
  BY DEF Init, PurgeAuditMeansClean, CompletedMeansAuditedPurge, NoExecution
<1> QED BY <1>1, <1>2, <1>3, <1>4 DEF ShredInv, FlowInv

LEMMA ShredInvNext ==
  ASSUME ShredInv, [Next]_vars
  PROVE  ShredInv'
<1>1. ASSUME NEW s \in Sessions, SessionStep(s), UNCHANGED flowVars PROVE ShredInv'
  BY <1>1, FlowInvKeyStep DEF KeyNext
<1>2. ASSUME NEW t \in Rotators, RotateStep(t), UNCHANGED flowVars PROVE ShredInv'
  BY <1>2, FlowInvKeyStep DEF KeyNext
<1>3. CASE ExternalStart
  <2>1. request' \in [Requests -> {"shredding", "started", "answered"}]
    BY <1>3 DEF ExternalStart, ShredInv, FlowInv, FlowTypeOK
  <2> QED BY <1>3, <2>1, ExecutionStarts DEF ExternalStart
<1>4. ASSUME NEW a \in ShredActs, ActivityShred(a) PROVE ShredInv'
  BY <1>4, FlowInvKeyStep, ShredAssumption DEF ActivityShred, KeyNext
<1>5. ASSUME NEW p \in PurgeActs, PurgeProgress(p) \/ PurgeDies(p) PROVE ShredInv'
  BY <1>5, ShredInvPurgeCheck, ShredInvPurgeSelect, ShredInvPurgeUpdate, ShredInvPurgeAudit,
     ShredInvPurgeDies DEF PurgeProgress
<1>6. CASE Quiescent \/ UNCHANGED vars
  <2>1. UNCHANGED vars
    BY <1>6 DEF Quiescent
  <2>2. UNCHANGED <<keyVars, purge, purgeAudits>>
    BY <2>1 DEF vars, flowVars
  <2>3. /\ FlowTypeOK' /\ AttemptInv'
        /\ \A e \in Executions : workflow'[e].phase = "completed" => purgeAudits > 0
    BY <2>1 DEF vars, flowVars, ShredInv, FlowInv, FlowTypeOK, AttemptInv,
       CompletedMeansAuditedPurge
  <2> QED BY <2>2, <2>3, FlowInvWorkflowStep
<1> QED
  BY <1>1, <1>2, <1>3, <1>4, <1>5, <1>6, ShredInvRequest, ShredInvWorkflow DEF Next

-----------------------------------------------------------------------------
(* The inductive invariant of the workflow that destroys an engagement, for any
   mix of requests, retried and overlapping attempts, sessions and rotations. *)
THEOREM ShredInvariant == Spec => []ShredInv
<1>1. ShredInv /\ [Next]_vars => ShredInv'
  BY ShredInvNext
<1> QED BY ShredInvInit, <1>1, PTL DEF Spec

(* Every variable of crypto-shred.ts keeps its type: the handlers, the executions
   and their attempts, and where each purge attempt stands. *)
THEOREM ShredTypeCorrect == Spec => []TypeOK
<1>1. ShredInv => TypeOK
  BY DEF AttemptStates, ShredInv, KeyInv, FlowInv, FlowTypeOK, TypeOK
<1> QED BY ShredInvariant, <1>1, PTL

(* The audit row "ciphertext purged" of activities/crypto-shred.ts is only ever
   written, and stays, true: no key, and no row of any table with ciphertext. *)
THEOREM PurgeAuditIsTrue == Spec => []PurgeAuditMeansClean
<1>1. ShredInv => PurgeAuditMeansClean
  BY DEF ShredInv, FlowInv
<1> QED BY ShredInvariant, <1>1, PTL

(* An execution of the workflow that completes has purged every table. *)
THEOREM CompletionIsAPurge == Spec => []CompletedMeansAuditedPurge
<1>1. ShredInv => CompletedMeansAuditedPurge
  BY DEF ShredInv, FlowInv
<1> QED BY ShredInvariant, <1>1, PTL

(* The status check that opens purgeShreddedCiphertext is never stale: at no
   later point of the attempt does a wrapped DEK exist again. *)
THEOREM PurgeAfterTheKey == Spec => []PurgeOnlyDeadCiphertext
<1>1. ShredInv => PurgeOnlyDeadCiphertext
  BY DEF ShredInv, KeyInv, FlowInv, PurgeInv, RowInv, PurgeOnlyDeadCiphertext
<1> QED BY ShredInvariant, <1>1, PTL

(* The promises of the key hold inside the workflow too: what is stored of an
   active engagement can be opened, and an open session's DEK is the live one. *)
THEOREM ShredKeepsTheKeysPromises == Spec => [](ContentReadable /\ OpenSessionsHoldLiveDek)
<1>1. ShredInv => ContentReadable /\ OpenSessionsHoldLiveDek
  BY DEF ShredInv, KeyInv, OpenSessionsHoldLiveDek, SessionInv, HoldsShare
<1> QED BY ShredInvariant, <1>1, PTL

-----------------------------------------------------------------------------
(* The purge is the only step of the workflow, beside the transactions of the
   key, that the abstract life of an engagement can see. *)
LEMMA ShredRefinesStep ==
  ASSUME ShredInv, [Next]_vars
  PROVE  [Lifecycle!Next]_(Lifecycle!vars)
<1>1. ASSUME [KeyNext]_keyVars PROVE [Lifecycle!Next]_(Lifecycle!vars)
  BY <1>1, KeyRefinesStep DEF ShredInv
<1>2. ASSUME NEW p \in PurgeActs, PurgeUpdate(p)
      PROVE  [Lifecycle!Next]_(Lifecycle!vars)
  <2> DEFINE content == {r \in Rows : sealed[r] # None}
  <2>1. engagement.status = "shredded" /\ engagement' = engagement
    BY <1>2 DEF PurgeUpdate, ShredInv, FlowInv, PurgeInv
  <2>2. content' = content \ purge[p].batch
    BY <1>2 DEF PurgeUpdate
  <2>3. \E P \in SUBSET Rows : content' = content \ P
    <3>1. content \cap purge[p].batch \in SUBSET Rows /\ content' = content \ (content \cap purge[p].batch)
      BY <2>2
    <3> QED BY <3>1
  <2>4. Lifecycle!Purge
    BY <2>1, <2>3 DEF Lifecycle!Purge
  <2> QED BY <2>4 DEF Lifecycle!Next
<1>3. ASSUME NEW q \in Requests, RequestStep(q) PROVE [KeyNext]_keyVars
  BY <1>3, ShredAssumption DEF RequestStep, RequestShred, RequestFails, RequestStartsPurge, KeyNext
<1>4. ASSUME NEW a \in ShredActs, ActivityShred(a) PROVE [KeyNext]_keyVars
  BY <1>4, ShredAssumption DEF ActivityShred, KeyNext
<1>5. ASSUME NEW e \in Executions, WorkflowStep(e) PROVE [KeyNext]_keyVars
  BY <1>5 DEF WorkflowStep, ShredActivityCompletes, ShredActivityFails, PurgeActivityCompletes,
     PurgeActivityFails
<1>6. ASSUME NEW p \in PurgeActs, PurgeProgress(p) \/ PurgeDies(p), ~PurgeUpdate(p)
      PROVE  [KeyNext]_keyVars
  BY <1>6 DEF PurgeProgress, PurgeCheck, PurgeSelect, PurgeAudit, PurgeDies
<1>7. ASSUME NEW s \in Sessions, SessionStep(s) PROVE [KeyNext]_keyVars
  BY <1>7 DEF KeyNext
<1>8. ASSUME NEW t \in Rotators, RotateStep(t) PROVE [KeyNext]_keyVars
  BY <1>8 DEF KeyNext
<1>9. CASE ExternalStart \/ Quiescent \/ UNCHANGED vars
  <2>1. UNCHANGED keyVars
    BY <1>9 DEF ExternalStart, Quiescent, vars
  <2> QED BY <2>1, <1>1
<1> QED BY <1>1, <1>2, <1>3, <1>4, <1>5, <1>6, <1>7, <1>8, <1>9 DEF Next

(* The whole flow, from the request to the last purged batch, implements the
   promise of an engagement's life: content only while the key exists, a shred
   that is final, and afterwards content that only ever disappears. *)
THEOREM ShredImplementsLifecycle == Spec => KeepsLifecycle
<1>1. Init => Lifecycle!Init
  BY DEF Init, KeyInit, Lifecycle!Init
<1>2. ShredInv /\ [Next]_vars => [Lifecycle!Next]_(Lifecycle!vars)
  BY ShredRefinesStep
<1> QED BY ShredInvariant, <1>1, <1>2, PTL DEF Spec, KeepsLifecycle, Lifecycle!Spec
=============================================================================
