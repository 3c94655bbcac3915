-------------------------- MODULE MCConnectorSync --------------------------
(* ConnectorSync for TLC: landers are the attempts, versions are numbers.  A
   backfill and an incremental sync of one attempt each overlap, or one workflow
   of either kind has all its attempts.  Of two that overlap the first to read
   finds no cursor, which makes it a backfill whatever its mode is. *)
EXTENDS ConnectorSync

MCLanders  == (1..MaxSyncs) \X (1..SyncAttempts)
MCVersions == 1..MaxVersion

Alone == \A w \in Syncs : sync[w].phase # "none" =>
  IF sync[w].tries > 1 THEN w = 1
  ELSE sync[w].mode = IF w = 1 THEN "backfill" ELSE "incremental"
MCSpec == Init /\ [][Next /\ Alone']_vars
MCFairSpec == MCSpec /\ SyncFairness
=============================================================================
