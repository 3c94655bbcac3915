--------------------------- MODULE ConnectorAdmin ---------------------------
(* Configuring a connector (apps/api admin.service, temporal.module, the
   connector_config table, and the connector card of the web app).  A PUT is one
   database transaction that upserts the row, reads back its effective state and
   brings the Temporal poll schedule in line with it before the transaction
   commits: Temporal knows nothing of the transaction, so a failure of either
   call leaves the other's effect behind.  One connector, several engagements. *)
EXTENDS Integers, FiniteSets

CONSTANTS
  ConnectedTo, \* engagements a connector may be configured for
  Admins,      \* each with one request in flight at most: the card disables itself
  Scopes,      \* external workspaces an engagement may claim
  Intervals,   \* poll intervals offered, as numbers; 0 is off
  Unset        \* no scope; no configuration row

(* A connector_config row; a scope is a workspace of the origin's. *)
Rows == [enabled : BOOLEAN, credential : BOOLEAN, poll : Intervals, scope : Scopes \cup {Unset}]

ASSUME AdminAssumption ==
  /\ 0 \in Intervals /\ Intervals \subseteq Nat
  /\ Unset \notin Rows \cup Scopes

VARIABLES
  configs,     \* the committed connector_config rows
  schedules,   \* the poll schedule Temporal holds: an interval, or 0 for none
  puts,        \* the PUT each admin has in flight
  torn         \* engagements whose last PUT failed after its row was written

adminVars == <<configs, schedules, puts, torn>>

NoPut == [at |-> "none"]
Defaults == [enabled |-> FALSE, credential |-> FALSE, poll |-> 0, scope |-> Unset]

(* A patch names the fields it sets.  The card's controls send one field each; the
   API takes any of them together, and a scope.  A credential can be set, not
   cleared; the retention override, which no schedule hangs on, is left out. *)
CardPatches ==
  {[enabled |-> b] : b \in BOOLEAN} \cup {[credential |-> TRUE]}
  \cup {[poll |-> n] : n \in Intervals}
Patches ==
  CardPatches \cup {[scope |-> s] : s \in Scopes \cup {Unset}}
  \cup {[enabled |-> TRUE, credential |-> TRUE, poll |-> n] : n \in Intervals}

(* The upsert writes the fields named, over the row or over the defaults. *)
Upserted(row, patch) ==
  LET base == IF row = Unset THEN Defaults ELSE row
  IN [f \in DOMAIN Defaults |-> IF f \in DOMAIN patch THEN patch[f] ELSE base[f]]

(* The schedule a row asks for: none unless enabled, with a credential. *)
WantedInterval(row) ==
  IF row # Unset /\ row.enabled /\ row.credential THEN row.poll ELSE 0

(* The partial unique index on the scope: a claim waits for an uncommitted one
   and fails on a committed one, both those of other engagements. *)
Writing(a) == puts[a] # NoPut
RowLocked(e) == \E b \in Admins : Writing(b) /\ puts[b].engagement = e
ClaimWaits(e, row) ==
  row.scope # Unset /\ \E b \in Admins :
    Writing(b) /\ puts[b].engagement # e /\ puts[b].row.scope = row.scope
ClaimConflicts(e, row) ==
  row.scope # Unset /\ \E o \in ConnectedTo \ {e} :
    configs[o] # Unset /\ configs[o].scope = row.scope

---------------------------------------------------------------------------
AdminInit ==
  /\ configs = [e \in ConnectedTo |-> Unset]
  /\ schedules = [e \in ConnectedTo |-> 0]
  /\ puts = [a \in Admins |-> NoPut]
  /\ torn = {}

(* A PUT: its upsert runs on the latest committed row once it holds the row's
   lock; a scope another engagement holds is a 409. *)
Puts(a, e, patch) ==
  LET row == Upserted(configs[e], patch)
  IN /\ puts[a] = NoPut
     /\ ~RowLocked(e)
     /\ ~ClaimWaits(e, row)
     /\ ~ClaimConflicts(e, row)
     /\ puts' = [puts EXCEPT ![a] = [at |-> "schedule", engagement |-> e, row |-> row,
                                    fields |-> DOMAIN patch]]
     /\ UNCHANGED <<configs, schedules, torn>>

(* Reconciling the schedule: updated, created if absent, or deleted.  The call
   may fail with or without effect; the request then ends in a 503 and its
   transaction is rolled back. *)
MutReconciled(e, row) ==
  IF WantedInterval(row) # 0 THEN [schedules EXCEPT ![e] = row.poll] ELSE schedules
Reconciled(e, row) == [schedules EXCEPT ![e] = WantedInterval(row)]
Schedules(a) ==
  LET e == puts[a].engagement
  IN /\ puts[a].at = "schedule"
     /\ \E done, told \in BOOLEAN :
          /\ told => done
          /\ schedules' = IF done THEN Reconciled(e, puts[a].row) ELSE schedules
          /\ puts' = [puts EXCEPT ![a] = IF told THEN [@ EXCEPT !.at = "commit"] ELSE NoPut]
          /\ torn' = IF told THEN torn ELSE torn \cup {e}
     /\ UNCHANGED configs

Commits(a) ==
  LET e == puts[a].engagement
  IN /\ puts[a].at = "commit"
     /\ \/ /\ configs' = [configs EXCEPT ![e] = puts[a].row]
           /\ torn' = torn \ {e}
        \/ torn' = torn \cup {e} /\ UNCHANGED configs
     /\ puts' = [puts EXCEPT ![a] = NoPut]
     /\ UNCHANGED schedules

AdminNext ==
  \E a \in Admins :
    \/ \E e \in ConnectedTo, patch \in Patches : Puts(a, e, patch)
    \/ Schedules(a) \/ Commits(a)

AdminSpec == AdminInit /\ [][AdminNext]_adminVars

---------------------------------------------------------------------------
(* Whatever fields the PUTs name and however they interleave, an engagement
   whose last PUT met no failure is polled exactly as its row asks: never while
   disabled or without a credential. *)
ScheduleFollowsConfig ==
  \A e \in ConnectedTo :
    e \in torn \/ RowLocked(e) \/ schedules[e] = WantedInterval(configs[e])

(* A PUT never disturbs a field it does not name, the stored credential least of
   all, whatever other admins saved since it was sent. *)
OmittedFieldsKept ==
  [][\A e \in ConnectedTo : configs'[e] # configs[e] =>
       \E a \in Admins :
         /\ puts[a].at = "commit" /\ puts[a].engagement = e
         /\ configs[e] # Unset => \A f \in DOMAIN Defaults :
              configs'[e][f] # configs[e][f] => f \in puts[a].fields]_adminVars

(* Two PUTs racing to claim one external workspace: exactly one wins, so a
   webhook of the workspace is routed to one engagement. *)
ScopeClaimedOnce ==
  \A d, e \in ConnectedTo :
    configs[d] # Unset /\ configs[e] # Unset
    /\ configs[d].scope = configs[e].scope /\ configs[d].scope # Unset => d = e

(* What admin.service.ts:150-151 says: the config is already saved, so a
   Temporal outage (503) only blocks the schedule taking effect.  Broken: the 503
   rolls the transaction back. *)
SavedDespiteOutage ==
  [][\A a \in Admins :
       puts[a].at = "schedule" /\ puts'[a] = NoPut
         => configs'[puts[a].engagement] = puts[a].row]_adminVars
=============================================================================
