------------------------------- MODULE Access -------------------------------
(***************************************************************************)
(* Who may do what: logins through WorkOS and the directory's deprovision  *)
(* webhook (AuthService, UsersService, SessionService, DirectorySync), the *)
(* script that issues an API key, and the authorisation tuples all of them *)
(* and the engagement endpoints write (AuthzClient, its in-memory form).   *)
(*                                                                         *)
(* Users rows and tuples are shared by every process and survive a         *)
(* restart; sessions live in the memory of the one API process.  A call    *)
(* runs one statement or authorisation call a step.  The tenant is fixed.  *)
(***************************************************************************)
EXTENDS Naturals, FiniteSets

CONSTANTS Logins,        \* [id, wid, email, dev]: an answer of WorkOS to a code
          Deprovisions,  \* [id, wid]: directory events
          Admissions,    \* [id, by, on, grantee, role]: POST :id/members
          Keys,          \* [id, on, role]: runs of issue-api-key; on = {}: tenant-wide
          Lists,         \* [id, by]: GET /engagements, by a wid
          Engagements,   \* the tenant's engagements
          Tenant, MaxRestarts, Nobody

Acts == Logins \cup Deprovisions \cup Admissions \cup Keys \cup Lists

ASSUME AccessAssumption ==
  /\ IsFiniteSet(Engagements) /\ Tenant \notin Engagements
  /\ \A k \in Keys : k.on \subseteq Engagements
  /\ \A a \in Admissions : a.on \in Engagements
  /\ \A d \in Deprovisions : d.wid # Nobody
  (* a call is of one kind *)
  /\ Logins \cap (Deprovisions \cup Admissions \cup Keys \cup Lists) = {}
  /\ Deprovisions \cap (Admissions \cup Keys \cup Lists) = {}
  /\ Admissions \cap (Keys \cup Lists) = {} /\ Keys \cap Lists = {}
  (* a request with another role is refused; the script's usage names no other,
     and SpiceDB refuses a relation its schema lacks *)
  /\ \A c \in Admissions \cup Keys : c.role \in {"viewer", "member", "admin"}
  /\ MaxRestarts \in Nat

VARIABLES users,     \* users rows: [id, wid, email, active]
          sessions,  \* sessions of the process: [id, wid, user]
          tuples,    \* relationships: [on, rel, subject]
          acts,     \* [Acts -> where it is, the user it found, what is left]
          shown,     \* keys printed to their issuer
          restarts,
          out        \* wids deprovisioned with no login overlapping or since

accessVars == <<users, sessions, tuples, acts, shown, restarts, out>>

UserFor(wid) == {u \in users : u.wid = wid}

-----------------------------------------------------------------------------
(* Authorisation: the rules of the in-memory client, and what they mean. *)

Rules ==
  [tenant     |-> [administer |-> {"admin"}, belong |-> {"admin", "member"}],
   engagement |-> [view |-> {"viewer", "member", "admin", "parent_tenant->administer"},
                   contribute |-> {"member", "admin"}, administer |-> {"admin"}]]

TypeOf(object) == IF object = Tenant THEN "tenant" ELSE "engagement"

RelationHolds(object, rel, subject) == [on |-> object, rel |-> rel, subject |-> subject] \in tuples

(* resolve, unrolled: the rules have one arrow, and it ends at a permission that
   has none. *)
Granted(object, permission, subject) ==
  \E rule \in Rules[TypeOf(object)][permission] : RelationHolds(object, rule, subject)
Resolve(object, permission, subject) ==
  \/ Granted(object, permission, subject)
  \/ /\ "parent_tenant->administer" \in Rules[TypeOf(object)][permission]
     /\ \E t \in tuples : /\ t.on = object /\ t.rel = "parent_tenant"
                           /\ Granted(t.subject, "administer", subject)

LookupResources(type, permission, subject) ==
  {object \in {t.on : t \in {s \in tuples : TypeOf(s.on) = type}} :
      Resolve(object, permission, subject)}

(* The schema SpiceDB is given, read as the relations it names. *)
InSchema(object, permission, subject) ==
  LET has(rels) == \E rel \in rels : RelationHolds(object, rel, subject)
  IN CASE permission = "administer" -> has({"admin"})
       [] permission \in {"belong", "contribute"} -> has({"admin", "member"})
       [] permission = "view" -> \/ has({"viewer", "member", "admin"})
                                 \/ /\ RelationHolds(object, "parent_tenant", Tenant)
                                    /\ RelationHolds(Tenant, "admin", subject)

Touch(object, rel, subject) ==
  tuples' = tuples \cup {[on |-> object, rel |-> rel, subject |-> subject]}

-----------------------------------------------------------------------------
Fresh == [pc |-> "idle", user |-> Nobody, todo |-> {}]
InFlight(c) == acts[c].pc \notin {"idle", "done", "failed"}
GoesTo(c, pc) == acts' = [acts EXCEPT ![c].pc = pc]

AccessInit ==
  /\ users = {} /\ sessions = {} /\ tuples = {} /\ shown = {} /\ restarts = 0 /\ out = {}
  /\ acts = [c \in Acts |-> Fresh]

(* A database, authorisation or process failure ends a call where it stands. *)
ActFails(c) ==
  /\ InFlight(c)
  /\ GoesTo(c, "failed")
  /\ UNCHANGED <<users, sessions, tuples, shown, restarts, out>>

(* The callback: the code is exchanged and the organisation has a tenant. *)
Authenticates(l) ==
  /\ acts[l].pc = "idle"
  /\ acts' = [c \in Acts |->
       IF c = l THEN [acts[l] EXCEPT !.pc = "upserting"]
       ELSE IF c \in Deprovisions /\ acts[c].pc = "revoking" /\ c.wid = l.wid
            THEN [acts[c] EXCEPT !.todo = acts[c].todo \cup {l}] ELSE acts[c]]
  /\ out' = out \ {l.wid}
  /\ UNCHANGED <<users, sessions, tuples, shown, restarts>>

(* upsertFromSso, first the UPDATE by WorkOS id: it fails when the e-mail
   address is another row's, or when it would give two rows the same. *)
EmailFree(l) == \A u \in users : u.email = l.email => u.wid = l.wid

Updates(l) ==
  /\ acts[l].pc = "upserting" /\ UserFor(l.wid) # {}
  /\ IF EmailFree(l) /\ Cardinality(UserFor(l.wid)) = 1
     THEN LET u == CHOOSE u \in users : u.wid = l.wid
          IN /\ users' = (users \ {u}) \cup {[u EXCEPT !.email = l.email, !.active = TRUE]}
             /\ acts' = [acts EXCEPT ![l].pc = "granting", ![l].user = u.id]
     ELSE GoesTo(l, "failed") /\ UNCHANGED users
  /\ UNCHANGED <<sessions, tuples, shown, restarts, out>>

FindsNone(l) ==
  /\ acts[l].pc = "upserting" /\ UserFor(l.wid) = {}
  /\ GoesTo(l, "inserting")
  /\ UNCHANGED <<users, sessions, tuples, shown, restarts, out>>

(* then the INSERT, which takes over the row of that address if there is one *)
Inserts(l) ==
  /\ acts[l].pc = "inserting"
  /\ LET same == {u \in users : u.email = l.email}
         id   == IF same = {} THEN l.id ELSE (CHOOSE u \in same : TRUE).id
     IN /\ users' = (users \ same) \cup {[id |-> id, wid |-> l.wid, email |-> l.email, active |-> TRUE]}
        /\ acts' = [acts EXCEPT ![l].pc = "granting", ![l].user = id]
  /\ UNCHANGED <<sessions, tuples, shown, restarts, out>>

(* provisionUser grants the role best-effort: a failure is only logged. *)
SeedsMembership(l) ==
  /\ acts[l].pc = "granting"
  /\ GoesTo(l, "opening")
  /\ Touch(Tenant, IF l.dev THEN "admin" ELSE "member", acts[l].user) \/ UNCHANGED tuples
  /\ UNCHANGED <<users, sessions, shown, restarts, out>>

Opens(l) ==
  /\ acts[l].pc = "opening"
  /\ sessions' = sessions \cup {[id |-> l.id, wid |-> l.wid, user |-> acts[l].user]}
  /\ GoesTo(l, "done")
  /\ UNCHANGED <<users, tuples, shown, restarts, out>>

(* dsync.user.deleted or .deactivated: disable the rows, revoke the sessions.
   todo: the logins the event overlaps. *)
Disables(d) ==
  /\ acts[d].pc = "idle"
  /\ users' = {[u EXCEPT !.active = u.active /\ u.wid # d.wid] : u \in users}
  /\ acts' = [acts EXCEPT ![d].pc = "revoking",
                            ![d].todo = {l \in Logins : l.wid = d.wid /\ InFlight(l)}]
  /\ UNCHANGED <<sessions, tuples, shown, restarts, out>>

MutRevokesOne(wid) ==
  LET of == {s \in sessions : s.wid = wid}
  IN sessions \ (IF of = {} THEN {} ELSE {CHOOSE s \in of : TRUE})
RevokeByWorkosUser(wid) == {s \in sessions : s.wid # wid}

Revokes(d) ==
  /\ acts[d].pc = "revoking"
  /\ sessions' = RevokeByWorkosUser(d.wid)
  /\ GoesTo(d, "done")
  /\ out' = IF acts[d].todo = {} THEN out \cup {d.wid} ELSE out
  /\ UNCHANGED <<users, tuples, shown, restarts>>

(* The process dies with its sessions and its requests; onModuleInit opens the
   development session again, or cannot and only warns. *)
Restarts ==
  /\ restarts < MaxRestarts
  /\ restarts' = restarts + 1
  /\ acts' = [c \in Acts |-> IF InFlight(c) THEN [acts[c] EXCEPT !.pc = "failed"] ELSE acts[c]]
  /\ \E kept \in SUBSET {u \in users : \E l \in Logins : l.dev /\ l.wid = u.wid} :
       /\ Cardinality(kept) < 2
       /\ sessions' = {[id |-> u.id, wid |-> u.wid, user |-> u.id] : u \in kept}
       /\ users' = (users \ kept) \cup {[u EXCEPT !.active = TRUE] : u \in kept}
       /\ tuples' = tuples \cup {[on |-> Tenant, rel |-> "admin", subject |-> u.id] : u \in kept}
       /\ out' = out \ {u.wid : u \in kept}
  /\ UNCHANGED shown

-----------------------------------------------------------------------------
(* POST :id/members: the gate, the grantee's membership, the two tuples. *)
CallerOf(c) == {s.user : s \in {t \in sessions : t.wid = c.by}}

Gates(a) ==
  /\ acts[a].pc = "idle"
  /\ \E caller \in CallerOf(a), grantee \in {u.id : u \in UserFor(a.grantee)} :
       acts' = [acts EXCEPT
         ![a].pc = IF /\ \/ Resolve(a.on, "administer", caller)
                         \/ Resolve(Tenant, "administer", caller)
                      /\ Resolve(Tenant, "belong", grantee)
                   THEN "granting" ELSE "failed",
         ![a].user = grantee, ![a].todo = {a.on}]
  /\ UNCHANGED <<users, sessions, tuples, shown, restarts, out>>

(* issue-api-key: a user of its own, then the grants, then the key. *)
InsertsUser(k) ==
  /\ acts[k].pc = "idle"
  /\ users' = users \cup {[id |-> k.id, wid |-> Nobody, email |-> k.id, active |-> TRUE]}
  /\ acts' = [acts EXCEPT ![k].pc = IF k.on = {} THEN "tenant" ELSE "granting",
                            ![k].user = k.id, ![k].todo = k.on]
  /\ UNCHANGED <<sessions, tuples, shown, restarts, out>>

GrantsTenant(k) ==
  /\ acts[k].pc = "tenant"
  /\ Touch(Tenant, k.role, acts[k].user)
  /\ GoesTo(k, "storing")
  /\ UNCHANGED <<users, sessions, shown, restarts, out>>

LinkFirst(c, object) == [on |-> object, rel |-> "parent_tenant", subject |-> Tenant] \in tuples

LinksToTenant(c) ==
  /\ acts[c].pc = "granting"
  /\ \E object \in acts[c].todo :
       /\ ~LinkFirst(c, object)
       /\ Touch(object, "parent_tenant", Tenant)
  /\ UNCHANGED <<users, sessions, acts, shown, restarts, out>>

GrantsRole(c) ==
  /\ acts[c].pc = "granting"
  /\ \E object \in acts[c].todo :
       /\ LinkFirst(c, object)
       /\ Touch(object, c.role, acts[c].user)
       /\ acts' = [acts EXCEPT ![c].todo = @ \ {object},
            ![c].pc = IF acts[c].todo # {object} THEN @
                      ELSE IF c \in Keys THEN "storing" ELSE "done"]
  /\ UNCHANGED <<users, sessions, shown, restarts, out>>

MayShow(k) == acts[k].pc = "storing"

ShowsKey(k) ==
  /\ MayShow(k)
  /\ shown' = shown \cup {k}
  /\ GoesTo(k, "done")
  /\ UNCHANGED <<users, sessions, tuples, restarts, out>>

(* GET /engagements with AUTHZ_ENFORCE: parent every engagement, all at once,
   then look up what the caller may view. *)
ParentsAll(q) ==
  /\ acts[q].pc \in {"idle", "parenting"} /\ CallerOf(q) # {}
  /\ \E object \in Engagements :
       /\ object \notin acts[q].todo
       /\ Touch(object, "parent_tenant", Tenant)
       /\ acts' = [acts EXCEPT ![q].todo = @ \cup {object},
            ![q].pc = IF acts[q].todo \cup {object} = Engagements THEN "looking" ELSE "parenting"]
  /\ UNCHANGED <<users, sessions, shown, restarts, out>>

ListsViewable(q) ==
  /\ acts[q].pc = "looking"
  /\ \E caller \in CallerOf(q) : acts' = [acts EXCEPT ![q].pc = "done", ![q].user = caller,
         ![q].todo = Engagements \cap LookupResources("engagement", "view", caller)]
  /\ UNCHANGED <<users, sessions, tuples, shown, restarts, out>>

AccessNext ==
  \/ Restarts
  \/ \E c \in Acts : ActFails(c)
  \/ \E l \in Logins : Authenticates(l) \/ Updates(l) \/ FindsNone(l) \/ Inserts(l) \/ SeedsMembership(l) \/ Opens(l)
  \/ \E d \in Deprovisions : Disables(d) \/ Revokes(d)
  \/ \E a \in Admissions : Gates(a)
  \/ \E k \in Keys : InsertsUser(k) \/ GrantsTenant(k) \/ ShowsKey(k)
  \/ \E c \in Admissions \cup Keys : LinksToTenant(c) \/ GrantsRole(c)
  \/ \E q \in Lists : ParentsAll(q) \/ ListsViewable(q)

AccessSpec == AccessInit /\ [][AccessNext]_accessVars

-----------------------------------------------------------------------------
(* The client the tests and a development server run on decides every
   permission as the schema SpiceDB is given does, whatever has been granted,
   and a lookup lists exactly the engagements a check admits. *)
ResolutionFollowsSchema ==
  \A u \in {v.id : v \in users} :
    /\ \A object \in Engagements : \A p \in {"view", "contribute", "administer"} :
         Resolve(object, p, u) = InSchema(object, p, u)
    /\ \A p \in {"administer", "belong"} : Resolve(Tenant, p, u) = InSchema(Tenant, p, u)
    /\ LookupResources("engagement", "view", u) = {e \in Engagements : InSchema(e, "view", u)}

(* Once a deprovision event is handled, and no login of that person was under
   way or came since, the person has no session and no active account, however
   many logins, accounts and restarts went before. *)
DeprovisionedStaysOut ==
  \A wid \in out : /\ \A s \in sessions : s.wid # wid
                   /\ \A u \in UserFor(wid) : ~u.active

(* An engagement where somebody holds a role hangs off its tenant, wherever the
   call that granted it failed: the tenant's admins see it whenever a member
   does. *)
RolesHangOffTenant ==
  \A t \in tuples : t.on # Tenant =>
    [on |-> t.on, rel |-> "parent_tenant", subject |-> Tenant] \in tuples

(* A key that has been shown, which happens once, works: its user may view
   every engagement it was issued for. *)
ShownKeyWorks ==
  \A k \in shown : \A object \in k.on : Resolve(object, "view", k.id)
=============================================================================
