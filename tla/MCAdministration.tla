-------------------------- MODULE MCAdministration --------------------------
(* What tenant administrators and members of engagements do, for TLC; each
   behaviour runs one side.  grants: a break-glass grant requested, approved by
   its requester and by two others, and revoked, within two ticks of the clock.
   log: some of these calls, within three ticks, that is two milliseconds, while a
   reader pages through what they log (AccessPages).  people, roles, views: some of the calls of Access, that is
   two logins of one person under two addresses, the development login, a
   deprovision, a key for two engagements, one for the tenant, an admission and a
   list.  config: connectors and their schedules.  push, form, cards: custom
   integrations used through the API alone, one edited in the panel, two of them
   there.  The sides share no state. *)
EXTENDS AccessPages, Access, ConnectorAdmin, IntegrationsPanel

VARIABLE side

MCCalls ==
  {[id |-> 4, kind |-> "request", grant |-> 1, user |-> "alice"],
   [id |-> 1, kind |-> "approve", grant |-> 1, user |-> "alice"],
   [id |-> 6, kind |-> "approve", grant |-> 1, user |-> "bob"],
   [id |-> 2, kind |-> "approve", grant |-> 1, user |-> "carol"],
   [id |-> 5, kind |-> "revoke", grant |-> 1, user |-> "bob"],
   [id |-> 9, kind |-> "revoke", grant |-> 1, user |-> "carol"]}

(* The reader of the log does not touch the grants, so a side each is enough. *)
GrantsOnly == clock' < MaxClock /\ UNCHANGED <<reads, reader>>
LogOnly == \A c \in Calls : c.id \in {1, 9} => tx'[c].pc = "idle"

MCReadIds == [n \in 0..MaxPages |-> <<3, 8, 0, 7>>[n + 1]]

MCLogins ==
  {[id |-> "ann1", wid |-> "w1", email |-> "a", dev |-> FALSE],
   [id |-> "ann2", wid |-> "w1", email |-> "b", dev |-> FALSE],
   [id |-> "dev1", wid |-> "w0", email |-> "d", dev |-> TRUE]}
MCDeprovisions == {[id |-> "out1", wid |-> "w1"]}
MCAdmissions == {[id |-> "add1", by |-> "w0", on |-> "e1", grantee |-> "w1", role |-> "member"]}
MCKeys == {[id |-> "key1", on |-> {"e1", "e2"}, role |-> "viewer"],
           [id |-> "key2", on |-> {}, role |-> "member"]}
MCLists == {[id |-> "list1", by |-> "w0"]}

Scene == [people |-> {"ann1", "ann2", "dev1", "out1"},
          roles  |-> {"dev1", "ann1", "add1", "key1"},
          views  |-> {"dev1", "key1", "key2", "list1"}]

MCKeyOf(n) == <<"item", "entity2", "entity3">>[n]
MCPayloads == {{"item"}, {"item", "entity2"}, {"item", "entity2", "x"}}

Entity(key, attributes) == [key |-> key, attributes |-> attributes]
Link == <<[from |-> "entity2", to |-> "item"]>>
MCMappings ==
  {[entities |-> <<Entity("item", {"x"})>>, relationships |-> <<>>],
   [entities |-> <<Entity("item", {}), Entity("entity2", {})>>, relationships |-> Link],
   [entities |-> <<Entity("item", {})>>, relationships |-> Link]}

settings == <<adminVars, allIntegrationVars>>
rights == <<vars, accessVars>>

SidesInit ==
  /\ Init /\ AccessInit /\ AdminInit /\ IntegrationsInit /\ PanelInit
  /\ side \in {"grants", "log", "config", "push", "form", "cards"} \cup DOMAIN Scene

(* Side form: the first integration only, no buttons of its card, and at most
   its first entity has attributes. *)
FormOnly ==
  /\ drafts'[2] = NoView /\ requests'[2] = Idle
  /\ requests'[1].kind \in {"idle", "test", "save"}
  /\ \A n \in 2..(IF drafts'[1] = NoView THEN 1 ELSE Len(drafts'[1].entities)) :
       drafts'[1].entities[n].attributes = {}
CardsOnly == \A i \in Ids : drafts'[i] \in {NoView, EmptyDraft}

SomeOfAccess ==
  /\ \A c \in Acts : c.id \in Scene[side] \/ UNCHANGED acts[c]
  /\ restarts' > restarts => side = "people"

SidesNext ==
  /\ UNCHANGED side
  /\ \/ side = "grants" /\ Next /\ GrantsOnly /\ UNCHANGED <<accessVars, settings>>
     \/ side = "log" /\ Next /\ LogOnly /\ UNCHANGED <<accessVars, settings>>
     \/ side \in DOMAIN Scene /\ AccessNext /\ SomeOfAccess /\ UNCHANGED <<vars, settings>>
     \/ side = "config" /\ AdminNext /\ UNCHANGED <<allIntegrationVars, rights>>
     \/ side = "push" /\ (Elsewhere \/ (PushNext /\ UNCHANGED panelVars)) /\ UNCHANGED <<adminVars, rights>>
     \/ side = "form" /\ PanelNext /\ FormOnly /\ UNCHANGED <<adminVars, rights>>
     \/ side = "cards" /\ PanelNext /\ CardsOnly /\ UNCHANGED <<adminVars, rights>>

SidesSpec == SidesInit /\ [][SidesNext]_<<side, rights, settings>>
=============================================================================
