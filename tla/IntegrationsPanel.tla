-------------------------- MODULE IntegrationsPanel --------------------------
(* The integrations panel of the web app (custom-integrations-panel.tsx,
   custom-mapping-form.ts), before the API it calls.  Each card sends one request
   at a time and the new-integration form one more, so requests of several cards
   overlap; a reply may be lost after the API has acted.  A form holds a draft of
   a mapping, which only the API validates.  The reveal is the one box a new
   secret is shown in. *)
EXTENDS CustomIntegrations

CONSTANTS
  MaxEntities,   \* bound on the entities of a draft
  KeyOf(_),      \* the key the form gives to its n-th entity
  NoView         \* nothing on the panel, no draft

VARIABLES
  items,      \* the integrations the panel shows
  requests,   \* each card's request: its kind, and the reply once there is one
  drafts,     \* the open form of each card, or of the new integration
  reveal,     \* the secret being shown
  missed      \* integrations changed without the panel hearing of it

panelVars == <<items, requests, drafts, reveal, missed>>
allIntegrationVars == <<integrationVars, panelVars>>

Idle == [kind |-> "idle"]
ViewOf(row) ==
  IF row = NoRow THEN NoView
  ELSE [enabled |-> row.enabled, mapping |-> row.mapping, secret |-> row.secret]

(* The form's all-strings shape of a mapping and back: blank attribute names and
   unfinished relationships are left out. *)
Blank == "blank"
EmptyDraft == [entities |-> <<[key |-> KeyOf(1), attributes |-> {}]>>, relationships |-> <<>>]
DraftFromMapping(m) == m
MappingFromDraft(d) ==
  [entities |-> [n \in DOMAIN d.entities |-> [d.entities[n] EXCEPT !.attributes = @ \ {Blank}]],
   relationships |-> SelectSeq(d.relationships, LAMBDA r : Blank \notin {r.from, r.to})]

DraftKeys(d) == {d.entities[n].key : n \in DOMAIN d.entities} \ {Blank}
WithEntity(d) ==
  [d EXCEPT !.entities = Append(@, [key |-> KeyOf(Len(@) + 1), attributes |-> {}])]
WithoutEntity(d, n) ==
  LET key == d.entities[n].key
  IN [d EXCEPT !.entities = RemoveAt(@, n),
               !.relationships = SelectSeq(@, LAMBDA r : key \notin {r.from, r.to})]
WithRelationship(d) ==
  LET keys == SelectSeq([n \in DOMAIN d.entities |-> d.entities[n].key], LAMBDA k : k # Blank)
  IN [d EXCEPT !.relationships = Append(@, [from |-> Head(keys), to |-> Last(keys)])]
WithoutRelationship(d, n) == [d EXCEPT !.relationships = RemoveAt(@, n)]
Renamed(d, n, key) == [d EXCEPT !.entities[n].key = key]
WithAttribute(d, n, name) == [d EXCEPT !.entities[n].attributes = @ \cup {name}]

Edits(d) ==
  (IF Len(d.entities) < MaxEntities THEN {WithEntity(d)} ELSE {})
  \cup (IF Len(d.entities) > 1 THEN {WithoutEntity(d, n) : n \in DOMAIN d.entities} ELSE {})
  \cup (IF DraftKeys(d) # {} /\ Len(d.relationships) < 1 THEN {WithRelationship(d)} ELSE {})
  \cup {WithoutRelationship(d, n) : n \in DOMAIN d.relationships}
  \cup {Renamed(d, n, k) : n \in DOMAIN d.entities, k \in EntityKeys}
  \cup {WithAttribute(d, n, a) : n \in DOMAIN d.entities, a \in Attributes \cup {Blank}}

---------------------------------------------------------------------------
PanelInit ==
  /\ items = [i \in Ids |-> NoView]
  /\ requests = [i \in Ids |-> Idle]
  /\ drafts = [i \in Ids |-> NoView]
  /\ reveal = NoView
  /\ missed = {}

(* Forms: opened on a card or for a new integration, edited, abandoned. *)
OpensForm(i) ==
  /\ requests[i] = Idle /\ drafts[i] = NoView
  /\ drafts' = [drafts EXCEPT ![i] =
       IF items[i] = NoView THEN EmptyDraft ELSE DraftFromMapping(items[i].mapping)]
  /\ items[i] = NoView => rows[i] = NoRow
  /\ items[i] = NoView => \A j \in Ids : items[j] = NoView => drafts[j] = NoView
  /\ UNCHANGED <<integrationVars, items, requests, reveal, missed>>
EditsForm(i) ==
  /\ drafts[i] # NoView
  /\ \E d \in Edits(drafts[i]) : drafts' = [drafts EXCEPT ![i] = d]
  /\ UNCHANGED <<integrationVars, items, requests, reveal, missed>>
ClosesForm(i) ==
  /\ drafts[i] # NoView /\ requests[i] = Idle
  /\ drafts' = [drafts EXCEPT ![i] = NoView]
  /\ UNCHANGED <<integrationVars, items, requests, reveal, missed>>

(* Requests: a dry run of the draft, a save of it, and the card's own buttons,
   which an open form hides. *)
Asks(i, kind) ==
  /\ requests[i] = Idle
  /\ CASE kind \in {"test", "save"} -> drafts[i] # NoView
       [] OTHER -> drafts[i] = NoView /\ items[i] # NoView
  /\ requests' = [requests EXCEPT ![i] = [kind |-> kind, reply |-> "none",
                    draft |-> IF kind = "save" THEN MappingFromDraft(drafts[i]) ELSE NoView]]
  /\ UNCHANGED <<integrationVars, items, drafts, reveal, missed>>

(* The API acts and answers with the row as it left it, or refuses. *)
Performs(i) ==
  CASE requests[i].kind = "toggle" -> Toggles(i)
    [] requests[i].kind = "rotate" -> Rotates(i)
    [] requests[i].kind = "delete" -> Removes(i)
    [] requests[i].kind = "save" ->
         IF items[i] = NoView THEN Creates(i, requests[i].draft) ELSE Maps(i, requests[i].draft)
    [] OTHER -> FALSE
Refuses(i) ==
  \/ requests[i].kind = "test"
  \/ rows[i] = NoRow /\ items[i] # NoView
  \/ requests[i].kind = "save" /\ ~ValidMapping(requests[i].draft)
  \/ requests[i].kind \in {"rotate", "save"} /\ issued = MaxSecret
Answers(i) ==
  /\ requests[i] # Idle /\ requests[i].reply = "none"
  /\ \/ /\ Performs(i)
        /\ requests' = [requests EXCEPT ![i].reply = "done", ![i].draft = ViewOf(rows'[i])]
     \/ /\ Refuses(i)
        /\ requests' = [requests EXCEPT ![i].reply = "refused", ![i].draft = NoView]
        /\ UNCHANGED <<rows, issued>>
  /\ UNCHANGED <<pushes, landed, items, drafts, reveal, missed>>

(* The reply reaches the panel: the card shows what it says, a form that saved
   closes, a new secret is revealed; an error leaves everything as it was. *)
MutShown(i, view) == [items EXCEPT ![i] = IF view = NoView THEN @ ELSE view]
Shown(i, view) == [items EXCEPT ![i] = view]
Hears(i) ==
  LET r == requests[i]  created == r.kind = "save" /\ items[i] = NoView
  IN /\ r # Idle /\ r.reply # "none"
     /\ IF r.reply = "done"
          THEN /\ items' = Shown(i, r.draft)
               /\ drafts' = [drafts EXCEPT ![i] = NoView]
               /\ reveal' = IF r.kind = "rotate" \/ created
                              THEN [id |-> i, secret |-> r.draft.secret] ELSE reveal
          ELSE UNCHANGED <<items, drafts, reveal>>
     /\ requests' = [requests EXCEPT ![i] = Idle]
     /\ UNCHANGED <<integrationVars, missed>>

(* A reply that never arrives: the card shows an error and its old view. *)
LosesReply(i) ==
  /\ requests[i] # Idle /\ requests[i].reply # "none"
  /\ requests' = [requests EXCEPT ![i] = Idle]
  /\ missed' = IF requests[i].reply = "done" THEN missed \cup {i} ELSE missed
  /\ UNCHANGED <<integrationVars, items, drafts, reveal>>

Dismisses ==
  /\ reveal # NoView /\ reveal' = NoView
  /\ UNCHANGED <<integrationVars, items, requests, drafts, missed>>

(* The API used from elsewhere. *)
Elsewhere ==
  /\ AdministersNext
  /\ missed' = missed \cup {i \in Ids : rows'[i] # rows[i]}
  /\ UNCHANGED <<items, requests, drafts, reveal>>

PanelNext ==
  \/ \E i \in Ids :
       \/ OpensForm(i) \/ EditsForm(i) \/ ClosesForm(i)
       \/ \E kind \in {"test", "save", "toggle", "rotate", "delete"} : Asks(i, kind)
       \/ Answers(i) \/ Hears(i) \/ LosesReply(i)
  \/ Dismisses

CardsSpec ==
  /\ IntegrationsInit /\ PanelInit
  /\ [][PanelNext \/ Elsewhere \/ (PushNext /\ UNCHANGED panelVars)]_allIntegrationVars

---------------------------------------------------------------------------
(* However the requests of several cards and their replies cross, a card at rest
   shows its integration as the API has it, unless a reply was lost or the
   change was made elsewhere. *)
PanelShowsRows ==
  \A i \in Ids :
    requests[i] = Idle /\ i \notin missed => items[i] = ViewOf(rows[i])

(* Taking an entity out of a draft takes its relationships with it: no edit but
   a renaming leaves a relationship with an end the draft does not have. *)
RemovalLeavesNoEnds ==
  [][\A i \in Ids :
       drafts[i] # NoView /\ drafts'[i] # NoView
       /\ Len(drafts'[i].entities) < Len(drafts[i].entities)
         => \A r \in ToSet(drafts'[i].relationships) :
              {r.from, r.to} \subseteq DraftKeys(drafts'[i])
              \/ ~({r.from, r.to} \subseteq DraftKeys(drafts[i]))]_allIntegrationVars
=============================================================================
