------------------------- MODULE CustomIntegrations -------------------------
(* Self-serve integrations (apps/api/src/integrations, packages/core
   custom-integration-*, packages/db custom-integrations): an administrator
   describes in a mapping where things lie in a JSON payload, an outside system
   pushes payloads to the integration's URL with its secret, and each push lands
   one source and the graph records the mapping derives from it.  A payload
   stands for the paths that resolve in it; a mapping's paths for its entity keys
   and attribute names. *)
EXTENDS Integers, Sequences, FiniteSets, SequencesExt

CONSTANTS
  Ids,          \* integrations
  EntityKeys,   \* entity keys a mapping may use
  Attributes,   \* attribute names, each with a path of that name
  Mappings,     \* mappings the administrator sends, valid or not
  Payloads,     \* what resolves in each payload pushed: subsets of the two
  Pushers,
  MaxSecret,    \* bound on the secrets ever issued
  NoRow         \* no integration

ASSUME IntegrationsAssumption ==
  /\ MaxSecret \in Nat
  /\ \A m \in Mappings : \A e \in ToSet(m.entities) : e = [key |-> e.key, attributes |-> e.attributes]

VARIABLES
  rows,      \* custom_integrations
  issued,    \* secrets issued so far: a secret is its number
  pushes,    \* the requests to the ingest endpoint
  landed     \* the latest push that landed: its mapping and records

integrationVars == <<rows, issued, pushes, landed>>

(* An entity: its key and attributes; a relationship joins two keys. *)
KeysOf(m) == {m.entities[n].key : n \in DOMAIN m.entities}
ValidMapping(m) ==
  /\ m.entities # <<>>
  /\ \A i, j \in DOMAIN m.entities : m.entities[i].key = m.entities[j].key => i = j
  /\ \A r \in ToSet(m.relationships) : {r.from, r.to} \subseteq KeysOf(m)

(* normalizeCustomArtifact: what resolves, and an issue for each part that does
   not; a strict caller takes the records only without an issue. *)
Resolved(m, payload) == {e \in ToSet(m.entities) : e.key \in payload}
MutIssues(m, payload) == {{e.key} : e \in ToSet(m.entities) \ Resolved(m, payload)}
Issues(m, payload) ==
  LET keys == {e.key : e \in Resolved(m, payload)}
  IN {{e.key} : e \in ToSet(m.entities) \ Resolved(m, payload)}
     \cup {{a} : a \in UNION {e.attributes \ payload : e \in Resolved(m, payload)}}
     \cup {{r.from, r.to} : r \in {q \in ToSet(m.relationships) : ~{q.from, q.to} \subseteq keys}}
Records(m, payload) ==
  LET keys == {e.key : e \in Resolved(m, payload)}
  IN [entities |-> {[key |-> e.key, attributes |-> e.attributes \cap payload]
                     : e \in Resolved(m, payload)},
      edges |-> {r \in ToSet(m.relationships) : {r.from, r.to} \subseteq keys}]

---------------------------------------------------------------------------
NoPush == [mapping |-> NoRow]
IntegrationsInit ==
  /\ rows = [i \in Ids |-> NoRow]
  /\ issued = 0
  /\ pushes = [p \in Pushers |-> NoPush]
  /\ landed = NoRow

(* The administrator's operations, each one transaction; a mapping that does not
   parse is a 422 and changes nothing, as is an unknown integration, a 404. *)
Creates(i, m) ==
  /\ rows[i] = NoRow /\ issued < MaxSecret /\ ValidMapping(m)
  /\ issued' = issued + 1
  /\ rows' = [rows EXCEPT ![i] = [enabled |-> TRUE, mapping |-> m,
                                  secret |-> issued']]
Maps(i, m) ==
  /\ rows[i] # NoRow /\ ValidMapping(m)
  /\ rows' = [rows EXCEPT ![i].mapping = m]
  /\ UNCHANGED issued
Toggles(i) ==
  /\ rows[i] # NoRow
  /\ rows' = [rows EXCEPT ![i].enabled = ~@]
  /\ UNCHANGED issued
Rotates(i) ==
  /\ rows[i] # NoRow /\ issued < MaxSecret
  /\ issued' = issued + 1
  /\ rows' = [rows EXCEPT ![i].secret = issued']
Removes(i) ==
  /\ rows[i] # NoRow
  /\ rows' = [rows EXCEPT ![i] = NoRow]
  /\ UNCHANGED issued

(* The ingest endpoint: one read of the row, before any tenant is known, gives
   the secret, the switch and the mapping the whole push goes by. *)
Accepts(row, secret, here) ==
  row # NoRow /\ here /\ row.secret = secret /\ row.enabled
Arrives(p, i, secret, payload, here) ==
  /\ pushes[p] = NoPush
  /\ Accepts(rows[i], secret, here)
  /\ Issues(rows[i].mapping, payload) = {}
  /\ pushes' = [pushes EXCEPT ![p] =
                  [mapping |-> rows[i].mapping, payload |-> payload]]
  /\ UNCHANGED <<rows, issued, landed>>

(* The source and its graph records land in a transaction of their own, which
   may fail; the note of when the integration was last used is left out. *)
Lands(p) ==
  LET r == pushes[p]
  IN /\ r # NoPush
     /\ \/ landed' = [mapping |-> r.mapping, records |-> Records(r.mapping, r.payload)]
        \/ UNCHANGED landed
     /\ pushes' = [pushes EXCEPT ![p] = NoPush]
     /\ UNCHANGED <<rows, issued>>

AdministersNext ==
  /\ \E i \in Ids :
       \/ \E m \in Mappings : Creates(i, m) \/ Maps(i, m)
       \/ Toggles(i) \/ Rotates(i) \/ Removes(i)
  /\ UNCHANGED <<pushes, landed>>

PushNext ==
  \E p \in Pushers :
    \/ \E i \in Ids, s \in 1..MaxSecret, payload \in Payloads, here \in BOOLEAN :
         Arrives(p, i, s, payload, here)
    \/ Lands(p)

IntegrationsSpec == IntegrationsInit /\ [][AdministersNext \/ PushNext]_integrationVars

---------------------------------------------------------------------------
(* Whatever the administrator does to the mapping meanwhile, a push lands every
   entity, attribute and edge of one mapping the integration had, or nothing: a
   payload that fits only in part never writes part of a graph. *)
PushesLandWhole ==
  landed # NoRow =>
    landed.records = [entities |-> ToSet(landed.mapping.entities),
                      edges |-> ToSet(landed.mapping.relationships)]
=============================================================================
