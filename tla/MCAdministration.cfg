SPECIFICATION SidesSpec
CONSTANTS
  Calls <- MCCalls
  Grants = {1}
  Users = {"alice", "bob", "carol"}
  TtlMinutes = 1
  MaxClock = 2
  None = null
  PageSize = 2
  MaxPages = 3
  Precision = 2
  ReadIds <- MCReadIds
  Logins <- MCLogins
  Deprovisions <- MCDeprovisions
  Admissions <- MCAdmissions
  Keys <- MCKeys
  Lists <- MCLists
  Engagements = {"e1", "e2"}
  Tenant = "t"
  MaxRestarts = 1
  Nobody = nobody
  ConnectedTo = {e1, e2}
  Admins = {a1, a2}
  Scopes = {ws}
  Intervals = {0, 1}
  Unset = Unset
  Ids = {1, 2}
  EntityKeys = {"item"}
  Attributes = {}
  Mappings <- MCMappings
  Payloads <- MCPayloads
  Pushers = {p}
  MaxSecret = 2
  NoRow = NoRow
  NoView = NoView
  MaxEntities = 2
  KeyOf <- MCKeyOf
INVARIANTS
  ChangesAuditedOnce
  PagesLoseOnlyTies
  DeprovisionedStaysOut
  ScheduleFollowsConfig
  PushesLandWhole
  PanelShowsRows
PROPERTIES
  RevocationIsFinal
CHECK_DEADLOCK FALSE
