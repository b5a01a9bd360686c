\* Two requests about one agent, one edit behind the front door.
SPECIFICATION Spec
CONSTANTS
  r1 = r1
  r2 = r2
  t1 = t1
  t2 = t2
  a1 = a1
  alice = alice
  bob = bob
  NoTenant = NoTenant
  NoToken = NoToken
  NoAgent = NoAgent
  NoSpec = NoSpec
  Requests <- MCRequests
  Tenants <- MCTenants
  Accounts <- MCAccounts
  Bound <- MCBound
  EdgeTrusted <- MCEdge
  Agents <- MCAgents
  Deployments <- MCDeployments
  Sent <- MCSent
  Permitted <- MCPermitted
  Seeds <- MCSeeds
  Edits <- MCEdits
  May <- MCMay
  MaxPolls = 1
  MaxEdits = 1
INVARIANTS
  Governed
  SlotsAreHeld
  LaneMatches
PROPERTIES
  TakenUnawares
  WatchEnds
CHECK_DEADLOCK FALSE
