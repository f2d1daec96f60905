SPECIFICATION FairSpec
CONSTANTS
  a = a
  b = b
  t1 = t1
  Entities = {a, b}
  Machines <- MCMachines
  MachineOf <- MCMachineOf
  Tenants = {t1}
  Statuses = {0, 1, 2}
  EventTypes <- MCEventTypes
  Bodies = {"x"}
  Mutations = {"set", "log"}
  Messages = {"published"}
  CallerIds = {}
  NoTenant = NoTenant
  NoId = NoId
  NoCause = NoCause
  NoState = NoState
  NoTransition = NoTransition
  NoInner = NoInner
  NoWork = NoWork
  Transitions <- MCTransitions
  GlobalEventHooks <- MCGlobalEventHooks
  GlobalStateHooks <- UpsertAndDerive
  InitialEvent <- BarInitial
  LeaderInputs <- FeedInputs
  MaxFeed = 3
  MaxBatch = 2
  MaxCrashes = 1
  MaxUnacked = 1
INVARIANTS
  FollowerTypeOK
  MirrorsLeader
  DerivedOnFollow
  SendsOnlyForInitial
PROPERTIES
  CatchesUp
