SPECIFICATION Spec
CONSTANTS
  a = a
  b = b
  t1 = t1
  t2 = t2
  i1 = i1
  i2 = i2
  c1 = c1
  c2 = c2
  Clients = {c1, c2}
  Entities = {a, b}
  Machines <- MCMachines
  MachineOf <- MCMachineOf
  Tenants = {t1, t2}
  Statuses = {0, 1, 2}
  EventTypes <- MCEventTypes
  Bodies = {"x", "y"}
  Mutations = {"set", "log"}
  Messages = {"published"}
  CallerIds = {i1, i2}
  NoTenant = NoTenant
  NoId = NoId
  NoCause = NoCause
  NoState = NoState
  NoTransition = NoTransition
  NoInner = NoInner
  NoPending = NoPending
  Transitions <- MCTransitions
  GlobalEventHooks <- MCGlobalEventHooks
  GlobalStateHooks <- MCGlobalStateHooks
  InitialEvent <- FooInitial
  Isolation = "Serializable"
  Jobs <- ChainJobs
  MaxCalls = 2
  MaxAttempts = 2
  MaxFaults = 1
SYMMETRY Symmetry
INVARIANTS
  RepliesAreSnapshots
  EffectsMatchLog
  LogReplays
