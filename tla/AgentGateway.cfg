\* Two connections, of one machine or of two, to one process or to two, three frames, and
\* one mishap: a failure, a crash, a deletion or a disabled user.  Connections are used
\* once, so a state where all have ended has no successor.
SPECIFICATION GatewaySpec
CONSTANTS
  c1 = c1
  c2 = c2
  w1 = w1
  w2 = w2
  m1 = m1
  m2 = m2
  a1 = a1
  a2 = a2
  Workers = {w1, w2}
  Conns = {c1, c2}
  Machines = {m1, m2}
  AgentIds = {a1, a2}
  Requests = {r1}
  None = None
  MaxQueued = 2
  MaxPending = 1
  MaxFrames = 3
  MaxMishaps = 1
  Attachable <- MCAttachable
  Claims <- MCClaims
  Targets <- MCTargets
  Touchable <- MCTouchable
INVARIANTS PendingIsOpen StaleIsFenced LeaseHolderIsOnline GoneIsNotOnline CallersAccounted
PROPERTIES AnsweredByTarget
CHECK_DEADLOCK FALSE
