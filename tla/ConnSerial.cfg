SPECIFICATION FairSpec
CONSTANTS
  Conn = {c1, c2, c3}
  Env = {e1, e2}
  Dbc = {d1, d2, d3}
  NoHandle = NoHandle
  MaxUInt = 7
  Serial = TRUE
  EndsTran = TRUE
  DiagFits = TRUE
INVARIANTS NothingLeaked NoStaleEnvironment
PROPERTIES HenvKept ImplementsSharedEnv EnvironmentSettled
