CONSTANTS
  Stems <- MCStems
  Document <- MCDocument
  Faults = {"unknownType", "longId"}
  Reader = reader
  Env = {e1, e2}
  Dbc = {d1}
  NoHandle = none
  MaxUInt = 3
  DiagFits = TRUE
  RDBMS = {"sql", "db2", "oracle"}
  Sql = "sql"
  Target = "db2"
  Rank <- MCRank
  MaxElements = 3
SPECIFICATION Spec
INVARIANTS
  HeadersInOrder
  FirstDefectReported
  QueriesStartClean
  ReaderReleased
CHECK_DEADLOCK FALSE
