CONSTANTS
  Stems <- DistinctStems
  Document <- FewDocuments
  Faults = {"unsupported"}
  Reader = reader
  Env = {e1, e2}
  Dbc = {d1}
  NoHandle = none
  MaxUInt = 3
  DiagFits = TRUE
  RDBMS = {"sql", "db2", "oracle"}
  Sql = "sql"
  Target = "db2"
  Rank <- MCRank
  MaxElements = 3
SPECIFICATION Spec
INVARIANT SuccessMeansTranslated
CHECK_DEADLOCK FALSE
