CONSTANTS
  Stems <- MCStems
  Document <- FewDocuments
  Faults = {"describe", "unsupported", "rollback", "unknownType", "longId", "xml", "unwritable"}
  Reader = reader
  Env = {e1, e2}
  Dbc = {d1}
  NoHandle = none
  MaxUInt = 3
  DiagFits = TRUE
  RDBMS = {"sql", "db2", "oracle"}
  Sql = "sql"
  Target = "db2"
  Rank <- MCRank
  MaxElements = 3
SPECIFICATION FairSpec
INVARIANTS
  TypeOK
  RejectedFileHasNoHeader
PROPERTY Terminates
CHECK_DEADLOCK FALSE
