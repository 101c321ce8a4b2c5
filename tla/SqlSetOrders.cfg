CONSTANTS
  RDBMS = {"sql", "db2", "oracle", "mssql", "mariadb"}
  Sql = "sql"
  Target = "oracle"
  Rank <- MCRank
  MaxElements = 5
SPECIFICATION Spec
INVARIANTS
  BestKept
  TargetUnique
  RefusalJustified
CHECK_DEADLOCK FALSE
