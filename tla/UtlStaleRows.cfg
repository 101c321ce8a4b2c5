SPECIFICATION Spec
CONSTANTS
  select = select
  single = single
  insert = insert
  p1 = p1
  p2 = p2
  r1 = r1
  r2 = r2
  Utl = {insert}
  Par = {p2}
  Res = {}
  OwnPar <- MCOwnPar
  OwnRes <- MCOwnRes
  Size <- MCSize
  NoBuf = NoBuf
  Mixed = Mixed
  Sql = {"a", "b"}
  NoSql = ""
  Batches = {1, 2}
  MaxResult = 3
  MaxObjects = 1
  Usage = {"smallerBatch"}
PROPERTY ExecRunsRequestedRows
