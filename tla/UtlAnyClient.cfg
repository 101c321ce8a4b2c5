SPECIFICATION Spec
SYMMETRY MCSymmetry
CONSTANTS
  select = select
  single = single
  insert = insert
  p1 = p1
  p2 = p2
  r1 = r1
  r2 = r2
  Utl = {select}
  Par = {p1}
  Res = {r1}
  OwnPar <- MCOwnPar
  OwnRes <- MCOwnRes
  Size <- MCSize
  NoBuf = NoBuf
  Mixed = Mixed
  Sql = {text1, text2}
  NoSql = ""
  Batches = {1, 4}
  MaxResult = 1
  MaxObjects = 1
  Usage = {"smallerBatch", "overfullBatch", "swapBuffers", "explicitCtor", "outliveConnection"}
INVARIANTS TypeOK PreparedIsCurrent
CHECK_DEADLOCK FALSE
