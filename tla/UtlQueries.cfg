SPECIFICATION Spec
SYMMETRY MCSymmetry
CONSTANTS
  select = select
  single = single
  insert = insert
  p1 = p1
  p2 = p2
  r1 = r1
  r2 = r2
  Utl = {select, single}
  Par = {p1, p2}
  Res = {r1, r2}
  OwnPar <- MCOwnPar
  OwnRes <- MCOwnRes
  Size <- MCSize
  NoBuf = NoBuf
  Mixed = Mixed
  Sql = {text1, text2}
  NoSql = ""
  Batches = {2, 3}
  MaxResult = 3
  MaxObjects = 1
  Usage = {}
INVARIANTS BoundIsCurrent CursorFillsBuffer
PROPERTIES RowsReadExact ExecRunsRequestedRows ExecUsesAttachedBuffers
