SPECIFICATION Spec
CONSTANTS
  Conn = {c1, c2, c3}
  Env = {e1, e2, e3}
  Dbc = {d1, d2, d3}
  NoHandle = NoHandle
  MaxUInt = 7
  Serial = FALSE
  EndsTran = FALSE
  DiagFits = FALSE
SYMMETRY Symmetry
INVARIANTS TypeOK RefCntExact ExclusiveHandles
