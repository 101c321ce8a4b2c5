CONSTANTS
  Kinds = {"atomic", "string", "decimal", "bstring"}
  Value <- MCValue
  Null = Null
  W = 1
  N_par = 2
  N_res = 2
  MaxRows = 3
  SizeT = 8
  Usage = {}
SPECIFICATION FairSpec
INVARIANTS TypeOK ViewsInside LastRowsReadable
PROPERTIES ImplementsRowStore LoopEnds
