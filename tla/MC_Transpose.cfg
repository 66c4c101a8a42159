CONSTANTS
  BaseRowId = 1
  Cols = {}
  Vals = {}
  MaxLines = 0
  MaxLineLen = 0
  MaxBatchElems = 0
  SrcPages <- MC_SrcPages
  NumColumns = {2, 3}
  NThreads = 3
  IndexWidth = 2

SPECIFICATION Spec

INVARIANT TypeOK
INVARIANT TransposeMatchesReference

CHECK_DEADLOCK FALSE
