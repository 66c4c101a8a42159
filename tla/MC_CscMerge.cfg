CONSTANTS
  BaseRowId = 0
  Cols = {}
  Vals = {}
  MaxLines = 0
  MaxLineLen = 0
  MaxBatchElems = 0
  OtherPages <- MC_OtherPages
  MaxEntries = 4

SPECIFICATION Spec

INVARIANT TypeOK
INVARIANT ColumnsAccumulate

\* The process stops at a failed CHECK and once the entries reach the bound.
CHECK_DEADLOCK FALSE
