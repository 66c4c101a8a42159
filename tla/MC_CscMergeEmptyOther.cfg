CONSTANTS
  BaseRowId = 0
  Cols = {}
  Vals = {}
  MaxLines = 0
  MaxLineLen = 0
  MaxBatchElems = 0
  OtherPages <- MC_OtherPages
  MaxEntries = 4

SPECIFICATION Spec

INVARIANT CscShape

CHECK_DEADLOCK FALSE
