CONSTANTS
  BaseRowId = 1
  Cols = {0, 1}
  Vals <- MC_Vals
  MaxLines = 3
  MaxLineLen = 2
  MaxBatchElems = 3
  InitPages <- MC_InitPages
  Missings <- MC_Missings
  NThreads = 2
  MaxRows = 4

SPECIFICATION Spec

INVARIANT TypeOK
INVARIANT BudgetRespected
PROPERTY PushRefinesSparsePage

CHECK_DEADLOCK FALSE
