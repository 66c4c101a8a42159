CONSTANTS
  BaseRowId = 0
  Cols = {0, 1}
  Vals <- MC_Vals
  MaxLines = 1
  MaxLineLen = 2
  MaxBatchElems = 2
  InitPages <- MC_InitPages
  Missings <- MC_Missings
  OtherPages <- MC_OtherPages
  Offsets = {1}
  MaxRows = 2
  MaxIndex = 2
  IndexWidth = 2

SPECIFICATION Spec

INVARIANT TypeOK
PROPERTY SortIndicesEstablishesSorted
PROPERTY MatrixRefinement
