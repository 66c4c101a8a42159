CONSTANTS
  Shapes <- MC_Shapes
  NumRows = {0}
  NumCols = {0}
  LabelArrays <- MC_LabelArrays
  BadLabel <- MC_BadLabel
  WeightArrays <- MC_WeightArrays
  GroupArrays <- MC_GroupArrays
  RowSelections = {}
  OtherInfos = {}
  MaxRowCount = 0
  MaxInfoSize = 0

SPECIFICATION Spec

INVARIANT TypeOK
INVARIANT CreatedMatchesBatch

\* A failed CHECK or AssertGPUSupport ends the process.
CHECK_DEADLOCK FALSE
