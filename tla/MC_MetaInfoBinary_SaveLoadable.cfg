CONSTANTS
  NumRows = {0, 2}
  NumCols = {1}
  LabelArrays <- MC_LabelArrays
  BadLabel <- MC_BadLabel
  WeightArrays <- MC_WeightArrays
  GroupArrays <- MC_GroupArrays
  RowSelections <- MC_RowSelections
  OtherInfos <- MC_OtherInfos
  MaxRowCount = 3
  MaxInfoSize = 7
  Builds <- MC_Builds
  ForeignFiles <- MC_ForeignFiles
  FeatureInfos <- MC_FeatureInfos

SPECIFICATION BinSpec


PROPERTY SaveBinaryLoadable

\* A failed CHECK ends the caller's work with the MetaInfo.
CHECK_DEADLOCK FALSE
