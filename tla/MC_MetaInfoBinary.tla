------------------------- MODULE MC_MetaInfoBinary -------------------------
EXTENDS MetaInfoBinary

\* A label LabelsCheck rejects.
MC_BadLabel == -100

\* Inputs of the MetaInfo calls, fewer than MC_MetaInfo's: labels of two
\* rows and of two targets, one weight per row, two groups, the second row
\* alone, and a one-row batch carrying a label, a weight and a group.
MC_LabelArrays == {<<1, -2>>, <<2, 2, 1, 1>>}
MC_WeightArrays == {<<1, 1>>}
MC_GroupArrays == {<<1, 1>>}
MC_RowSelections == {<<1>>}
MC_OtherInfos ==
  { [num_row |-> 1, num_col |-> 1, labels |-> [rows |-> 1, vals |-> <<1>>],
     weights |-> <<1>>, group_ptr |-> <<0, 1>>] }

\* The build running the process.
MC_Builds == {<<3, 1>>}

\* A build of the next major version, 4.0.
MC_Builds4 == {<<4, 0>>}

\* A one-row MetaInfo with a label and a query group.
MC_ForeignMeta(types) ==
  [num_row |-> 1, num_col |-> 1, labels |-> [rows |-> 1, vals |-> <<1>>],
   weights |-> <<>>, group_ptr |-> <<0, 1>>,
   feature_names |-> <<>>, feature_type_names |-> types]

\* Files of a 4.0 build (refused, as 3.0 files are, by the minor check)
\* and of a newer 3.2 build with a categorical feature.
MC_ForeignFiles ==
  { [version |-> <<4, 0>>, meta |-> MC_ForeignMeta(<<>>), extra |-> <<>>],
    [version |-> <<3, 2>>, meta |-> MC_ForeignMeta(<<"c">>), extra |-> <<>>] }

\* Names and types of one categorical column, and of two columns whose
\* second name LoadFeatureType rejects after accepting the first.
MC_FeatureInfos == {<<"c">>, <<"q", "x">>}

=============================================================================
