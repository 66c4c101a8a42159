---------------------------- MODULE MC_MetaInfo ----------------------------
EXTENDS MetaInfo

\* A label LabelsCheck rejects.
MC_BadLabel == -100

\* Labels for the two rows, in two orders by absolute value; four labels
\* (reshaped to two targets); a rejected label.
MC_LabelArrays == {<<1, -2>>, <<2, 1>>, <<2, 2, 1, 1>>, <<MC_BadLabel>>}

\* Weights per row, one weight, and a negative weight.
MC_WeightArrays == {<<1, 1>>, <<1>>, <<-1>>}

\* One group of two rows, or two groups of one.
MC_GroupArrays == {<<2>>, <<1, 1>>}

\* Both rows, the second row alone, and no row.
MC_RowSelections == {<<0, 1>>, <<1>>, <<>>}

\* A one-row batch carrying a label, a weight and a group; a one-row batch
\* of two columns carrying nothing else.
MC_OtherInfos ==
  { [num_row |-> 1, num_col |-> 1, labels |-> [rows |-> 1, vals |-> <<1>>],
     weights |-> <<1>>, group_ptr |-> <<0, 1>>],
    [num_row |-> 1, num_col |-> 2, labels |-> NoLabels, weights |-> <<>>, group_ptr |-> <<>>] }

=============================================================================
