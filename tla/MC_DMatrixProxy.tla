--------------------------- MODULE MC_DMatrixProxy ---------------------------
EXTENDS DMatrixProxy

\* Batches of one and of two rows.
MC_Shapes == {[rows |-> 1, cols |-> 2], [rows |-> 2, cols |-> 1]}

MC_BadLabel == -100

\* One label per row of either batch, and four labels (two or four
\* targets); a rejected label.
MC_LabelArrays == {<<1>>, <<2, 1>>, <<2, 2, 1, 1>>, <<MC_BadLabel>>}
MC_WeightArrays == {<<1>>}
MC_GroupArrays == {<<1>>}

=============================================================================
