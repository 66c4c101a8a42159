---------------------------- MODULE MC_Transpose ----------------------------
EXTENDS Transpose

\* Source pages: two rows with column 1 in both and column 0 in the first;
\* an empty row before two filled ones; rows without entries; no rows.
MC_SrcPages ==
  { [offset |-> <<0, 2, 3>>, data |-> <<Entry(1, 1), Entry(0, 2), Entry(1, 3)>>],
    [offset |-> <<0, 0, 1, 3>>, data |-> <<Entry(0, 1), Entry(0, 2), Entry(1, 3)>>],
    [offset |-> <<0, 0, 0>>, data |-> <<>>],
    [offset |-> <<0>>, data |-> <<>>] }

=============================================================================
