---------------------------- MODULE MC_CscMerge ----------------------------
EXTENDS CscMerge

\* spec.md section 8's pair: A has (r0, 1) in column 0, B has (r1, 2) in
\* column 1; D has another entry in column 0; C has three columns; E has
\* two columns and no entries.
MC_OtherPages ==
  { [offset |-> <<0, 1, 1>>, data |-> <<Entry(0, 1)>>],
    [offset |-> <<0, 0, 1>>, data |-> <<Entry(1, 2)>>],
    [offset |-> <<0, 1, 1>>, data |-> <<Entry(3, 1)>>],
    [offset |-> <<0, 1, 1, 2>>, data |-> <<Entry(2, 3), Entry(2, 1)>>],
    [offset |-> <<0, 0, 0>>, data |-> <<>>] }

=============================================================================
