---------------------------- MODULE MC_SparsePage ----------------------------
EXTENDS SparsePage

\* The page starts empty.
MC_InitPages == {[offset |-> <<0>>, data |-> <<>>]}

\* A page holding one row with one entry, and a page with an empty row
\* followed by a row of two entries of the same column.
MC_OtherPages ==
  { [offset |-> <<0, 1>>, data |-> <<Entry(1, 1)>>],
    [offset |-> <<0, 0, 2>>, data |-> <<Entry(1, 2), Entry(1, 1)>>] }

\* Two finite values and NaN; the sentinel is either NaN or the value 0.
MC_Vals == {0, 1, NaN}
MC_Missings == {NaN, 0}

=============================================================================
