---------------------------- MODULE MC_PushAdapter ----------------------------
EXTENDS PushAdapter

\* An empty page, and a page whose one row holds one entry.
MC_InitPages ==
  { [offset |-> <<0>>, data |-> <<>>],
    [offset |-> <<0, 1>>, data |-> <<Entry(0, 1)>>] }

\* 1 is a finite value, NaN and +Inf the special ones; the sentinel is NaN
\* (the default), the finite 1, or +Inf.
MC_Vals == {1, NaN, PosInf}
MC_Missings == {NaN, 1, PosInf}

=============================================================================
