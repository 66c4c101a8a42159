---------------------------- MODULE MC_CuDriverApi ----------------------------
EXTENDS CuDriverApi

CONSTANTS t1, t2, t3

MC_Threads == {t1, t2, t3}

\* A CTK 12.8 driver and a CTK 12.4 one.
MC_DrVersions == {[major |-> 12, minor |-> 8], [major |-> 12, minor |-> 4]}

\* Header and "570.124.06"; header and the WSL form "573.24"; header and a
\* 550 driver; a minor too large for int32; only the header; header and
\* a line without digits.
MC_SmiOutputs ==
  { <<<<Junk>>, <<570, 124, 6>>>>,
    <<<<Junk>>, <<573, 24>>>>,
    <<<<Junk>>, <<550, 54, 15>>>>,
    <<<<Junk>>, <<575, Overflow, 1>>>>,
    <<<<Junk>>>>,
    <<<<Junk>>, <<Junk>>>> }

=============================================================================
