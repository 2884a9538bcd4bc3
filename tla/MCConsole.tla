------------------------------ MODULE MCConsole ------------------------------
EXTENDS Console

MCTexts == {<<LF>>}
\* nothing is promised after a clash
Unclashed == ~clash

MCKeys  == {"x", CR, LF, BS}
=============================================================================
