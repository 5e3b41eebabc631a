------------------------------- MODULE MCPool -------------------------------
\* Two endpoints, three SubConns (so that one key is evicted or drained and
\* taken again) and a probe.
EXTENDS PoolAlone, TLC

CONSTANTS e1, e2, e3, c1

MCEntry == {e1, e2, e3}
MCChecker == {c1}
MCKey == 1..2
MCNoInput == {}
MCHealthInput == {"Serving"}

Symmetry == Permutations(MCEntry)
=============================================================================
