----------------------------- MODULE MCBalancer -----------------------------
\* At most two endpoints and two SubConns: an endpoint is removed, its SubConn
\* drains, and it is added again; or two endpoints compete for a cap of one.
EXTENDS K8sBalancer, TLC

CONSTANTS e1, e2, c1, r1

MCKey == 1..2
MCOneKey == {1}
MCOneEntry == {e1}
MCTwoEntries == {e1, e2}
MCOneChecker == {c1}
MCNoChecker == {}
MCRpc == {r1}
MCNoRpc == {}

Symmetry == Permutations(MCTwoEntries)
=============================================================================
