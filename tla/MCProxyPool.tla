---------------------------- MODULE MCProxyPool ----------------------------
EXTENDS ProxyPool, TLC

MCSymmetry == Permutations(Accounts) \cup Permutations(Jobs)
=============================================================================
