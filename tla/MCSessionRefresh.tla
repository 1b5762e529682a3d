-------------------------- MODULE MCSessionRefresh --------------------------
EXTENDS SessionRefresh, TLC

MCSymmetry == Permutations(Workers) \cup Permutations(Logins)
=============================================================================
