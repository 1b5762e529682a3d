--------------------------- MODULE MCMediaLibrary ---------------------------
EXTENDS MediaLibrary, TLC

MCSymmetry == Permutations(Assets) \cup Permutations(Clients)
=============================================================================
