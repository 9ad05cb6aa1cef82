------------------------- MODULE MCWindowsDelivery -------------------------
EXTENDS WindowsDelivery, TLC

MCTwoReleases == {<<1, "a">>, <<2, "a">>}
Symmetry == Permutations(Procs)
=============================================================================
