------------------------ MODULE MCDisputeResolution ------------------------
EXTENDS DisputeResolution, TLC

RequestSymmetry == Permutations(Requests)
=============================================================================
