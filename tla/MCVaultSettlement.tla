------------------------- MODULE MCVaultSettlement -------------------------
EXTENDS VaultSettlement, TLC

RequestSymmetry == Permutations(Requests)
=============================================================================
