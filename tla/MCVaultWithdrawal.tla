--------------------------- MODULE MCVaultWithdrawal ---------------------------
EXTENDS VaultWithdrawal, TLC
CONSTANTS r1, r2, c1, c2, p1, p2
Symmetric == Permutations(Requests) \cup Permutations(PaycrestOrders) \cup Permutations(PartnaRamps)
=============================================================================
