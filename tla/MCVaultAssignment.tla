--------------------------- MODULE MCVaultAssignment ---------------------------
EXTENDS VaultAssignment, TLC
CONSTANTS u1, u2, v1, v2, a1, a2, i1, i2, c1, c2
Symmetric == Permutations(Users) \cup Permutations(Vaults) \cup Permutations(Contracts)
               \cup Permutations(Invites) \cup Permutations(Calls)
=============================================================================
