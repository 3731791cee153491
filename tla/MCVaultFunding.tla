---------------------------- MODULE MCVaultFunding ----------------------------
EXTENDS VaultFunding, TLC
CONSTANTS r1, r2, r3, r4, q1, q2, f1, f2
Symmetric == Permutations(Requests) \cup Permutations(Ramps) \cup Permutations(Freelancers)
=============================================================================
