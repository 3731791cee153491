--------------------------- MODULE MCLedgerWithdraw ---------------------------
EXTENDS LedgerWithdraw, TLC
CONSTANTS c1, c2, k1, k2, k3
Symmetric == Permutations(Calls) \cup Permutations(Keys)
=============================================================================
