----------------------------- MODULE MCPrivyLogin -----------------------------
EXTENDS PrivyLogin, TLC
CONSTANTS d1, d2, e1, e2, l1, l2
Symmetric == Permutations(Dids) \cup Permutations(Emails) \cup Permutations(Logins)
=============================================================================
