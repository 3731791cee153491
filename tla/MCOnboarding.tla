----------------------------- MODULE MCOnboarding -----------------------------
EXTENDS Onboarding, TLC
CONSTANTS c1, c2
Symmetric == Permutations(Calls)
=============================================================================
