--------------------------- MODULE OverdraftAccount ---------------------------
(***************************************************************************)
(* What the ledger promises for one user's balance: a key takes money from *)
(* it once, and what is taken stays within a credit line.                  *)
(***************************************************************************)
EXTENDS Integers

CONSTANTS Keys, Overdraft

VARIABLES balance,   \* what is left for withdrawals
          used       \* the keys that have taken something

vars == <<balance, used>>

Init == balance = 0 /\ used = {}

Credit ==
    /\ balance' > balance
    /\ UNCHANGED used

Debit(k) ==
    /\ k \notin used
    /\ used' = used \cup {k}
    /\ balance' <= balance
    /\ balance' >= -Overdraft

Next == Credit \/ \E k \in Keys : Debit(k)

Spec == Init /\ [][Next]_vars
=============================================================================
