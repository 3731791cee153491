----------------------------- MODULE EscrowPayout -----------------------------
(***************************************************************************)
(* What settling a vault promises, whatever the queues, retries and races  *)
(* do: the escrow pays one side at most once, and the side it pays already *)
(* has an entry for it in the ledger.                                      *)
(***************************************************************************)

CONSTANT Sides          \* the two ways a vault can be settled

VARIABLES booked,       \* the sides the ledger holds a credit for
          paid          \* the side the escrow has paid, or "none"

vars == <<booked, paid>>

Init == booked = {} /\ paid = "none"

Book(s) ==
    /\ booked' = booked \cup {s}
    /\ UNCHANGED paid

Pay(s) ==
    /\ paid = "none"
    /\ s \in booked
    /\ paid' = s
    /\ UNCHANGED booked

Next == \E s \in Sides : Book(s) \/ Pay(s)

Spec == Init /\ [][Next]_vars
=============================================================================
