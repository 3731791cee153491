----------------------------- MODULE FundingOrder -----------------------------
(***************************************************************************)
(* What funding a vault promises, whatever webhooks, expiries and races    *)
(* do: the treasury moves money into the escrow only for a payment that    *)
(* the provider has received and the database has booked.                  *)
(***************************************************************************)
VARIABLE money      \* how far the client's money has come

Init == money = "none"

Next ==
    \/ money = "none"     /\ money' = "received"
    \/ money = "received" /\ money' = "booked"
    \/ money = "booked"   /\ money' = "escrowed"

Spec == Init /\ [][Next]_money
=============================================================================
