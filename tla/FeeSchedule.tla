----------------------------- MODULE FeeSchedule -----------------------------
(***************************************************************************)
(* The arithmetic of a split settlement: the fee tier that                 *)
(* calculateDayleFee finds for the vault, the bounds of a negotiable offer *)
(* and the shares that are booked.  The code computes in units of the      *)
(* token; here an amount is in cents, percentages are basis points.        *)
(***************************************************************************)
EXTENDS Naturals

\* Settlement fee by the size of the vault, tiers in dollars.
SettlementBps(cents) ==
    CASE cents <= 500 * 100   -> 500
      [] cents > 500 * 100 /\ cents <= 2000 * 100   -> 400
      [] cents > 2000 * 100 /\ cents <= 10000 * 100 -> 300
      [] cents > 10000 * 100 -> 250

\* BigInt division rounds the bounds of a negotiable offer down.
NegotiableSplit(total, split) ==
    /\ split >= total \div 10
    /\ split <= (total * 9) \div 10

\* Mutation: the client's share is computed from the freelancer's net.
SharesFromNet(total, split, bps) ==
    LET treasury == (split * bps) \div 10000 IN
    [freelancer |-> split - treasury,
     client     |-> total - (split - treasury),
     treasury   |-> treasury]

\* The fee comes out of the freelancer's part, the client gets the rest.
Shares(total, split, bps) ==
    LET treasury == (split * bps) \div 10000 IN
    [freelancer |-> split - treasury,
     client     |-> total - split,
     treasury   |-> treasury]
=============================================================================
