-------------------------- MODULE DisputeResolution --------------------------
(***************************************************************************)
(* The disputes about one vault: DisputesService, from opening a dispute   *)
(* through the parties' offers to its resolution, with the escrow contract *)
(* it settles and the WebSocket listener for the contract's events.        *)
(*                                                                         *)
(* Every handler reads the dispute, checks it, and later runs one database *)
(* transaction that writes it unconditionally.  The transaction of resolve *)
(* calls the contract before it commits, holding the row lock of the vault *)
(* meanwhile.  Beside it AdminService.resolveDispute writes a dispute and  *)
(* its vault as the dashboard asks, and calls nothing.  Requests whose     *)
(* caller is unknown or not KYC-verified are refused before they change    *)
(* anything, and are left out.  The vault has its two parties; a check of  *)
(* the clock and the write of the window it allows are one step, as        *)
(* nothing is awaited between them.                                        *)
(***************************************************************************)
EXTENDS FeeSchedule

CONSTANTS Requests,     \* HTTP requests about disputes of this vault
          Disputes,     \* dispute ids
          Opened,       \* the disputes already open when the behaviour starts
          Amounts,      \* amounts somebody may ask for, in cents
          Total,        \* the vault's amount, in cents
          Window, Cap,  \* the 48 and 96 hours of the negotiation
          MaxTime,      \* when the clock stops
          Faults        \* which failures of the environment may happen

ASSUME DisputeConstants ==
    /\ Requests \cap {"free", "listener"} = {}
    /\ Opened \subseteq Disputes
    /\ Amounts \subseteq Nat
    /\ Total \in Nat \ {0}
    /\ Window \in Nat /\ Cap \in Nat /\ MaxTime \in Nat
    /\ Window <= Cap
    /\ Faults \subseteq {"rpc",      \* the contract call fails, nothing is mined
                         "timeout",  \* it is mined, but the transaction is rolled back
                         "revert"}   \* the contract holds the deposit, but less than it must pay

Parties  == {"client", "freelancer"}
Outcomes == {"RELEASE", "REFUND", "SPLIT"}
Closed   == {"RESOLVED", "REJECTED"}
Statuses == Closed \cup {"MUTUAL_RESOLUTION", "UNDER_REVIEW",
                        "NEEDS_INFO"}   \* stands for OPEN as well, no guard names either
VaultStatuses == {"FUNDED", "DISPUTED", "RELEASED", "REFUNDED"}
NoOffer  == [by |-> "nobody", amount |-> 0]
Unsettled == [type |-> "none", by |-> "nobody", outcome |-> "none", amount |-> 0]

VARIABLES
    now,         \* hours, in units of the configuration
    vault,       \* Vault.status, "FUNDED" standing for every undisputed one
    lock,        \* the request whose transaction holds the vault's row lock
    chain,       \* what the escrow contract holds or has done, "none" without one
    events,      \* contract events the listener has yet to handle
    dispute,     \* Dispute.status of each dispute, or "none" before it exists
    createdAt, expiresAt,   \* createdAt and resolutionWindowExpiresAt
    offers,      \* the SETTLEMENT_PROPOSED events of each dispute, with their time
    latest,      \* the last of them
    notified,    \* disputes whose parties were told it is under platform review
    resolution,  \* resolutionType and resolutionPayload of each dispute
    ledger,      \* the committed ledger entries
    stage,       \* how far each request is
    request      \* the dispute it is about, its caller, and what it read or was given

disputeVars == <<dispute, createdAt, expiresAt, offers, latest, notified, resolution>>
escrowVars  == <<chain, events>>
vars == <<now, vault, lock, escrowVars, disputeVars, ledger, stage, request>>

NotSent == [d |-> "none", by |-> "nobody", outcome |-> "none", amount |-> 0]
Free == lock = "free"
Rate == SettlementBps(Total)

Go(r, to) == stage' = [stage EXCEPT ![r] = to] /\ UNCHANGED request
-----------------------------------------------------------------------------
Init ==
    /\ now = 0
    /\ vault = IF Opened = {} THEN "FUNDED" ELSE "DISPUTED"
    /\ lock = "free"
    /\ chain \in {"none", "empty", "funded"}
    /\ events = {}
    /\ dispute = [d \in Disputes |-> IF d \in Opened THEN "MUTUAL_RESOLUTION" ELSE "none"]
    /\ createdAt = [d \in Disputes |-> 0]
    /\ expiresAt = [d \in Disputes |-> IF d \in Opened THEN Window ELSE 0]
    /\ offers = [d \in Disputes |-> {}]
    /\ latest = [d \in Disputes |-> NoOffer]
    /\ notified = {}
    /\ resolution = [d \in Disputes |-> Unsettled]
    /\ ledger = {}
    /\ stage = [r \in Requests |-> "new"]
    /\ request = [r \in Requests |-> NotSent]

Tick ==
    /\ now < MaxTime
    /\ now' = now + 1
    /\ UNCHANGED <<vault, lock, escrowVars, disputeVars, ledger, stage, request>>

\* A handler has read dispute d and passed its checks.
Read(r, to, d, by, outcome, amount) ==
    /\ stage[r] = "new"
    /\ stage' = [stage EXCEPT ![r] = to]
    /\ request' = [request EXCEPT ![r] = [d |-> d, by |-> by, outcome |-> outcome,
                                          amount |-> amount]]
    /\ UNCHANGED <<now, vault, lock, escrowVars, disputeVars, ledger>>

(* create: only a RELEASED vault is refused; the vault may have changed,   *)
(* or have other disputes, by the time the transaction runs.               *)
ReadCreate(r) ==
    /\ vault # "RELEASED"
    /\ \E d \in Disputes, p \in Parties :
        /\ dispute[d] = "none"
        /\ Read(r, "creating", d, p, "none", 0)

CommitCreate(r) ==
    LET d == request[r].d IN
    /\ stage[r] = "creating"
    /\ Free
    /\ dispute[d] = "none"
    /\ vault' = "DISPUTED"
    /\ dispute' = [dispute EXCEPT ![d] = "MUTUAL_RESOLUTION"]
    /\ createdAt' = [createdAt EXCEPT ![d] = now]
    /\ expiresAt' = [expiresAt EXCEPT ![d] = now + Window]
    /\ Go(r, "done")
    /\ UNCHANGED <<now, lock, escrowVars, offers, latest, notified, resolution, ledger>>

(* escalate by a party, investigate by an admin: both put the dispute      *)
(* under review, the admin whatever else it is.                            *)
ReadEscalate(r) ==
    \E d \in Disputes, p \in Parties :
        /\ dispute[d] = "MUTUAL_RESOLUTION"
        /\ Read(r, "escalating", d, p, "none", 0)

ReadInvestigate(r) ==
    \E d \in Disputes :
        /\ dispute[d] \notin Closed \cup {"none", "UNDER_REVIEW"}
        /\ Read(r, "escalating", d, "admin", "none", 0)

\* Mutation: the status is none of the enumeration's.
CommitEscalated(r) ==
    /\ stage[r] = "escalating"
    /\ dispute' = [dispute EXCEPT ![request[r].d] = "ESCALATED"]
    /\ Go(r, "done")
    /\ UNCHANGED <<now, vault, lock, escrowVars, createdAt, expiresAt, offers, latest,
                   notified, resolution, ledger>>

CommitUnderReview(r) ==
    /\ stage[r] = "escalating"
    /\ dispute' = [dispute EXCEPT ![request[r].d] = "UNDER_REVIEW"]
    /\ Go(r, "done")
    /\ UNCHANGED <<now, vault, lock, escrowVars, createdAt, expiresAt, offers, latest,
                   notified, resolution, ledger>>
-----------------------------------------------------------------------------
(* The offers.  proposeSettlement names an amount; requestTotalRefund and  *)
(* requestTotalRelease do not, and only restart the clock.                 *)
\* Mutation: every offer buys another 48 hours.
NewExpiryUncapped(d) == now + Window

NewExpiry(d) ==
    IF now + Window < createdAt[d] + Cap THEN now + Window ELSE createdAt[d] + Cap

TooLate(d) == now - createdAt[d] >= Cap

ReadOffer(r) ==
    \E d \in Disputes, p \in Parties :
        /\ dispute[d] = "MUTUAL_RESOLUTION"
        /\ \/ \E a \in Amounts : Read(r, "proposing", d, p, "SPLIT", a)
           \/ Read(r, "asking", d, p, "none", 0)

\* An amount outside 10%..90% makes the transaction throw: nothing changes.
CommitProposal(r) ==
    LET d == request[r].d
        o == [by |-> request[r].by, amount |-> request[r].amount] IN
    /\ stage[r] = "proposing"
    /\ ~TooLate(d)
    /\ NegotiableSplit(Total, o.amount)
    /\ expiresAt' = [expiresAt EXCEPT ![d] = NewExpiry(d)]
    /\ offers' = [offers EXCEPT ![d] = @ \cup {[by |-> o.by, amount |-> o.amount, at |-> now]}]
    /\ latest' = [latest EXCEPT ![d] = o]
    /\ Go(r, "done")
    /\ UNCHANGED <<now, vault, lock, escrowVars, dispute, createdAt, notified,
                   resolution, ledger>>

CommitTotalRequest(r) ==
    LET d == request[r].d IN
    /\ stage[r] = "asking"
    /\ ~TooLate(d)
    /\ expiresAt' = [expiresAt EXCEPT ![d] = NewExpiry(d)]
    /\ Go(r, "done")
    /\ UNCHANGED <<now, vault, lock, escrowVars, dispute, createdAt, offers, latest,
                   notified, resolution, ledger>>

(* After 96 hours escalateToPhase2 writes UNDER_REVIEW in the transaction  *)
(* and notifies the parties outside it; then the handler throws, which     *)
(* rolls the write back and leaves the notifications.                      *)
LateOffer(r) ==
    /\ stage[r] \in {"proposing", "asking"}
    /\ TooLate(request[r].d)
    /\ notified' = notified \cup {request[r].d}
    /\ Go(r, "done")
    /\ UNCHANGED <<now, vault, lock, escrowVars, dispute, createdAt, expiresAt, offers,
                   latest, resolution, ledger>>
-----------------------------------------------------------------------------
\* Mutation: a party may accept the offer it made itself.
ReadAcceptOwn(r) ==
    \E d \in Disputes, p \in Parties :
        /\ dispute[d] = "MUTUAL_RESOLUTION"
        /\ latest[d] # NoOffer
        /\ Read(r, "accepting", d, p, "SPLIT", latest[d].amount)

(* acceptSettlement checks the other party's latest proposal, then calls   *)
(* resolve, which reads the dispute again.                                 *)
ReadAccept(r) ==
    \E d \in Disputes, p \in Parties :
        /\ dispute[d] = "MUTUAL_RESOLUTION"
        /\ latest[d] # NoOffer
        /\ latest[d].by # p
        /\ NegotiableSplit(Total, latest[d].amount)
        /\ Read(r, "accepting", d, p, "SPLIT", latest[d].amount)

ReadForResolve(r) ==
    /\ stage[r] = "accepting"
    /\ dispute[request[r].d] \notin Closed
    /\ Go(r, "resolving")
    /\ UNCHANGED <<now, vault, lock, escrowVars, disputeVars, ledger>>

ReadAdminResolve(r) ==
    \E d \in Disputes, o \in Outcomes, a \in Amounts :
        /\ dispute[d] \notin Closed \cup {"none"}
        /\ o # "SPLIT" => a = 0
        /\ Read(r, "resolving", d, "admin", o, a)

\* The transaction writes its ledger entries and the vault, and so holds
\* the vault's row until it ends.
BeginResolve(r) ==
    /\ stage[r] = "resolving"
    /\ Free
    /\ request[r].outcome = "SPLIT" => request[r].amount > 0 /\ request[r].amount <= Total
    /\ lock' = r
    /\ Go(r, "calling")
    /\ UNCHANGED <<now, vault, escrowVars, disputeVars, ledger>>

Rollback(r) == lock' = "free" /\ Go(r, "done")

Payout(o) == CASE o = "RELEASE" -> "released"
               [] o = "REFUND"  -> "refunded"
               [] o = "SPLIT"   -> "settled"

\* The events of a payment.  The ABI has none for a settlement of its own.
Notices(o) == CASE o = "RELEASE" -> {{"VaultReleased"}}
                [] o = "REFUND"  -> {{"VaultRefunded"}}
                [] o = "SPLIT"   -> SUBSET {"VaultReleased", "VaultRefunded"}

\* The contract pays once, from what it was funded with.
ContractPays(o) ==
    /\ chain = "funded"
    /\ chain' = Payout(o)
    /\ \E n \in Notices(o) : events' = events \cup n

\* The contract refuses: it has no deposit to pay from, or not enough.
Reverts == chain # "funded" \/ "revert" \in Faults

\* Mutation: a full outcome, too, takes a revert for "already settled".
CallContractSwallow(r) ==
    /\ stage[r] = "calling"
    /\ \/ ContractPays(request[r].outcome)
       \/ (chain = "none" \/ Reverts) /\ UNCHANGED escrowVars
    /\ Go(r, "called")
    /\ UNCHANGED <<now, vault, lock, disputeVars, ledger>>

\* Only a vault with an address has a contract to call, and only a split
\* takes a revert for "already settled" and goes on.
CallContract(r) ==
    LET o == request[r].outcome IN
    /\ stage[r] = "calling"
    /\ \/ ContractPays(o) /\ Go(r, "called") /\ UNCHANGED lock
       \/ "timeout" \in Faults /\ ContractPays(o) /\ Rollback(r)
       \/ /\ chain = "none" \/ (Reverts /\ o = "SPLIT")
          /\ Go(r, "called")
          /\ UNCHANGED <<lock, escrowVars>>
       \/ /\ chain # "none"
          /\ "rpc" \in Faults \/ (Reverts /\ o # "SPLIT")
          /\ Rollback(r)
          /\ UNCHANGED escrowVars
    /\ UNCHANGED <<now, vault, disputeVars, ledger>>

Entry(r, type, amount) ==
    [src |-> r, outcome |-> request[r].outcome, type |-> type, amount |-> amount]

\* The shares are booked for a split, the whole amount for a full outcome.
Entries(r) ==
    LET s == Shares(Total, request[r].amount, Rate) IN
    IF request[r].outcome = "SPLIT"
    THEN {Entry(r, "RELEASE", s.freelancer), Entry(r, "REFUND", s.client),
          Entry(r, "FEE", s.treasury)}
    ELSE {Entry(r, request[r].outcome, Total)}

CommitResolve(r) ==
    LET q == request[r] IN
    /\ stage[r] = "called"
    /\ ledger' = ledger \cup Entries(r)
    /\ vault' = IF q.outcome = "REFUND" THEN "REFUNDED" ELSE "RELEASED"
    /\ dispute' = [dispute EXCEPT ![q.d] = "RESOLVED"]
    /\ resolution' = [resolution EXCEPT ![q.d] =
                        [type |-> IF q.by = "admin" THEN "ARBITRATION" ELSE "MEDIATION",
                         by |-> q.by, outcome |-> q.outcome, amount |-> q.amount]]
    /\ Rollback(r)
    /\ UNCHANGED <<now, escrowVars, createdAt, expiresAt, offers, latest, notified>>

(* AdminService.resolveDispute, the dashboard's own way to close a dispute. *)
(* It only looks whether the dispute exists; it writes any status, and any *)
(* vault status if one is given, which waits for the row lock.             *)
AdminResolveDispute(r) ==
    /\ stage[r] = "new"
    /\ \E d \in Disputes, new \in Statuses :
        /\ dispute[d] # "none"
        /\ dispute' = [dispute EXCEPT ![d] = new]
    /\ \/ UNCHANGED vault
       \/ Free /\ vault' \in VaultStatuses
    /\ Go(r, "done")
    /\ UNCHANGED <<now, lock, escrowVars, createdAt, expiresAt, offers, latest, notified,
                   resolution, ledger>>
-----------------------------------------------------------------------------
Synced(type) == [src |-> "listener", outcome |-> "none", type |-> type, amount |-> Total]

(* The listener.  A release event closes every dispute and adds a RELEASE  *)
(* entry if there is none; its update of the vault waits for the row lock. *)
(* A refund event only adds a missing REFUND entry, and waits for nothing. *)
HandleVaultReleased ==
    /\ "VaultReleased" \in events
    /\ Free
    /\ events' = events \ {"VaultReleased"}
    /\ vault' = "RELEASED"
    /\ dispute' = [d \in Disputes |-> IF dispute[d] = "none" THEN "none" ELSE "RESOLVED"]
    /\ ledger' = ledger \cup (IF \E e \in ledger : e.type = "RELEASE"
                              THEN {} ELSE {Synced("RELEASE")})
    /\ UNCHANGED <<now, lock, chain, createdAt, expiresAt, offers, latest, notified,
                   resolution, stage, request>>

HandleVaultRefunded ==
    /\ "VaultRefunded" \in events
    /\ events' = events \ {"VaultRefunded"}
    /\ ledger' = ledger \cup (IF \E e \in ledger : e.type = "REFUND"
                              THEN {} ELSE {Synced("REFUND")})
    /\ UNCHANGED <<now, vault, lock, chain, disputeVars, stage, request>>

Next ==
    \/ Tick
    \/ \E r \in Requests :
        \/ ReadCreate(r) \/ CommitCreate(r)
        \/ ReadEscalate(r) \/ ReadInvestigate(r) \/ CommitUnderReview(r)
        \/ ReadOffer(r) \/ CommitProposal(r) \/ CommitTotalRequest(r) \/ LateOffer(r)
        \/ ReadAccept(r) \/ ReadForResolve(r) \/ ReadAdminResolve(r)
        \/ BeginResolve(r) \/ CallContract(r) \/ CommitResolve(r)
        \/ AdminResolveDispute(r)
    \/ HandleVaultReleased \/ HandleVaultRefunded

Spec == Init /\ [][Next]_vars
-----------------------------------------------------------------------------
OfferType == [by : Parties, amount : Nat]
TypeOK ==
    /\ now \in Nat
    /\ vault \in VaultStatuses
    /\ lock \in Requests \cup {"free"}
    /\ chain \in {"none", "empty", "funded", "released", "refunded", "settled"}
    /\ events \subseteq {"VaultReleased", "VaultRefunded"}
    /\ dispute \in [Disputes -> Statuses \cup {"none"}]
    /\ createdAt \in [Disputes -> Nat]
    /\ expiresAt \in [Disputes -> Nat]
    /\ offers \in [Disputes -> SUBSET [by : Parties, amount : Nat, at : Nat]]
    /\ latest \in [Disputes -> OfferType \cup {NoOffer}]
    /\ notified \subseteq Disputes
    /\ resolution \in [Disputes -> [type : {"none", "MEDIATION", "ARBITRATION"},
                                    by : Parties \cup {"admin", "nobody"},
                                    outcome : Outcomes \cup {"none"}, amount : Nat]]
    /\ ledger \subseteq [src : Requests \cup {"listener"}, outcome : Outcomes \cup {"none"},
                         type : {"RELEASE", "REFUND", "FEE"}, amount : Nat]
    /\ stage \in [Requests -> {"new", "creating", "escalating", "proposing", "asking",
                               "accepting", "resolving", "calling", "called", "done"}]
    /\ request \in [Requests ->
         [d : Disputes \cup {"none"}, by : Parties \cup {"admin", "nobody"},
          outcome : Outcomes \cup {"none"}, amount : Nat]]

(* An offer of this amount to this party, made within the 96 hours.        *)
Consented(d, by, amount) ==
    \E o \in offers[d] : /\ o.amount = amount
                         /\ o.by # by
                         /\ NegotiableSplit(Total, o.amount)
                         /\ o.at < createdAt[d] + Cap

(* What the parties settle between themselves is an amount one of them     *)
(* proposed on this dispute, within its 96 hours and between 10% and 90%,  *)
(* and the other one accepted, however the requests interleave.            *)
MediationConsented ==
    \A d \in Disputes : resolution[d].type = "MEDIATION"
        => Consented(d, resolution[d].by, resolution[d].amount)

FullOutcomes == {"RELEASE", "REFUND"}

(* Of a vault with a contract a full release or refund is booked at most   *)
(* once over all its disputes and all racing resolutions, and a full       *)
(* release not beside a RELEASE entry of the listener.  A full refund may  *)
(* be booked beside the listener's REFUND entry.                           *)
FullOutcomeOnce ==
    chain # "none" =>
        \A e, f \in ledger :
            /\ {e.outcome, f.outcome} \subseteq FullOutcomes => e = f
            /\ e.outcome = "RELEASE" /\ f.src = "listener" => f.type # "RELEASE"

(* The three entries of a split add up to the vault's amount.              *)
SplitConserves ==
    \A e, f, g \in ledger :
        (e.src = f.src /\ f.src = g.src
          /\ e.type = "RELEASE" /\ f.type = "REFUND" /\ g.type = "FEE"
          /\ e.src # "listener")
        => e.amount + f.amount + g.amount = Total

(* A full release or refund that resolve has booked is what the contract,  *)
(* if the vault has one, has paid, whatever timed out, was mined after     *)
(* all, was retried or raced it.  A split may be booked with nothing paid, *)
(* and the dashboard closes a dispute with the deposit still in escrow.    *)
FullOutcomePaid ==
    chain # "none" =>
        \A e \in ledger : e.outcome \in FullOutcomes => chain = Payout(e.outcome)

WindowStep ==
    \A d \in Disputes : dispute[d] # "none" =>
        /\ expiresAt'[d] >= expiresAt[d]
        /\ expiresAt'[d] <= createdAt[d] + Cap

(* The negotiation window is never moved back, and never past 96 hours     *)
(* after the dispute was opened.                                           *)
WindowOnlyExtends == [][WindowStep]_vars

(* The inductive invariant behind the properties above.  What each stage   *)
(* of a request has established and, since the row lock is held from then  *)
(* on, what no other request can change before it commits.                 *)
RequestInv(r) ==
    LET q == request[r] IN
    /\ stage[r] \notin {"new", "done"} => q.d \in Disputes
    /\ stage[r] \in {"proposing", "accepting"} => q.by \in Parties
    /\ stage[r] \in {"accepting", "resolving", "calling", "called"} =>
          /\ q.outcome \in Outcomes
          /\ q.by = "admin" \/ Consented(q.d, q.by, q.amount)
    /\ stage[r] \in {"calling", "called"} =>
          /\ lock = r
          /\ q.outcome = "SPLIT" => q.amount > 0 /\ q.amount <= Total
    /\ stage[r] = "called" /\ chain # "none" =>
          /\ q.outcome \in FullOutcomes =>
                /\ chain = Payout(q.outcome)
                /\ \A e \in ledger : e.outcome \notin FullOutcomes
          /\ q.outcome = "RELEASE" =>
                \A e \in ledger : ~(e.src = "listener" /\ e.type = "RELEASE")

\* Where a ledger entry comes from.
EntryInv(e) ==
    /\ e.src = "listener" => /\ e.outcome = "none"
                             /\ e.type = "RELEASE" => chain # "funded"
    /\ e.src # "listener" => stage[e.src] = "done" /\ e \in Entries(e.src)
    /\ e.outcome \in FullOutcomes /\ chain # "none" => chain = Payout(e.outcome)

LatestInv(d) ==
    latest[d] # NoOffer =>
        \E o \in offers[d] : /\ o.amount = latest[d].amount
                             /\ o.by = latest[d].by
                             /\ o.at < createdAt[d] + Cap

WindowInv(d) ==
    /\ createdAt[d] <= now
    /\ expiresAt[d] <= now + Window
    /\ expiresAt[d] <= createdAt[d] + Cap

IInv ==
    /\ TypeOK
    /\ \A d \in Disputes : WindowInv(d) /\ LatestInv(d)
    /\ \A r \in Requests : RequestInv(r)
    /\ \A e \in ledger : EntryInv(e)
    /\ "VaultReleased" \in events => chain # "funded"
    /\ MediationConsented
    /\ FullOutcomeOnce

(* "The mutual resolution window has closed. Your dispute is now under     *)
(* platform review.": the parties are only told so when it is.             *)
NoticeIsTrue ==
    \A d \in notified : dispute[d] # "MUTUAL_RESOLUTION"
=============================================================================
