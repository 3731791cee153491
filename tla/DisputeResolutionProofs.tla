----------------------- MODULE DisputeResolutionProofs -----------------------
(***************************************************************************)
(* The safety properties of DisputeResolution, for any number of requests  *)
(* and disputes, any amounts and window, and any failures of the contract  *)
(* call.                                                                   *)
(***************************************************************************)
EXTENDS DisputeResolution, TLAPS

USE DisputeConstants DEF Parties, Outcomes, Statuses, Closed, VaultStatuses, FullOutcomes,
                         escrowVars, disputeVars

\* The fee is one of the four tiers.
LEMMA RateRange == Rate \in {250, 300, 400, 500}
  BY DEF Rate, SettlementBps

(* A split is divided without loss and without a negative share, whatever  *)
(* its amount.                                                             *)
THEOREM SharesAddUp ==
  ASSUME NEW total \in Nat, NEW split \in 0..total,
         NEW bps \in {250, 300, 400, 500}
  PROVE  LET s == Shares(total, split, bps) IN
           /\ s.freelancer \in Nat /\ s.client \in Nat /\ s.treasury \in Nat
           /\ s.freelancer + s.client + s.treasury = total
<1> DEFINE t == (split * bps) \div 10000
<1>1. t \in Nat /\ t <= split
  <2>1. CASE bps = 250 BY <2>1
  <2>2. CASE bps = 300 BY <2>2
  <2>3. CASE bps = 400 BY <2>3
  <2>4. CASE bps = 500 BY <2>4
  <2>5. QED BY <2>1, <2>2, <2>3, <2>4
<1> HIDE DEF t
<1>2. /\ split - t \in Nat /\ total - split \in Nat
      /\ (split - t) + (total - split) + t = total
  BY <1>1
<1>3. Shares(total, split, bps)
        = [freelancer |-> split - t, client |-> total - split, treasury |-> t]
  BY DEF Shares, t
<1>4. QED BY <1>1, <1>2, <1>3

(* The bounds of proposeSettlement and the fee of resolve together: the    *)
(* client keeps a tenth of the vault, the freelancer nineteen twentieths   *)
(* of a tenth, and the treasury no more than a twentieth of the split.     *)
LEMMA BothKeepAShare ==
  ASSUME NEW total \in Nat, NEW split \in Nat, NegotiableSplit(total, split),
         NEW bps \in {250, 300, 400, 500}
  PROVE  LET s == Shares(total, split, bps) IN
           /\ 10 * s.client >= total
           /\ 20 * s.freelancer >= 19 * (total \div 10)
           /\ 20 * s.treasury <= split
<1> DEFINE t == (split * bps) \div 10000
<1>1. t \in Nat /\ 20 * t <= split
  <2>1. CASE bps = 250 BY <2>1
  <2>2. CASE bps = 300 BY <2>2
  <2>3. CASE bps = 400 BY <2>3
  <2>4. CASE bps = 500 BY <2>4
  <2>5. QED BY <2>1, <2>2, <2>3, <2>4
<1>2. Shares(total, split, bps)
        = [freelancer |-> split - t, client |-> total - split, treasury |-> t]
  BY DEF Shares
<1> HIDE DEF t
<1>3. split >= total \div 10 /\ 10 * split <= 9 * total
  BY DEF NegotiableSplit
<1>4. /\ 10 * (total - split) >= total
      /\ 20 * (split - t) >= 19 * (total \div 10)
  BY <1>1, <1>3
<1>5. QED BY <1>1, <1>2, <1>4

LEMMA InitInv == Init => IInv
<1> SUFFICES ASSUME Init PROVE IInv
  OBVIOUS
<1> USE DEF Init
<1>1. TypeOK
  BY DEF TypeOK, Unsettled, NoOffer, NotSent
<1>2. \A d \in Disputes : WindowInv(d) /\ LatestInv(d)
  BY DEF WindowInv, LatestInv
<1>3. \A r \in Requests : RequestInv(r)
  BY DEF RequestInv, NotSent
<1>4. MediationConsented /\ FullOutcomeOnce
  BY DEF MediationConsented, FullOutcomeOnce, Unsettled
<1>5. QED BY <1>1, <1>2, <1>3, <1>4 DEF IInv

\* The entries of a request are a matter of its outcome and amount alone.
LEMMA EntriesStay ==
  ASSUME NEW r \in Requests,
         request'[r].outcome = request[r].outcome,
         request'[r].amount = request[r].amount
  PROVE  Entries(r)' = Entries(r)
  BY DEF Entries, Entry

\* So a request that has booked its entries keeps them, whatever others do.
LEMMA BookedEntriesStay ==
  ASSUME IInv, NEW e \in ledger,
         \A r \in Requests : stage[r] = "done" => stage'[r] = "done" /\ request'[r] = request[r]
  PROVE  e.src # "listener" => stage'[e.src] = "done" /\ e \in Entries(e.src)'
<1> SUFFICES ASSUME e.src # "listener"
             PROVE  stage'[e.src] = "done" /\ e \in Entries(e.src)'
  OBVIOUS
<1>1. e.src \in Requests /\ stage[e.src] = "done" /\ e \in Entries(e.src)
  BY DEF IInv, TypeOK, EntryInv
<1>2. stage'[e.src] = "done" /\ request'[e.src] = request[e.src]
  BY <1>1
<1>3. Entries(e.src)' = Entries(e.src)
  BY <1>1, <1>2, EntriesStay
<1>4. QED BY <1>1, <1>2, <1>3

(* A handler that reads a dispute only records what it has read.           *)
LEMMA ReadInv ==
  ASSUME IInv, NEW r \in Requests, NEW to, NEW d \in Disputes,
         NEW by \in Parties \cup {"admin"}, NEW outcome \in Outcomes \cup {"none"},
         NEW amount \in Nat, Read(r, to, d, by, outcome, amount),
         \/ to \in {"creating", "escalating", "asking"}
         \/ to = "proposing" /\ by \in Parties
         \/ to = "accepting" /\ by \in Parties /\ outcome = "SPLIT" /\ Consented(d, by, amount)
         \/ to = "resolving" /\ by = "admin" /\ outcome \in Outcomes
  PROVE  IInv'
<1> USE DEF Read
<1>1. TypeOK'
  BY DEF IInv, TypeOK
<1>2. \A x \in Disputes : WindowInv(x)' /\ LatestInv(x)'
  BY DEF IInv, WindowInv, LatestInv
<1>3. ASSUME NEW s \in Requests PROVE RequestInv(s)'
  <2>1. CASE s = r
    BY <2>1 DEF IInv, TypeOK, RequestInv, Consented
  <2>2. CASE s # r
    <3>1. stage'[s] = stage[s] /\ request'[s] = request[s]
      BY <2>2 DEF IInv, TypeOK
    <3>2. QED BY <3>1 DEF IInv, RequestInv, Consented
  <2>3. QED BY <2>1, <2>2
<1>4. \A e \in ledger' : EntryInv(e)'
  BY BookedEntriesStay DEF IInv, TypeOK, EntryInv
<1>5. /\ "VaultReleased" \in events' => chain' # "funded"
      /\ MediationConsented' /\ FullOutcomeOnce'
  BY DEF IInv, MediationConsented, Consented, FullOutcomeOnce
<1>6. QED BY <1>1, <1>2, <1>3, <1>4, <1>5 DEF IInv

LEMMA ReadsInv ==
  ASSUME IInv, NEW r \in Requests,
         \/ ReadCreate(r) \/ ReadEscalate(r) \/ ReadInvestigate(r)
         \/ ReadOffer(r) \/ ReadAccept(r) \/ ReadAdminResolve(r)
  PROVE  IInv'
<1>1. CASE ReadCreate(r)
  BY <1>1, ReadInv DEF ReadCreate
<1>2. CASE ReadEscalate(r)
  BY <1>2, ReadInv DEF ReadEscalate
<1>3. CASE ReadInvestigate(r)
  BY <1>3, ReadInv DEF ReadInvestigate
<1>4. CASE ReadOffer(r)
  BY <1>4, ReadInv DEF ReadOffer
<1>5. CASE ReadAccept(r)
  <2>1. PICK d \in Disputes, p \in Parties :
          /\ latest[d] # NoOffer
          /\ latest[d].by # p
          /\ NegotiableSplit(Total, latest[d].amount)
          /\ Read(r, "accepting", d, p, "SPLIT", latest[d].amount)
    BY <1>5 DEF ReadAccept
  <2>2. Consented(d, p, latest[d].amount)
    BY <2>1 DEF IInv, LatestInv, Consented
  <2>3. latest[d].amount \in Nat
    BY <2>1 DEF IInv, TypeOK, OfferType
  <2>4. QED BY <2>1, <2>2, <2>3, ReadInv
<1>6. CASE ReadAdminResolve(r)
  BY <1>6, ReadInv DEF ReadAdminResolve
<1>7. QED BY <1>1, <1>2, <1>3, <1>4, <1>5, <1>6

(* An offer once made stays made, and its dispute's 96 hours never shrink. *)
LEMMA ConsentStays ==
  ASSUME TypeOK, NEW d \in Disputes, NEW by, NEW amount, Consented(d, by, amount),
         offers[d] \subseteq offers'[d],
         createdAt'[d] \in Nat, createdAt[d] <= createdAt'[d]
  PROVE  Consented(d, by, amount)'
<1>1. PICK o \in offers[d] : /\ o.amount = amount
                            /\ o.by # by
                            /\ NegotiableSplit(Total, o.amount)
                            /\ o.at < createdAt[d] + Cap
  BY DEF Consented
<1>2. o.at \in Nat /\ createdAt[d] \in Nat
  BY DEF TypeOK
<1>3. o.at < createdAt'[d] + Cap
  BY <1>1, <1>2
<1>4. QED BY <1>1, <1>3 DEF Consented

(* What a step that leaves the escrow, the books and the row lock alone    *)
(* has to do: move one request on, and at most add to the offers or open   *)
(* a dispute.                                                              *)
NegotiationStep(r) ==
    /\ UNCHANGED <<lock, chain, events, ledger, resolution, request>>
    /\ \A s \in Requests : s # r => stage'[s] = stage[s]
    /\ \A d \in Disputes : /\ offers[d] \subseteq offers'[d]
                           /\ createdAt[d] <= createdAt'[d]
    /\ stage[r] # "done"

LEMMA NegotiationInv ==
  ASSUME IInv, TypeOK', NEW r \in Requests, NegotiationStep(r), RequestInv(r)',
         \A d \in Disputes : WindowInv(d)' /\ LatestInv(d)'
  PROVE  IInv'
<1> USE DEF NegotiationStep
<1>1. ASSUME NEW s \in Requests, s # r PROVE RequestInv(s)'
  <2>1. stage'[s] = stage[s] /\ request' = request
    BY <1>1
  <2>2. ASSUME stage[s] \in {"accepting", "resolving", "calling", "called"}
        PROVE  request[s].by = "admin"
                 \/ Consented(request[s].d, request[s].by, request[s].amount)'
    <3>1. request[s].d \in Disputes
      BY <2>2 DEF IInv, RequestInv
    <3>2. CASE request[s].by # "admin"
      <4>1. Consented(request[s].d, request[s].by, request[s].amount)
        BY <2>2, <3>2 DEF IInv, RequestInv
      <4>2. createdAt'[request[s].d] \in Nat
        BY <3>1 DEF TypeOK
      <4>3. QED BY <3>1, <2>1, <4>1, <4>2, ConsentStays DEF IInv
    <3>3. QED BY <3>2
  <2>3. QED BY <2>1, <2>2 DEF IInv, RequestInv
<1>2. ASSUME NEW e \in ledger' PROVE EntryInv(e)'
  BY BookedEntriesStay DEF IInv, TypeOK, EntryInv
<1>3. MediationConsented'
  <2> SUFFICES ASSUME NEW d \in Disputes, resolution[d].type = "MEDIATION"
               PROVE  Consented(d, resolution[d].by, resolution[d].amount)'
    BY DEF MediationConsented
  <2>1. createdAt'[d] \in Nat
    BY DEF TypeOK
  <2>2. QED BY <2>1, ConsentStays DEF IInv, MediationConsented
<1>4. /\ "VaultReleased" \in events' => chain' # "funded"
      /\ FullOutcomeOnce'
  BY DEF IInv, FullOutcomeOnce
<1>5. QED BY <1>1, <1>2, <1>3, <1>4 DEF IInv

LEMMA CommitsInv ==
  ASSUME IInv, NEW r \in Requests,
         \/ CommitCreate(r) \/ CommitUnderReview(r) \/ CommitProposal(r)
         \/ CommitTotalRequest(r) \/ LateOffer(r) \/ ReadForResolve(r)
         \/ AdminResolveDispute(r)
  PROVE  IInv'
<1> USE DEF Go
<1>0. stage[r] \notin {"new", "done"} => request[r].d \in Disputes
  BY DEF IInv, RequestInv
<1>1. CASE CommitCreate(r)
  <2> USE <1>1 DEF CommitCreate
  <2>1. TypeOK'
    BY <1>0 DEF IInv, TypeOK
  <2>2. \A d \in Disputes : WindowInv(d)' /\ LatestInv(d)'
    BY <1>0 DEF IInv, TypeOK, WindowInv, LatestInv
  <2>3. NegotiationStep(r) /\ RequestInv(r)'
    BY <1>0 DEF IInv, TypeOK, WindowInv, NegotiationStep, RequestInv
  <2>4. QED BY <2>1, <2>2, <2>3, NegotiationInv
<1>2. CASE CommitUnderReview(r)
  <2> USE <1>2 DEF CommitUnderReview
  <2>1. TypeOK'
    BY <1>0 DEF IInv, TypeOK
  <2>2. \A d \in Disputes : WindowInv(d)' /\ LatestInv(d)'
    BY DEF IInv, WindowInv, LatestInv
  <2>3. NegotiationStep(r) /\ RequestInv(r)'
    BY <1>0 DEF IInv, TypeOK, NegotiationStep, RequestInv, Consented
  <2>4. QED BY <2>1, <2>2, <2>3, NegotiationInv
<1>6. CASE LateOffer(r)
  <2> USE <1>6 DEF LateOffer
  <2>1. TypeOK'
    BY <1>0 DEF IInv, TypeOK
  <2>2. \A d \in Disputes : WindowInv(d)' /\ LatestInv(d)'
    BY DEF IInv, WindowInv, LatestInv
  <2>3. NegotiationStep(r) /\ RequestInv(r)'
    BY <1>0 DEF IInv, TypeOK, NegotiationStep, RequestInv, Consented
  <2>4. QED BY <2>1, <2>2, <2>3, NegotiationInv
<1>7. CASE ReadForResolve(r)
  <2> USE <1>7 DEF ReadForResolve
  <2>1. TypeOK'
    BY <1>0 DEF IInv, TypeOK
  <2>2. \A d \in Disputes : WindowInv(d)' /\ LatestInv(d)'
    BY DEF IInv, WindowInv, LatestInv
  <2>3. NegotiationStep(r) /\ RequestInv(r)'
    BY <1>0 DEF IInv, TypeOK, NegotiationStep, RequestInv, Consented
  <2>4. QED BY <2>1, <2>2, <2>3, NegotiationInv
<1>3. CASE CommitProposal(r)
  <2> USE <1>3 DEF CommitProposal
  <2>1. TypeOK'
    BY <1>0 DEF IInv, TypeOK, RequestInv, OfferType, NewExpiry
  <2>2. \A d \in Disputes : WindowInv(d)'
    BY <1>0 DEF IInv, TypeOK, WindowInv, NewExpiry
  <2>3. ASSUME NEW d \in Disputes PROVE LatestInv(d)'
    <3> DEFINE made == [by |-> request[r].by, amount |-> request[r].amount, at |-> now]
    <3>1. CASE d # request[r].d
      BY <3>1 DEF IInv, TypeOK, LatestInv
    <3>2. CASE d = request[r].d
      <4>1. made \in offers'[d] /\ latest'[d].by = made.by /\ latest'[d].amount = made.amount
        BY <3>2 DEF IInv, TypeOK
      <4>2. made.at < createdAt'[d] + Cap
        BY <3>2 DEF IInv, TypeOK, TooLate
      <4>3. QED BY <4>1, <4>2 DEF LatestInv
    <3>3. QED BY <3>1, <3>2
  <2>4. NegotiationStep(r) /\ RequestInv(r)'
    BY <1>0 DEF IInv, TypeOK, NegotiationStep, RequestInv
  <2>5. QED BY <2>1, <2>2, <2>3, <2>4, NegotiationInv
<1>4. CASE CommitTotalRequest(r)
  <2> USE <1>4 DEF CommitTotalRequest
  <2>1. TypeOK'
    BY <1>0 DEF IInv, TypeOK, NewExpiry
  <2>2. \A d \in Disputes : WindowInv(d)' /\ LatestInv(d)'
    BY <1>0 DEF IInv, TypeOK, WindowInv, LatestInv, NewExpiry
  <2>3. NegotiationStep(r) /\ RequestInv(r)'
    BY <1>0 DEF IInv, TypeOK, NegotiationStep, RequestInv
  <2>4. QED BY <2>1, <2>2, <2>3, NegotiationInv
<1>8. CASE AdminResolveDispute(r)
  <2> USE <1>8 DEF AdminResolveDispute
  <2>1. TypeOK'
    BY DEF IInv, TypeOK
  <2>2. \A d \in Disputes : WindowInv(d)' /\ LatestInv(d)'
    BY DEF IInv, WindowInv, LatestInv
  <2>3. NegotiationStep(r) /\ RequestInv(r)'
    BY DEF IInv, TypeOK, NegotiationStep, RequestInv
  <2>4. QED BY <2>1, <2>2, <2>3, NegotiationInv
<1>5. QED BY <1>1, <1>2, <1>3, <1>4, <1>6, <1>7, <1>8

(* The row lock of the vault: whoever is calling the contract holds it.    *)
LEMMA LockExcludes ==
  ASSUME IInv, NEW r \in Requests, lock \in {r, "free"}
  PROVE  \A s \in Requests : s # r => stage[s] \notin {"calling", "called"}
  BY DEF IInv, RequestInv

LEMMA PayoutTable ==
  /\ Payout("RELEASE") = "released"
  /\ Payout("REFUND") = "refunded"
  /\ Payout("SPLIT") = "settled"
  BY DEF Payout

LEMMA BeginInv ==
  ASSUME IInv, NEW r \in Requests, BeginResolve(r)
  PROVE  IInv'
<1> USE DEF BeginResolve, Go
<1>1. TypeOK'
  BY DEF IInv, TypeOK
<1>2. \A d \in Disputes : WindowInv(d)' /\ LatestInv(d)'
  BY DEF IInv, WindowInv, LatestInv
<1>3. ASSUME NEW s \in Requests PROVE RequestInv(s)'
  <2>1. CASE s = r
    BY <2>1 DEF IInv, TypeOK, RequestInv, Consented
  <2>2. CASE s # r
    <3>1. stage'[s] = stage[s] /\ stage[s] \notin {"calling", "called"}
      BY <2>2, LockExcludes DEF IInv, TypeOK, Free
    <3>2. QED BY <3>1 DEF IInv, RequestInv, Consented
  <2>3. QED BY <2>1, <2>2
<1>4. ASSUME NEW e \in ledger' PROVE EntryInv(e)'
  BY BookedEntriesStay DEF IInv, TypeOK, EntryInv
<1>5. /\ "VaultReleased" \in events' => chain' # "funded"
      /\ MediationConsented' /\ FullOutcomeOnce'
  BY DEF IInv, MediationConsented, Consented, FullOutcomeOnce
<1>6. QED BY <1>1, <1>2, <1>3, <1>4, <1>5 DEF IInv

(* The contract's answer.  It pays only from "funded", and then no full    *)
(* outcome has been booked yet: that is what CommitResolve relies on.      *)
LEMMA CallInv ==
  ASSUME IInv, NEW r \in Requests, CallContract(r)
  PROVE  IInv'
<1> DEFINE o == request[r].outcome
<1>0. /\ stage[r] = "calling" /\ lock = r
      /\ request[r].d \in Disputes /\ o \in Outcomes
      /\ UNCHANGED <<now, vault, disputeVars, ledger, request>>
  BY DEF CallContract, IInv, RequestInv, Go, Rollback
<1>1. \/ ContractPays(o)
      \/ UNCHANGED escrowVars
  BY DEF CallContract
<1>2. \/ /\ Go(r, "called") /\ lock' = lock
         /\ ContractPays(o) \/ (UNCHANGED escrowVars /\ (chain = "none" \/ o = "SPLIT"))
      \/ Rollback(r)
  BY DEF CallContract
<1>3. chain # "funded" => chain' = chain
  BY <1>1 DEF ContractPays
<1>3a. ContractPays(o) => chain' = Payout(o) /\ chain' # "funded"
  BY <1>0, PayoutTable DEF ContractPays
<1>4. \A e \in ledger : chain = "funded" =>
         e.outcome \notin FullOutcomes /\ ~(e.src = "listener" /\ e.type = "RELEASE")
  BY PayoutTable DEF IInv, EntryInv, FullOutcomes
<1>5. TypeOK'
  <2>1. chain' \in {"none", "empty", "funded", "released", "refunded", "settled"}
    BY <1>0, <1>1, PayoutTable DEF ContractPays, IInv, TypeOK
  <2>2. events' \subseteq {"VaultReleased", "VaultRefunded"}
    <3>1. CASE ContractPays(o)
      <4>1. PICK n \in Notices(o) : events' = events \cup n
        BY <3>1 DEF ContractPays
      <4>2. Notices(o) \subseteq SUBSET {"VaultReleased", "VaultRefunded"}
        BY <1>0 DEF Notices
      <4>3. QED BY <4>1, <4>2 DEF IInv, TypeOK
    <3>2. QED BY <1>1, <3>1 DEF IInv, TypeOK
  <2>3. stage' \in [Requests -> {"new", "creating", "escalating", "proposing", "asking",
                                "accepting", "resolving", "calling", "called", "done"}]
        /\ lock' \in Requests \cup {"free"}
    BY <1>2 DEF Go, Rollback, IInv, TypeOK
  <2>4. QED BY <1>0, <2>1, <2>2, <2>3 DEF IInv, TypeOK
<1>6. \A d \in Disputes : WindowInv(d)' /\ LatestInv(d)'
  BY <1>0 DEF IInv, WindowInv, LatestInv
<1>7. ASSUME NEW s \in Requests PROVE RequestInv(s)'
  <2>1. CASE s = r /\ Rollback(r)
    BY <1>0, <2>1 DEF Rollback, Go, IInv, TypeOK, RequestInv
  <2>2. CASE /\ s = r /\ Go(r, "called") /\ lock' = lock
             /\ ContractPays(o) \/ (UNCHANGED escrowVars /\ (chain = "none" \/ o = "SPLIT"))
    <3>1. stage'[r] = "called"
      BY <2>2 DEF Go, IInv, TypeOK
    <3>3. chain' # "none" /\ o \in FullOutcomes =>
             /\ chain' = Payout(o)
             /\ \A e \in ledger : e.outcome \notin FullOutcomes
      BY <1>3a, <1>4, <2>2 DEF ContractPays
    <3>4. chain' # "none" /\ o = "RELEASE" =>
             \A e \in ledger : ~(e.src = "listener" /\ e.type = "RELEASE")
      BY <1>4, <2>2 DEF ContractPays
    <3>5. request[r].by = "admin" \/ Consented(request[r].d, request[r].by, request[r].amount)'
      BY <1>0 DEF IInv, RequestInv, Consented
    <3>6. o = "SPLIT" => request[r].amount > 0 /\ request[r].amount <= Total
      BY <1>0 DEF IInv, RequestInv
    <3>7. QED BY <1>0, <2>2, <3>1, <3>3, <3>4, <3>5, <3>6 DEF RequestInv
  <2>3. CASE s # r
    <3>1. stage'[s] = stage[s] /\ stage[s] \notin {"calling", "called"}
      BY <1>0, <1>2, <2>3, LockExcludes DEF Go, Rollback, IInv, TypeOK
    <3>2. QED BY <1>0, <3>1 DEF IInv, RequestInv, Consented
  <2>4. QED BY <1>2, <2>1, <2>2, <2>3
<1>8. ASSUME NEW e \in ledger' PROVE EntryInv(e)'
  <2>1. \A s \in Requests : stage[s] = "done" => stage'[s] = "done" /\ request'[s] = request[s]
    BY <1>0, <1>2 DEF Go, Rollback, IInv, TypeOK
  <2>2. e \in ledger /\ EntryInv(e)
    BY <1>0 DEF IInv
  <2>3. e.src # "listener" => stage'[e.src] = "done" /\ e \in Entries(e.src)'
    BY <2>1, <2>2, BookedEntriesStay
  <2>4. QED BY <1>3, <1>4, <2>2, <2>3 DEF EntryInv
<1>9. /\ "VaultReleased" \in events' => chain' # "funded"
      /\ MediationConsented' /\ FullOutcomeOnce'
  <2>1. "VaultReleased" \in events' => chain' # "funded"
    BY <1>1, <1>3, <1>3a DEF IInv
  <2>2. MediationConsented' /\ FullOutcomeOnce'
    BY <1>0, <1>1 DEF IInv, MediationConsented, Consented, FullOutcomeOnce, ContractPays
  <2>3. QED BY <2>1, <2>2
<1>10. QED BY <1>5, <1>6, <1>7, <1>8, <1>9 DEF IInv

\* What a resolution books.
LEMMA EntriesOf ==
  ASSUME IInv, NEW r \in Requests, request[r].outcome \in Outcomes
  PROVE  /\ request[r].outcome \in FullOutcomes
              => Entries(r) = {Entry(r, request[r].outcome, Total)}
         /\ \A e \in Entries(r) : e.src = r /\ e.outcome = request[r].outcome
  BY DEF Entries, Entry, FullOutcomes

LEMMA EntriesType ==
  ASSUME IInv, NEW r \in Requests, request[r].outcome \in Outcomes,
         request[r].outcome = "SPLIT" => request[r].amount <= Total
  PROVE  Entries(r) \subseteq [src : Requests \cup {"listener"},
                              outcome : Outcomes \cup {"none"},
                              type : {"RELEASE", "REFUND", "FEE"}, amount : Nat]
<1>1. CASE request[r].outcome = "SPLIT"
  <2> DEFINE s == Shares(Total, request[r].amount, Rate)
  <2>1. request[r].amount \in 0..Total
    BY <1>1 DEF IInv, TypeOK
  <2>2. s.freelancer \in Nat /\ s.client \in Nat /\ s.treasury \in Nat
    BY <2>1, RateRange, SharesAddUp, SMTT(20)
  <2> HIDE DEF s
  <2>3. Entries(r) = {Entry(r, "RELEASE", s.freelancer), Entry(r, "REFUND", s.client),
                      Entry(r, "FEE", s.treasury)}
    BY <1>1 DEF Entries, s
  <2>4. QED BY <1>1, <2>2, <2>3 DEF Entry
<1>2. CASE request[r].outcome # "SPLIT"
  BY <1>2 DEF Entries, Entry
<1>3. QED BY <1>1, <1>2

(* The commit of a resolution.                                             *)
LEMMA CommitInv ==
  ASSUME IInv, NEW r \in Requests, CommitResolve(r)
  PROVE  IInv'
<1> DEFINE q == request[r]
<1>0. /\ stage[r] = "called" /\ lock = r
      /\ q.d \in Disputes /\ q.outcome \in Outcomes
      /\ q.by = "admin" \/ Consented(q.d, q.by, q.amount)
      /\ q.outcome = "SPLIT" => q.amount <= Total
  BY DEF CommitResolve, IInv, RequestInv
<1>1. /\ UNCHANGED <<now, chain, events, createdAt, expiresAt, offers, latest, notified, request>>
      /\ ledger' = ledger \cup Entries(r)
      /\ lock' = "free"
      /\ stage' = [stage EXCEPT ![r] = "done"]
  BY DEF CommitResolve, Rollback, Go
<1>2. TypeOK'
  <2>1. ledger' \subseteq [src : Requests \cup {"listener"},
                          outcome : Outcomes \cup {"none"},
                          type : {"RELEASE", "REFUND", "FEE"}, amount : Nat]
    BY <1>0, <1>1, EntriesType DEF IInv, TypeOK
  <2>2. dispute' \in [Disputes -> Statuses \cup {"none"}] /\ vault' \in VaultStatuses
    BY <1>0 DEF CommitResolve, IInv, TypeOK
  <2>3. resolution' \in [Disputes -> [type : {"none", "MEDIATION", "ARBITRATION"},
                                     by : Parties \cup {"admin", "nobody"},
                                     outcome : Outcomes \cup {"none"}, amount : Nat]]
    BY <1>0 DEF CommitResolve, IInv, TypeOK
  <2>4. QED BY <1>1, <2>1, <2>2, <2>3 DEF IInv, TypeOK
<1>3. \A d \in Disputes : WindowInv(d)' /\ LatestInv(d)'
  BY <1>1 DEF IInv, WindowInv, LatestInv
<1>4. ASSUME NEW s \in Requests PROVE RequestInv(s)'
  <2>1. CASE s = r
    BY <1>0, <1>1, <2>1 DEF RequestInv, IInv, TypeOK
  <2>2. CASE s # r
    <3>1. stage'[s] = stage[s] /\ stage[s] \notin {"calling", "called"}
      BY <1>0, <1>1, <2>2, LockExcludes DEF IInv, TypeOK
    <3>2. QED BY <1>1, <3>1 DEF IInv, RequestInv, Consented
  <2>3. QED BY <2>1, <2>2
<1>5. ASSUME NEW e \in ledger' PROVE EntryInv(e)'
  <2>1. CASE e \in ledger
    <3>1. \A s \in Requests : stage[s] = "done" => stage'[s] = "done" /\ request'[s] = request[s]
      BY <1>1 DEF IInv, TypeOK
    <3>2. e.src # "listener" => stage'[e.src] = "done" /\ e \in Entries(e.src)'
      BY <2>1, <3>1, BookedEntriesStay
    <3>3. QED BY <1>1, <2>1, <3>2 DEF IInv, EntryInv
  <2>2. CASE e \in Entries(r)
    <3>1. e.src = r /\ e.outcome = q.outcome
      BY <1>0, <2>2, EntriesOf
    <3>2. Entries(r)' = Entries(r)
      BY <1>1, EntriesStay
    <3>3. stage'[r] = "done"
      BY <1>1 DEF IInv, TypeOK
    <3>4. q.outcome \in FullOutcomes /\ chain # "none" => chain = Payout(q.outcome)
      BY <1>0 DEF IInv, RequestInv
    <3>5. QED BY <1>1, <2>2, <3>1, <3>2, <3>3, <3>4 DEF EntryInv
  <2>3. QED BY <1>1, <2>1, <2>2
<1>6. MediationConsented'
  BY <1>0, <1>1 DEF CommitResolve, IInv, TypeOK, MediationConsented, Consented
<1>7. FullOutcomeOnce'
  <2> SUFFICES ASSUME chain # "none"
               PROVE  FullOutcomeOnce'
    BY <1>1 DEF FullOutcomeOnce
  <2>1. q.outcome \in FullOutcomes => \A e \in ledger : e.outcome \notin FullOutcomes
    BY <1>0 DEF IInv, RequestInv
  <2>2. q.outcome = "RELEASE" => \A e \in ledger : ~(e.src = "listener" /\ e.type = "RELEASE")
    BY <1>0 DEF IInv, RequestInv
  <2>3. ASSUME NEW e \in ledger', NEW f \in ledger',
               {e.outcome, f.outcome} \subseteq FullOutcomes
        PROVE  e = f
    BY <1>0, <1>1, <2>1, <2>3, EntriesOf DEF IInv, FullOutcomeOnce, FullOutcomes
  <2>4. ASSUME NEW e \in ledger', NEW f \in ledger',
               e.outcome = "RELEASE", f.src = "listener"
        PROVE  f.type # "RELEASE"
    BY <1>0, <1>1, <2>2, <2>4, EntriesOf DEF IInv, FullOutcomeOnce
  <2>5. QED BY <2>3, <2>4 DEF FullOutcomeOnce, FullOutcomes
<1>8. "VaultReleased" \in events' => chain' # "funded"
  BY <1>0, <1>1 DEF IInv
<1>9. QED BY <1>2, <1>3, <1>4, <1>5, <1>6, <1>7, <1>8 DEF IInv

(* The listener.  It takes the row lock for a release, so no resolution is *)
(* between its contract call and its commit; what it adds for a refund     *)
(* nobody relies on.                                                       *)
LEMMA ListenerInv ==
  ASSUME IInv, HandleVaultReleased \/ HandleVaultRefunded
  PROVE  IInv'
<1>0. \A e \in ledger : e.outcome = "RELEASE" => e.type = "RELEASE"
  <2> SUFFICES ASSUME NEW e \in ledger, e.outcome = "RELEASE"
               PROVE  e.type = "RELEASE"
    OBVIOUS
  <2>1. e.src \in Requests /\ e \in Entries(e.src)
    BY DEF IInv, TypeOK, EntryInv
  <2>2. QED BY <2>1 DEF Entries, Entry
<1>1. CASE HandleVaultReleased
  <2> USE <1>1 DEF HandleVaultReleased
  <2>0. \A e \in ledger' : \/ e \in ledger
                          \/ /\ e = Synced("RELEASE")
                             /\ \A f \in ledger : f.type # "RELEASE"
    OBVIOUS
  <2>1. TypeOK'
    BY DEF IInv, TypeOK, Synced
  <2>2. \A d \in Disputes : WindowInv(d)' /\ LatestInv(d)'
    BY DEF IInv, WindowInv, LatestInv
  <2>3. ASSUME NEW s \in Requests PROVE RequestInv(s)'
    <3>1. stage[s] \notin {"calling", "called"}
      BY DEF IInv, RequestInv, Free
    <3>2. QED BY <3>1 DEF IInv, RequestInv, Consented
  <2>4. ASSUME NEW e \in ledger' PROVE EntryInv(e)'
    <3>1. CASE e \in ledger
      BY <3>1, BookedEntriesStay DEF IInv, EntryInv
    <3>2. CASE e = Synced("RELEASE")
      BY <3>2 DEF IInv, EntryInv, Synced, FullOutcomes
    <3>3. QED BY <2>0, <3>1, <3>2
  <2>5. FullOutcomeOnce'
    <3> SUFFICES ASSUME chain # "none"
                 PROVE  FullOutcomeOnce'
      BY DEF FullOutcomeOnce
    <3>1. \A e, f \in ledger : {e.outcome, f.outcome} \subseteq FullOutcomes => e = f
      BY DEF IInv, FullOutcomeOnce, FullOutcomes
    <3>2. ASSUME NEW e \in ledger', NEW f \in ledger',
                 {e.outcome, f.outcome} \subseteq FullOutcomes
          PROVE  e = f
      BY <2>0, <3>1, <3>2 DEF Synced, FullOutcomes
    <3>3. ASSUME NEW e \in ledger', NEW f \in ledger', e.outcome = "RELEASE", f.src = "listener"
          PROVE  f.type # "RELEASE"
      <4>1. e \in ledger /\ e.type = "RELEASE"
        BY <1>0, <2>0, <3>3 DEF Synced
      <4>2. f \in ledger
        BY <2>0, <4>1
      <4>3. QED BY <3>3, <4>1, <4>2 DEF IInv, FullOutcomeOnce
    <3>4. QED BY <3>2, <3>3 DEF FullOutcomeOnce, FullOutcomes
  <2>6. /\ "VaultReleased" \in events' => chain' # "funded"
        /\ MediationConsented'
    BY DEF IInv, MediationConsented, Consented
  <2>7. QED BY <2>1, <2>2, <2>3, <2>4, <2>5, <2>6 DEF IInv
<1>2. CASE HandleVaultRefunded
  <2> USE <1>2 DEF HandleVaultRefunded
  <2>0. \A e \in ledger' : e \in ledger \/ e = Synced("REFUND")
    OBVIOUS
  <2>1. TypeOK'
    BY DEF IInv, TypeOK, Synced
  <2>2. \A d \in Disputes : WindowInv(d)' /\ LatestInv(d)'
    BY DEF IInv, WindowInv, LatestInv
  <2>3. ASSUME NEW s \in Requests PROVE RequestInv(s)'
    BY <2>0 DEF IInv, RequestInv, Consented, Synced, FullOutcomes
  <2>4. ASSUME NEW e \in ledger' PROVE EntryInv(e)'
    <3>1. CASE e \in ledger
      BY <3>1, BookedEntriesStay DEF IInv, EntryInv
    <3>2. CASE e = Synced("REFUND")
      BY <3>2 DEF EntryInv, Synced, FullOutcomes
    <3>3. QED BY <2>0, <3>1, <3>2
  <2>5. FullOutcomeOnce'
    BY <2>0 DEF IInv, FullOutcomeOnce, Synced
  <2>6. /\ "VaultReleased" \in events' => chain' # "funded"
        /\ MediationConsented'
    BY DEF IInv, MediationConsented, Consented
  <2>7. QED BY <2>1, <2>2, <2>3, <2>4, <2>5, <2>6 DEF IInv
<1>3. QED BY <1>1, <1>2

LEMMA IdleInv ==
  ASSUME IInv, Tick \/ UNCHANGED vars
  PROVE  IInv'
<1> USE DEF Tick, vars
<1>1. TypeOK'
  <2>1. now' \in Nat
    BY DEF IInv, TypeOK
  <2>2. UNCHANGED <<vault, lock, chain, events, dispute, createdAt, expiresAt, offers,
                    latest, notified, resolution, ledger, stage, request>>
    OBVIOUS
  <2>3. QED BY <2>1, <2>2 DEF IInv, TypeOK
<1>2. ASSUME NEW d \in Disputes PROVE WindowInv(d)' /\ LatestInv(d)'
  BY DEF IInv, TypeOK, WindowInv, LatestInv
<1>3. ASSUME NEW r \in Requests PROVE RequestInv(r)'
  BY DEF IInv, RequestInv, Consented
<1>4. ASSUME NEW e \in ledger' PROVE EntryInv(e)'
  BY BookedEntriesStay DEF IInv, EntryInv
<1>5. /\ "VaultReleased" \in events' => chain' # "funded"
      /\ MediationConsented' /\ FullOutcomeOnce'
  BY DEF IInv, MediationConsented, Consented, FullOutcomeOnce
<1>6. QED BY <1>1, <1>2, <1>3, <1>4, <1>5 DEF IInv

LEMMA NextInv == IInv /\ [Next]_vars => IInv'
<1> SUFFICES ASSUME IInv, [Next]_vars PROVE IInv'
  OBVIOUS
<1>1. CASE Tick \/ UNCHANGED vars
  BY <1>1, IdleInv
<1>2. CASE HandleVaultReleased \/ HandleVaultRefunded
  BY <1>2, ListenerInv
<1>3. ASSUME NEW r \in Requests,
             \/ ReadCreate(r) \/ ReadEscalate(r) \/ ReadInvestigate(r)
             \/ ReadOffer(r) \/ ReadAccept(r) \/ ReadAdminResolve(r)
      PROVE  IInv'
  BY <1>3, ReadsInv
<1>4. ASSUME NEW r \in Requests,
             \/ CommitCreate(r) \/ CommitUnderReview(r) \/ CommitProposal(r)
             \/ CommitTotalRequest(r) \/ LateOffer(r) \/ ReadForResolve(r)
             \/ AdminResolveDispute(r)
      PROVE  IInv'
  BY <1>4, CommitsInv
<1>5. ASSUME NEW r \in Requests, BeginResolve(r) \/ CallContract(r) \/ CommitResolve(r)
      PROVE  IInv'
  BY <1>5, BeginInv, CallInv, CommitInv
<1>6. QED BY <1>1, <1>2, <1>3, <1>4, <1>5 DEF Next

LEMMA Invariance == Spec => []IInv
  BY InitInv, NextInv, PTL DEF Spec

(* Every variable stays in its type.                                       *)
THEOREM TypeCorrect == Spec => []TypeOK
<1>1. IInv => TypeOK
  BY DEF IInv
<1>2. QED BY Invariance, <1>1, PTL

(* A mediated settlement is one the other party offered in time            *)
(* (proposeSettlement, acceptSettlement), whatever is offered meanwhile.   *)
THEOREM MediationIsConsented == Spec => []MediationConsented
<1>1. IInv => MediationConsented
  BY DEF IInv
<1>2. QED BY Invariance, <1>1, PTL

(* Of a vault with a contract resolve books a full release or refund once, *)
(* over all disputes and all requests that race for them, and a full       *)
(* release not beside the listener's own RELEASE entry.                    *)
THEOREM FullOutcomeBookedOnce == Spec => []FullOutcomeOnce
<1>1. IInv => FullOutcomeOnce
  BY DEF IInv
<1>2. QED BY Invariance, <1>1, PTL

(* A settlement between the parties leaves both of them their share, and   *)
(* the treasury its percentage, whatever was offered before or meanwhile.  *)
THEOREM MediationLeavesBoth ==
  Spec => [](\A d \in Disputes : resolution[d].type = "MEDIATION" =>
               LET s == Shares(Total, resolution[d].amount, Rate) IN
                 /\ 10 * s.client >= Total
                 /\ 20 * s.freelancer >= 19 * (Total \div 10)
                 /\ 20 * s.treasury <= resolution[d].amount)
<1>1. IInv => \A d \in Disputes : resolution[d].type = "MEDIATION" =>
                LET s == Shares(Total, resolution[d].amount, Rate) IN
                  /\ 10 * s.client >= Total
                  /\ 20 * s.freelancer >= 19 * (Total \div 10)
                  /\ 20 * s.treasury <= resolution[d].amount
  <2> SUFFICES ASSUME IInv, NEW d \in Disputes, resolution[d].type = "MEDIATION"
               PROVE  LET s == Shares(Total, resolution[d].amount, Rate) IN
                        /\ 10 * s.client >= Total
                        /\ 20 * s.freelancer >= 19 * (Total \div 10)
                        /\ 20 * s.treasury <= resolution[d].amount
    OBVIOUS
  <2>1. resolution[d].amount \in Nat
    BY DEF IInv, TypeOK
  <2>2. NegotiableSplit(Total, resolution[d].amount)
    BY DEF IInv, MediationConsented, Consented
  <2>3. QED BY <2>1, <2>2, RateRange, BothKeepAShare
<1>2. QED BY Invariance, <1>1, PTL

(* A full release or refund that resolve has booked is the one the         *)
(* contract has paid, whatever was rolled back after it had been mined.    *)
THEOREM FullOutcomeIsPaid == Spec => []FullOutcomePaid
<1>1. IInv => FullOutcomePaid
  BY DEF IInv, EntryInv, FullOutcomePaid
<1>2. QED BY Invariance, <1>1, PTL

(* The three entries resolve books for a split are the vault's amount.     *)
THEOREM SplitIsConserved == Spec => []SplitConserves
<1>1. IInv => SplitConserves
  <2> SUFFICES ASSUME IInv, NEW e \in ledger, NEW f \in ledger, NEW g \in ledger,
                      e.src = f.src, f.src = g.src, e.src # "listener",
                      e.type = "RELEASE", f.type = "REFUND", g.type = "FEE"
               PROVE  e.amount + f.amount + g.amount = Total
    BY DEF SplitConserves
  <2> DEFINE r == e.src
             s == Shares(Total, request[r].amount, Rate)
  <2>1. r \in Requests /\ {e, f, g} \subseteq Entries(r)
    BY DEF IInv, TypeOK, EntryInv
  <2>2. request[r].outcome \in Outcomes \cup {"none"} /\ request[r].amount \in Nat
    BY <2>1 DEF IInv, TypeOK
  <2>3. request[r].outcome = "SPLIT"
    BY <2>1, <2>2 DEF Entries, Entry
  <2>4. /\ e.amount = s.freelancer
        /\ f.amount = s.client
        /\ g.amount = s.treasury
    BY <2>1, <2>3 DEF Entries, Entry
  <2>5. e.amount \in Nat /\ f.amount \in Nat /\ g.amount \in Nat
    BY DEF IInv, TypeOK
  <2>6. s.freelancer + s.client + s.treasury = Total
    BY <2>2, RateRange DEF Shares
  <2>7. QED BY <2>4, <2>6
<1>2. QED BY Invariance, <1>1, PTL

(* The window only moves forward, and never past 96 hours.                 *)
THEOREM WindowExtends == Spec => WindowOnlyExtends
<1>1. IInv /\ [Next]_vars => [WindowStep]_vars
  <2> SUFFICES ASSUME IInv, [Next]_vars, NEW d \in Disputes, dispute[d] # "none"
               PROVE  expiresAt'[d] >= expiresAt[d] /\ expiresAt'[d] <= createdAt[d] + Cap
    BY DEF WindowStep
  <2>0. /\ expiresAt[d] \in Nat /\ createdAt[d] \in Nat /\ now \in Nat
        /\ expiresAt[d] <= now + Window /\ expiresAt[d] <= createdAt[d] + Cap
    BY DEF IInv, TypeOK, WindowInv
  <2>1. CASE expiresAt' = expiresAt
    BY <2>0, <2>1
  <2>2. ASSUME NEW r \in Requests, CommitCreate(r)
        PROVE  expiresAt'[d] = expiresAt[d]
    BY <2>2 DEF CommitCreate, IInv, TypeOK
  <2>3. ASSUME NEW r \in Requests, CommitProposal(r) \/ CommitTotalRequest(r)
        PROVE  expiresAt'[d] >= expiresAt[d] /\ expiresAt'[d] <= createdAt[d] + Cap
    <3>1. expiresAt' = [expiresAt EXCEPT ![request[r].d] = NewExpiry(request[r].d)]
      BY <2>3 DEF CommitProposal, CommitTotalRequest
    <3>2. CASE d # request[r].d
      BY <2>0, <3>1, <3>2 DEF IInv, TypeOK
    <3>3. CASE d = request[r].d
      <4>1. expiresAt'[d] = NewExpiry(d)
        BY <3>1, <3>3 DEF IInv, TypeOK
      <4>2. QED BY <2>0, <4>1 DEF NewExpiry
    <3>4. QED BY <3>2, <3>3
  <2>4. \/ expiresAt' = expiresAt
        \/ \E r \in Requests : CommitCreate(r) \/ CommitProposal(r) \/ CommitTotalRequest(r)
    <3>1. ASSUME NEW r \in Requests,
                 \/ ReadCreate(r) \/ ReadEscalate(r) \/ ReadInvestigate(r) \/ ReadOffer(r)
                 \/ ReadAccept(r) \/ ReadForResolve(r) \/ ReadAdminResolve(r)
          PROVE  expiresAt' = expiresAt
      BY <3>1 DEF Read, ReadCreate, ReadEscalate, ReadInvestigate, ReadOffer, ReadAccept,
                  ReadForResolve, ReadAdminResolve
    <3>2. ASSUME NEW r \in Requests,
                 \/ CommitUnderReview(r) \/ LateOffer(r) \/ BeginResolve(r)
                 \/ CallContract(r) \/ CommitResolve(r) \/ AdminResolveDispute(r)
          PROVE  expiresAt' = expiresAt
      BY <3>2 DEF CommitUnderReview, LateOffer, BeginResolve, CallContract, CommitResolve,
                  AdminResolveDispute
    <3>3. CASE Tick \/ HandleVaultReleased \/ HandleVaultRefunded \/ UNCHANGED vars
      BY <3>3 DEF Tick, HandleVaultReleased, HandleVaultRefunded, vars
    <3>4. QED BY <3>1, <3>2, <3>3 DEF Next
  <2>5. QED BY <2>0, <2>1, <2>2, <2>3, <2>4
<1>2. QED BY Invariance, <1>1, PTL DEF Spec, WindowOnlyExtends
=============================================================================
