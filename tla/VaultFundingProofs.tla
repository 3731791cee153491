--------------------------- MODULE VaultFundingProofs ---------------------------
(***************************************************************************)
(* The safety properties of VaultFunding, for any number of requests,      *)
(* webhook deliveries, ramps and invited freelancers.                      *)
(***************************************************************************)
EXTENDS VaultFunding, TLAPS

USE FundingConstants
    DEF Stages, Booking, Bridging, InTransaction, Free, Go, Return, Release, Paid,
        vaultVars, ledgerVars, chainVars, localVars

(* What the provider has received stays received.                          *)
LEMMA PaidStays ==
  ASSUME TypeOK, [Next]_vars
  PROVE  Paid \subseteq Paid'
<1> USE DEF TypeOK
<1>1. ASSUME NEW r \in Requests, Fund(r) PROVE Paid \subseteq Paid'
  BY <1>1 DEF Fund, ReadForRamp, CreateRamp, WriteAwaiting, StartCollection, FindEntry, WriteEntry
<1>2. ASSUME NEW r \in Requests, Webhook(r) PROVE Paid \subseteq Paid'
  BY <1>2 DEF Webhook, Lookup, BeginFund, FindLock, CommitFund, FindDeposit, Deposit,
              AttributeDeposit, SweepFee, WriteFailed, WriteFallback
<1>3. ASSUME NEW r \in Requests, Respond(r) \/ Throw(r) PROVE Paid \subseteq Paid'
  BY <1>3 DEF Respond, ReadInvite, WriteDecline, BeginAccept, FindOwnLock, CommitAccept, Throw
<1>4. CASE ProviderDecides
  BY <1>4 DEF ProviderDecides
<1>5. CASE PaymentWindowPasses \/ SelectExpired \/ ExpireVault
  BY <1>5 DEF PaymentWindowPasses, SelectExpired, ExpireVault
<1>6. CASE HearDeposited \/ MarkDeposited \/ Crash \/ UNCHANGED vars
  BY <1>6 DEF HearDeposited, MarkDeposited, Crash, vars
<1>7. QED BY <1>1, <1>2, <1>3, <1>4, <1>5, <1>6 DEF Next, Background

LEMMA InitInv == Init => IInv
<1> SUFFICES ASSUME Init PROVE IInv
  OBVIOUS
<1> USE DEF Init
<1>1. TypeOK
  BY DEF TypeOK
<1>2. \A r \in Requests : RequestInv(r)
  BY DEF RequestInv
<1>3. MoneyInv /\ PaidFirst /\ LockOnce /\ AwaitingIsPayable
  BY DEF MoneyInv, PaidFirst, LockOnce, AwaitingIsPayable
<1>4. QED BY <1>1, <1>2, <1>3 DEF IInv

(* The client's requests: they learn of ramps but book nothing.            *)
LEMMA FundInv ==
  ASSUME IInv, NEW r \in Requests, Fund(r)
  PROVE  IInv'
<1> USE DEF IInv
<1>0. Paid \subseteq Paid'
  BY PaidStays DEF Next
<1>1. CASE ReadForRamp(r)
  <2> USE <1>1 DEF ReadForRamp
  <2>1. TypeOK'
    BY DEF TypeOK
  <2>2. \A s \in Requests : RequestInv(s)'
    BY DEF TypeOK, RequestInv
  <2>3. MoneyInv'
    BY <1>0 DEF TypeOK, MoneyInv, RequestInv
  <2>4. PaidFirst'
    BY <1>0 DEF TypeOK, PaidFirst, RequestInv, MoneyInv
  <2>5. LockOnce' /\ AwaitingIsPayable'
    BY DEF TypeOK, RequestInv, MoneyInv, LockOnce, AwaitingIsPayable
  <2>6. QED BY <2>1, <2>2, <2>3, <2>4, <2>5 DEF IInv
<1>2. CASE CreateRamp(r)
  <2> USE <1>2 DEF CreateRamp
  <2>1. TypeOK'
    BY DEF TypeOK
  <2>2. \A s \in Requests : RequestInv(s)'
    BY DEF TypeOK, RequestInv
  <2>3. MoneyInv'
    BY <1>0 DEF TypeOK, MoneyInv, RequestInv
  <2>4. PaidFirst'
    BY <1>0 DEF TypeOK, PaidFirst, RequestInv, MoneyInv
  <2>5. LockOnce' /\ AwaitingIsPayable'
    BY DEF TypeOK, RequestInv, MoneyInv, LockOnce, AwaitingIsPayable
  <2>6. QED BY <2>1, <2>2, <2>3, <2>4, <2>5 DEF IInv
<1>3. CASE WriteAwaiting(r)
  <2> USE <1>3 DEF WriteAwaiting
  <2>1. TypeOK'
    BY DEF TypeOK
  <2>2. \A s \in Requests : RequestInv(s)'
    BY DEF TypeOK, RequestInv
  <2>3. MoneyInv'
    BY <1>0 DEF TypeOK, MoneyInv, RequestInv
  <2>4. PaidFirst'
    BY <1>0 DEF TypeOK, PaidFirst, RequestInv, MoneyInv
  <2>5. LockOnce' /\ AwaitingIsPayable'
    BY DEF TypeOK, RequestInv, MoneyInv, LockOnce, AwaitingIsPayable
  <2>6. QED BY <2>1, <2>2, <2>3, <2>4, <2>5 DEF IInv
<1>4. CASE StartCollection(r)
  <2> USE <1>4 DEF StartCollection
  <2>1. TypeOK'
    BY DEF TypeOK
  <2>2. \A s \in Requests : RequestInv(s)'
    BY DEF TypeOK, RequestInv
  <2>3. MoneyInv'
    BY <1>0 DEF TypeOK, MoneyInv, RequestInv
  <2>4. PaidFirst'
    BY <1>0 DEF TypeOK, PaidFirst, RequestInv, MoneyInv
  <2>5. LockOnce' /\ AwaitingIsPayable'
    BY DEF TypeOK, RequestInv, MoneyInv, LockOnce, AwaitingIsPayable
  <2>6. QED BY <2>1, <2>2, <2>3, <2>4, <2>5 DEF IInv
<1>5. CASE FindEntry(r)
  <2> USE <1>5 DEF FindEntry
  <2>1. TypeOK'
    BY DEF TypeOK
  <2>2. \A s \in Requests : RequestInv(s)'
    BY DEF TypeOK, RequestInv
  <2>3. MoneyInv'
    BY <1>0 DEF TypeOK, MoneyInv, RequestInv
  <2>4. PaidFirst'
    BY <1>0 DEF TypeOK, PaidFirst, RequestInv, MoneyInv
  <2>5. LockOnce' /\ AwaitingIsPayable'
    BY DEF TypeOK, RequestInv, MoneyInv, LockOnce, AwaitingIsPayable
  <2>6. QED BY <2>1, <2>2, <2>3, <2>4, <2>5 DEF IInv
<1>6. CASE WriteEntry(r)
  <2> USE <1>6 DEF WriteEntry
  <2>1. TypeOK'
    BY DEF TypeOK
  <2>2. \A s \in Requests : RequestInv(s)'
    BY DEF TypeOK, RequestInv
  <2>3. MoneyInv'
    BY <1>0 DEF TypeOK, MoneyInv, RequestInv
  <2>4. PaidFirst'
    BY <1>0 DEF TypeOK, PaidFirst, RequestInv, MoneyInv
  <2>5. LockOnce' /\ AwaitingIsPayable'
    BY DEF TypeOK, RequestInv, MoneyInv, LockOnce, AwaitingIsPayable
  <2>6. QED BY <2>1, <2>2, <2>3, <2>4, <2>5 DEF IInv
<1>7. QED BY <1>1, <1>2, <1>3, <1>4, <1>5, <1>6 DEF Fund

(* The webhook: it books for a paid ramp, while it holds the row, and only  *)
(* then deposits.                                                           *)
LEMMA WebhookInv ==
  ASSUME IInv, NEW r \in Requests, Webhook(r)
  PROVE  IInv'
<1> USE DEF IInv
<1>0. Paid \subseteq Paid'
  BY PaidStays DEF Next
<1>1. CASE Lookup(r)
  <2> USE <1>1 DEF Lookup
  <2>1. TypeOK'
    BY DEF TypeOK
  <2>2. \A s \in Requests : RequestInv(s)'
    BY DEF TypeOK, RequestInv
  <2>3. MoneyInv'
    BY <1>0 DEF TypeOK, MoneyInv, RequestInv
  <2>4. PaidFirst'
    BY <1>0 DEF TypeOK, PaidFirst, RequestInv, MoneyInv
  <2>5. LockOnce' /\ AwaitingIsPayable'
    BY DEF TypeOK, RequestInv, MoneyInv, LockOnce, AwaitingIsPayable
  <2>6. QED BY <2>1, <2>2, <2>3, <2>4, <2>5 DEF IInv
<1>2. CASE BeginFund(r)
  <2> USE <1>2 DEF BeginFund
  <2>1. TypeOK'
    BY DEF TypeOK
  <2>2. \A s \in Requests : RequestInv(s)'
    BY DEF TypeOK, RequestInv
  <2>3. MoneyInv'
    BY <1>0 DEF TypeOK, MoneyInv, RequestInv
  <2>4. PaidFirst'
    BY <1>0 DEF TypeOK, PaidFirst, RequestInv, MoneyInv
  <2>5. LockOnce' /\ AwaitingIsPayable'
    BY DEF TypeOK, RequestInv, MoneyInv, LockOnce, AwaitingIsPayable
  <2>6. QED BY <2>1, <2>2, <2>3, <2>4, <2>5 DEF IInv
<1>3. CASE FindLock(r)
  <2> USE <1>3 DEF FindLock
  <2>1. TypeOK'
    BY DEF TypeOK
  <2>2. \A s \in Requests : RequestInv(s)'
    <3> SUFFICES ASSUME NEW s \in Requests PROVE RequestInv(s)'
      OBVIOUS
    <3>1. CASE s # r
      BY <3>1 DEF TypeOK, RequestInv
    <3>2. CASE s = r
      <4>1. ~found'[r] /\ who[r] # "none" => ~(locks[who[r]] > 0)
        BY ZenonT(60) DEF TypeOK
      <4>2. who[r] # "none" /\ ~(locks[who[r]] > 0) => locks[who[r]] = 0
        BY DEF TypeOK
      <4>3. QED BY <3>2, <4>1, <4>2 DEF TypeOK, RequestInv
    <3>3. QED BY <3>1, <3>2
  <2>3. MoneyInv'
    BY <1>0 DEF TypeOK, MoneyInv, RequestInv
  <2>4. PaidFirst'
    BY <1>0 DEF TypeOK, PaidFirst, RequestInv, MoneyInv
  <2>5. LockOnce' /\ AwaitingIsPayable'
    BY DEF TypeOK, RequestInv, MoneyInv, LockOnce, AwaitingIsPayable
  <2>6. QED BY <2>1, <2>2, <2>3, <2>4, <2>5 DEF IInv
<1>4. CASE CommitFund(r)
  <2> USE <1>4 DEF CommitFund
  <2>1. TypeOK'
    BY DEF TypeOK
  <2>2. \A s \in Requests : RequestInv(s)'
    BY DEF TypeOK, RequestInv
  <2>3. MoneyInv'
    BY <1>0 DEF TypeOK, MoneyInv, RequestInv
  <2>4. PaidFirst'
    BY <1>0 DEF TypeOK, PaidFirst, RequestInv, MoneyInv
  <2>5. LockOnce' /\ AwaitingIsPayable'
    BY DEF TypeOK, RequestInv, MoneyInv, LockOnce, AwaitingIsPayable
  <2>6. QED BY <2>1, <2>2, <2>3, <2>4, <2>5 DEF IInv
<1>5. CASE Deposit(r)
  <2> USE <1>5 DEF Deposit
  <2>1. TypeOK'
    <3>1. heard' \in BOOLEAN
      BY DEF TypeOK
    <3>2. QED BY <3>1 DEF TypeOK
  <2>2. \A s \in Requests : RequestInv(s)'
    BY DEF TypeOK, RequestInv
  <2>3. MoneyInv'
    BY <1>0 DEF TypeOK, MoneyInv, RequestInv
  <2>4. PaidFirst'
    BY <1>0 DEF TypeOK, PaidFirst, RequestInv, MoneyInv
  <2>5. LockOnce' /\ AwaitingIsPayable'
    BY DEF TypeOK, RequestInv, MoneyInv, LockOnce, AwaitingIsPayable
  <2>6. QED BY <2>1, <2>2, <2>3, <2>4, <2>5 DEF IInv
<1>6. CASE AttributeDeposit(r)
  <2> USE <1>6 DEF AttributeDeposit
  <2>1. TypeOK'
    BY DEF TypeOK
  <2>2. \A s \in Requests : RequestInv(s)'
    BY DEF TypeOK, RequestInv
  <2>3. MoneyInv'
    BY <1>0 DEF TypeOK, MoneyInv, RequestInv
  <2>4. PaidFirst'
    BY <1>0 DEF TypeOK, PaidFirst, RequestInv, MoneyInv
  <2>5. LockOnce' /\ AwaitingIsPayable'
    BY DEF TypeOK, RequestInv, MoneyInv, LockOnce, AwaitingIsPayable
  <2>6. QED BY <2>1, <2>2, <2>3, <2>4, <2>5 DEF IInv
<1>7. CASE SweepFee(r)
  <2> USE <1>7 DEF SweepFee
  <2>1. TypeOK'
    BY DEF TypeOK
  <2>2. \A s \in Requests : RequestInv(s)'
    BY DEF TypeOK, RequestInv
  <2>3. MoneyInv'
    BY <1>0 DEF TypeOK, MoneyInv, RequestInv
  <2>4. PaidFirst'
    BY <1>0 DEF TypeOK, PaidFirst, RequestInv, MoneyInv
  <2>5. LockOnce' /\ AwaitingIsPayable'
    BY DEF TypeOK, RequestInv, MoneyInv, LockOnce, AwaitingIsPayable
  <2>6. QED BY <2>1, <2>2, <2>3, <2>4, <2>5 DEF IInv
<1>8. CASE WriteFailed(r)
  <2> USE <1>8 DEF WriteFailed
  <2>1. TypeOK'
    BY DEF TypeOK
  <2>2. \A s \in Requests : RequestInv(s)'
    BY DEF TypeOK, RequestInv
  <2>3. MoneyInv'
    BY <1>0 DEF TypeOK, MoneyInv, RequestInv
  <2>4. PaidFirst'
    BY <1>0 DEF TypeOK, PaidFirst, RequestInv, MoneyInv
  <2>5. LockOnce' /\ AwaitingIsPayable'
    BY DEF TypeOK, RequestInv, MoneyInv, LockOnce, AwaitingIsPayable
  <2>6. QED BY <2>1, <2>2, <2>3, <2>4, <2>5 DEF IInv
<1>9. CASE WriteFallback(r)
  <2> USE <1>9 DEF WriteFallback
  <2>1. TypeOK'
    BY DEF TypeOK
  <2>2. \A s \in Requests : RequestInv(s)'
    BY DEF TypeOK, RequestInv
  <2>3. MoneyInv'
    BY <1>0 DEF TypeOK, MoneyInv, RequestInv
  <2>4. PaidFirst'
    BY <1>0 DEF TypeOK, PaidFirst, RequestInv, MoneyInv
  <2>5. LockOnce' /\ AwaitingIsPayable'
    BY DEF TypeOK, RequestInv, MoneyInv, LockOnce, AwaitingIsPayable
  <2>6. QED BY <2>1, <2>2, <2>3, <2>4, <2>5 DEF IInv
<1>10. CASE FindDeposit(r)
  <2> USE <1>10 DEF FindDeposit
  <2>1. TypeOK'
    <3>1. heard' \in BOOLEAN
      BY DEF TypeOK
    <3>2. QED BY <3>1 DEF TypeOK
  <2>2. \A s \in Requests : RequestInv(s)'
    BY DEF TypeOK, RequestInv
  <2>3. MoneyInv'
    BY <1>0 DEF TypeOK, MoneyInv, RequestInv
  <2>4. PaidFirst'
    BY <1>0 DEF TypeOK, PaidFirst, RequestInv, MoneyInv
  <2>5. LockOnce' /\ AwaitingIsPayable'
    BY DEF TypeOK, RequestInv, MoneyInv, LockOnce, AwaitingIsPayable
  <2>6. QED BY <2>1, <2>2, <2>3, <2>4, <2>5 DEF IInv
<1>11. QED BY <1>1, <1>2, <1>3, <1>4, <1>5, <1>6, <1>7, <1>8, <1>9, <1>10 DEF Webhook

(* The acceptance: its LOCK entry is the other one, under the same row lock. *)
LEMMA RespondInv ==
  ASSUME IInv, NEW r \in Requests, Respond(r)
  PROVE  IInv'
<1> USE DEF IInv
<1>0. Paid \subseteq Paid'
  BY PaidStays DEF Next
<1>1. CASE ReadInvite(r)
  <2> USE <1>1 DEF ReadInvite
  <2>1. TypeOK'
    BY DEF TypeOK
  <2>2. \A s \in Requests : RequestInv(s)'
    BY DEF TypeOK, RequestInv
  <2>3. MoneyInv'
    BY <1>0 DEF TypeOK, MoneyInv, RequestInv
  <2>4. PaidFirst'
    BY <1>0 DEF TypeOK, PaidFirst, RequestInv, MoneyInv
  <2>5. LockOnce' /\ AwaitingIsPayable'
    BY DEF TypeOK, RequestInv, MoneyInv, LockOnce, AwaitingIsPayable
  <2>6. QED BY <2>1, <2>2, <2>3, <2>4, <2>5 DEF IInv
<1>2. CASE WriteDecline(r)
  <2> USE <1>2 DEF WriteDecline
  <2>1. TypeOK'
    <3>1. invite' \in [Freelancers -> {"PENDING", "ACCEPTED", "DECLINED"}]
      BY DEF TypeOK
    <3>2. /\ stage' \in [Requests -> Stages]
          /\ about' \in [Requests -> Ramps \cup {"none"}]
          /\ who' \in [Requests -> Freelancers \cup {"none"}]
          /\ target' \in [Requests -> Requests \cup {"none"}]
          /\ found' \in [Requests -> BOOLEAN]
      <4> HIDE DEF WriteDecline
      <4>1. Return(r)
        BY DEF WriteDecline
      <4>2. QED BY <4>1 DEF TypeOK, Return, Go, Stages
    <3>3. QED BY <3>1, <3>2, SMTT(30) DEF TypeOK
  <2>2. \A s \in Requests : RequestInv(s)'
    BY DEF TypeOK, RequestInv
  <2>3. MoneyInv'
    BY <1>0 DEF TypeOK, MoneyInv, RequestInv
  <2>4. PaidFirst'
    BY <1>0 DEF TypeOK, PaidFirst, RequestInv, MoneyInv
  <2>5. LockOnce' /\ AwaitingIsPayable'
    BY DEF TypeOK, RequestInv, MoneyInv, LockOnce, AwaitingIsPayable
  <2>6. QED BY <2>1, <2>2, <2>3, <2>4, <2>5 DEF IInv
<1>3. CASE BeginAccept(r)
  <2> USE <1>3 DEF BeginAccept
  <2>1. TypeOK'
    BY DEF TypeOK
  <2>2. \A s \in Requests : RequestInv(s)'
    BY DEF TypeOK, RequestInv
  <2>3. MoneyInv'
    BY <1>0 DEF TypeOK, MoneyInv, RequestInv
  <2>4. PaidFirst'
    BY <1>0 DEF TypeOK, PaidFirst, RequestInv, MoneyInv
  <2>5. LockOnce' /\ AwaitingIsPayable'
    BY DEF TypeOK, RequestInv, MoneyInv, LockOnce, AwaitingIsPayable
  <2>6. QED BY <2>1, <2>2, <2>3, <2>4, <2>5 DEF IInv
<1>4. CASE FindOwnLock(r)
  <2> USE <1>4 DEF FindOwnLock
  <2>1. TypeOK'
    BY DEF TypeOK
  <2>2. \A s \in Requests : RequestInv(s)'
    <3> SUFFICES ASSUME NEW s \in Requests PROVE RequestInv(s)'
      OBVIOUS
    <3>1. CASE s # r
      BY <3>1 DEF TypeOK, RequestInv
    <3>2. CASE s = r
      <4>1. ~found'[r] => ~(locks[who[r]] > 0)
        BY ZenonT(60) DEF TypeOK
      <4>2. who[r] # "none" /\ ~(locks[who[r]] > 0) => locks[who[r]] = 0
        BY DEF TypeOK
      <4>3. QED BY <3>2, <4>1, <4>2 DEF TypeOK, RequestInv
    <3>3. QED BY <3>1, <3>2
  <2>3. MoneyInv'
    BY <1>0 DEF TypeOK, MoneyInv, RequestInv
  <2>4. PaidFirst'
    BY <1>0 DEF TypeOK, PaidFirst, RequestInv, MoneyInv
  <2>5. LockOnce' /\ AwaitingIsPayable'
    BY DEF TypeOK, RequestInv, MoneyInv, LockOnce, AwaitingIsPayable
  <2>6. QED BY <2>1, <2>2, <2>3, <2>4, <2>5 DEF IInv
<1>5. CASE CommitAccept(r)
  <2> USE <1>5 DEF CommitAccept
  <2>1. TypeOK'
    <3>1. locks' \in [Freelancers -> Nat] /\ who[r] \in Freelancers
      BY DEF TypeOK, RequestInv
    <3>2. QED BY <3>1 DEF TypeOK
  <2>2. \A s \in Requests : RequestInv(s)'
    BY DEF TypeOK, RequestInv
  <2>3. MoneyInv'
    BY <1>0 DEF TypeOK, MoneyInv, RequestInv
  <2>4. PaidFirst'
    BY <1>0 DEF TypeOK, PaidFirst, RequestInv, MoneyInv
  <2>5. LockOnce' /\ AwaitingIsPayable'
    BY DEF TypeOK, RequestInv, MoneyInv, LockOnce, AwaitingIsPayable
  <2>6. QED BY <2>1, <2>2, <2>3, <2>4, <2>5 DEF IInv
<1>6. QED BY <1>1, <1>2, <1>3, <1>4, <1>5 DEF Respond

(* A handler that throws gives its row lock back.                           *)
LEMMA ThrowInv ==
  ASSUME IInv, NEW r \in Requests, Throw(r)
  PROVE  IInv'
<1> USE DEF IInv, Throw
<1>0. Paid \subseteq Paid'
  BY PaidStays DEF Next
<1>1. TypeOK'
  BY DEF TypeOK
<1>2. \A s \in Requests : RequestInv(s)'
  BY DEF TypeOK, RequestInv
<1>3. MoneyInv' /\ PaidFirst'
  BY <1>0 DEF TypeOK, MoneyInv, PaidFirst
<1>4. LockOnce' /\ AwaitingIsPayable'
  BY DEF TypeOK, LockOnce, AwaitingIsPayable
<1>5. QED BY <1>1, <1>2, <1>3, <1>4

(* The provider, the expiry job, the listener, restarts and stuttering.    *)
LEMMA BackgroundInv ==
  ASSUME IInv, Background \/ UNCHANGED vars
  PROVE  IInv'
<1> USE DEF IInv
<1>0. Paid \subseteq Paid'
  BY PaidStays DEF Next
<1>1. CASE ProviderDecides
  <2> USE <1>1 DEF ProviderDecides
  <2>1. TypeOK'
    BY DEF TypeOK
  <2>2. \A s \in Requests : RequestInv(s)'
    <3>1. \A q \in Ramps : /\ ramp[q] # "none" => ramp'[q] # "none"
                          /\ ramp[q] = "paid" => ramp'[q] = "paid"
      BY DEF TypeOK
    <3>2. SUFFICES ASSUME NEW s \in Requests PROVE RequestInv(s)'
      OBVIOUS
    <3>3. about[s] # "none" => about[s] \in Ramps
      BY DEF TypeOK
    <3>4. UNCHANGED <<row, stage, about, who, found, locks, booked>>
      OBVIOUS
    <3>5. RequestInv(s)
      OBVIOUS
    <3>6. QED BY <3>1, <3>3, <3>4, <3>5 DEF RequestInv
  <2>3. MoneyInv'
    BY <1>0 DEF TypeOK, MoneyInv, RequestInv
  <2>4. PaidFirst'
    BY <1>0 DEF TypeOK, PaidFirst, RequestInv, MoneyInv
  <2>5. LockOnce' /\ AwaitingIsPayable'
    BY DEF TypeOK, RequestInv, MoneyInv, LockOnce, AwaitingIsPayable
  <2>6. QED BY <2>1, <2>2, <2>3, <2>4, <2>5 DEF IInv
<1>2. CASE PaymentWindowPasses
  <2> USE <1>2 DEF PaymentWindowPasses
  <2>1. TypeOK'
    BY DEF TypeOK
  <2>2. \A s \in Requests : RequestInv(s)'
    BY DEF TypeOK, RequestInv
  <2>3. MoneyInv'
    BY <1>0 DEF TypeOK, MoneyInv, RequestInv
  <2>4. PaidFirst'
    BY <1>0 DEF TypeOK, PaidFirst, RequestInv, MoneyInv
  <2>5. LockOnce' /\ AwaitingIsPayable'
    BY DEF TypeOK, RequestInv, MoneyInv, LockOnce, AwaitingIsPayable
  <2>6. QED BY <2>1, <2>2, <2>3, <2>4, <2>5 DEF IInv
<1>3. CASE SelectExpired
  <2> USE <1>3 DEF SelectExpired
  <2>1. TypeOK'
    BY DEF TypeOK
  <2>2. \A s \in Requests : RequestInv(s)'
    BY DEF TypeOK, RequestInv
  <2>3. MoneyInv'
    BY <1>0 DEF TypeOK, MoneyInv, RequestInv
  <2>4. PaidFirst'
    BY <1>0 DEF TypeOK, PaidFirst, RequestInv, MoneyInv
  <2>5. LockOnce' /\ AwaitingIsPayable'
    BY DEF TypeOK, RequestInv, MoneyInv, LockOnce, AwaitingIsPayable
  <2>6. QED BY <2>1, <2>2, <2>3, <2>4, <2>5 DEF IInv
<1>4. CASE ExpireVault
  <2> USE <1>4 DEF ExpireVault
  <2>1. TypeOK'
    BY DEF TypeOK
  <2>2. \A s \in Requests : RequestInv(s)'
    BY DEF TypeOK, RequestInv
  <2>3. MoneyInv'
    BY <1>0 DEF TypeOK, MoneyInv, RequestInv
  <2>4. PaidFirst'
    BY <1>0 DEF TypeOK, PaidFirst, RequestInv, MoneyInv
  <2>5. LockOnce' /\ AwaitingIsPayable'
    BY DEF TypeOK, RequestInv, MoneyInv, LockOnce, AwaitingIsPayable
  <2>6. QED BY <2>1, <2>2, <2>3, <2>4, <2>5 DEF IInv
<1>5. CASE HearDeposited
  <2> USE <1>5 DEF HearDeposited
  <2>1. TypeOK'
    BY DEF TypeOK
  <2>2. \A s \in Requests : RequestInv(s)'
    BY DEF TypeOK, RequestInv
  <2>3. MoneyInv'
    BY <1>0 DEF TypeOK, MoneyInv, RequestInv
  <2>4. PaidFirst'
    BY <1>0 DEF TypeOK, PaidFirst, RequestInv, MoneyInv
  <2>5. LockOnce' /\ AwaitingIsPayable'
    BY DEF TypeOK, RequestInv, MoneyInv, LockOnce, AwaitingIsPayable
  <2>6. QED BY <2>1, <2>2, <2>3, <2>4, <2>5 DEF IInv
<1>6. CASE MarkDeposited
  <2> USE <1>6 DEF MarkDeposited
  <2>1. TypeOK'
    BY DEF TypeOK
  <2>2. \A s \in Requests : RequestInv(s)'
    BY DEF TypeOK, RequestInv
  <2>3. MoneyInv'
    BY <1>0 DEF TypeOK, MoneyInv, RequestInv
  <2>4. PaidFirst'
    BY <1>0 DEF TypeOK, PaidFirst, RequestInv, MoneyInv
  <2>5. LockOnce' /\ AwaitingIsPayable'
    BY DEF TypeOK, RequestInv, MoneyInv, LockOnce, AwaitingIsPayable
  <2>6. QED BY <2>1, <2>2, <2>3, <2>4, <2>5 DEF IInv
<1>7. CASE Crash
  <2> USE <1>7 DEF Crash
  <2>1. TypeOK'
    BY DEF TypeOK
  <2>2. \A s \in Requests : RequestInv(s)'
    BY DEF TypeOK, RequestInv
  <2>3. MoneyInv'
    BY <1>0 DEF TypeOK, MoneyInv, RequestInv
  <2>4. PaidFirst'
    BY <1>0 DEF TypeOK, PaidFirst, RequestInv, MoneyInv
  <2>5. LockOnce' /\ AwaitingIsPayable'
    BY DEF TypeOK, RequestInv, MoneyInv, LockOnce, AwaitingIsPayable
  <2>6. QED BY <2>1, <2>2, <2>3, <2>4, <2>5 DEF IInv
<1>8. CASE UNCHANGED vars
  BY <1>8 DEF vars, TypeOK, RequestInv, MoneyInv, PaidFirst, LockOnce, AwaitingIsPayable
<1>9. QED BY <1>1, <1>2, <1>3, <1>4, <1>5, <1>6, <1>7, <1>8 DEF Background

LEMMA StepInv == IInv /\ [Next]_vars => IInv'
  BY FundInv, WebhookInv, RespondInv, ThrowInv, BackgroundInv DEF Next

THEOREM Invariance == Spec => []IInv
  BY InitInv, StepInv, PTL DEF Spec

(* TypeOK: all variables stay in their types.                              *)
THEOREM TypeCorrect == Spec => []TypeOK
  BY Invariance, PTL DEF IInv

(* PaidFirst: nothing is shown or collected that no client has paid.       *)
THEOREM PaidIsFirst == Spec => []PaidFirst
  BY Invariance, PTL DEF IInv

(* LockOnce: webhook deliveries and acceptances together add at most one   *)
(* LOCK entry per freelancer.                                              *)
THEOREM LockedOnce == Spec => []LockOnce
  BY Invariance, PTL DEF IInv

(* AwaitingIsPayable: a vault that awaits payment can be found by it.      *)
THEOREM AwaitingPayable == Spec => []AwaitingIsPayable
  BY Invariance, PTL DEF IInv

(* The stage of the money, and how a step may change it.                    *)
Money == IF chain = "funded" THEN "escrowed"
         ELSE IF booked THEN "booked"
         ELSE IF Paid # {} THEN "received" ELSE "none"
Stays == UNCHANGED <<chain, booked, Paid>>

LEMMA RequestsStay ==
  ASSUME TypeOK, NEW r \in Requests,
         Fund(r) \/ Respond(r) \/ Throw(r) \/ (Webhook(r) /\ ~CommitFund(r) /\ ~Deposit(r))
  PROVE  Stays
<1> USE DEF TypeOK, Stays
<1>1. CASE CreateRamp(r)
  BY <1>1 DEF CreateRamp
<1>2. CASE StartCollection(r)
  BY <1>2 DEF StartCollection
<1>3. CASE ReadForRamp(r) \/ WriteAwaiting(r) \/ FindEntry(r) \/ WriteEntry(r)
  BY <1>3 DEF ReadForRamp, WriteAwaiting, FindEntry, WriteEntry
<1>4. CASE Webhook(r) /\ ~CommitFund(r) /\ ~Deposit(r)
  BY <1>4 DEF Webhook, Lookup, BeginFund, FindLock, FindDeposit, AttributeDeposit, SweepFee, WriteFailed,
              WriteFallback
<1>5. CASE Respond(r) \/ Throw(r)
  BY <1>5 DEF Respond, ReadInvite, WriteDecline, BeginAccept, FindOwnLock, CommitAccept, Throw
<1>6. QED BY <1>1, <1>2, <1>3, <1>4, <1>5 DEF Fund

LEMMA MoneyMoves ==
  ASSUME IInv, [Next]_vars
  PROVE  \/ Money' = Money
         \/ Money = "none"     /\ Money' = "received"
         \/ Money = "received" /\ Money' = "booked"
         \/ Money = "booked"   /\ Money' = "escrowed"
<1> USE DEF IInv, MoneyInv
<1>1. CASE Stays
  BY <1>1 DEF Stays, Money
<1>2. ASSUME NEW r \in Requests, CommitFund(r) PROVE Paid # {} /\ booked' /\ UNCHANGED <<chain, Paid>>
  BY <1>2 DEF CommitFund, RequestInv, TypeOK
<1>3. ASSUME NEW r \in Requests, Deposit(r) PROVE booked /\ UNCHANGED <<booked, Paid>> /\ chain' \in {chain, "funded"}
  BY <1>3 DEF Deposit, RequestInv, TypeOK
<1>4. CASE ProviderDecides
  <2>1. Paid \subseteq Paid' /\ UNCHANGED <<chain, booked>>
    BY <1>4, PaidStays DEF ProviderDecides, Next, Background
  <2>2. QED BY <2>1 DEF Money
<1>5. CASE (Background /\ ~ProviderDecides) \/ UNCHANGED vars
  BY <1>5 DEF Background, PaymentWindowPasses, SelectExpired, ExpireVault, HearDeposited,
              MarkDeposited, Crash, vars, Stays, Money
<1>6. ASSUME NEW r \in Requests, CommitFund(r) \/ Deposit(r)
      PROVE  \/ Money' = Money
             \/ Money = "received" /\ Money' = "booked"
             \/ Money = "booked"   /\ Money' = "escrowed"
  BY <1>2, <1>3, <1>6 DEF Money
<1>7. QED BY <1>1, <1>4, <1>5, <1>6, RequestsStay DEF Next

(* ImplementsOrder: money goes from the client to the escrow by way of the  *)
(* provider's confirmation and the committed booking, and skips neither.    *)
THEOREM Refinement == Spec => ImplementsOrder
<1>1. Init => Order!Init
  BY DEF Init, Order!Init
<1>2. IInv /\ [Next]_vars
      => [Order!Next]_(IF chain = "funded" THEN "escrowed"
                       ELSE IF booked THEN "booked"
                       ELSE IF Paid # {} THEN "received" ELSE "none")
  BY MoneyMoves DEF Money, Order!Next
<1>3. QED BY <1>1, <1>2, Invariance, PTL DEF Spec, ImplementsOrder, Order!Spec
=============================================================================
