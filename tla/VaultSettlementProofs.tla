------------------------- MODULE VaultSettlementProofs -------------------------
(***************************************************************************)
(* The safety properties of VaultSettlement, for any number of requests,   *)
(* attempts and stalls and any combination of failures.                    *)
(***************************************************************************)
EXTENDS VaultSettlement, TLAPS

(* What every step of one request or job needs to see.                     *)
USE SettlementConstants
    DEF Settling, AllOps, Statuses, Stages, Running, Queued, Settled, InProgress,
        FailedStatus, Payout, jobVars, chainVars

(* The books never lose an entry: no step takes a credit back, and a       *)
(* request keeps its operation once it has one.                            *)
LEMMA BookedStays ==
  ASSUME IInv, [Next]_vars
  PROVE  \A o \in Settling : Booked(o) => Booked(o)'
<1> SUFFICES ASSUME NEW o \in Settling, Booked(o)
             PROVE  Booked(o)'
  OBVIOUS
<1> USE DEF IInv, TypeOK, StageInv, Booked
<1>1. ASSUME NEW r \in Requests, Handler(r) PROVE Booked(o)'
  BY <1>1 DEF Handler, Accept, ReadForRelease, ReadForRefund, ReadForRequestRelease, ReadForSubmit
<1>2. ASSUME NEW r \in Requests, Finish(r) PROVE Booked(o)'
  BY <1>2 DEF Finish, Write, Enqueue, MarkReleasing, MarkRefunding,
              WriteRequestRelease, WriteSubmit, EnqueueRelease, EnqueueRefund
<1>3. ASSUME NEW r \in Requests, Process(r) PROVE Booked(o)'
  BY <1>3 DEF Process, Move, TakeJob, CommitRelease, CommitRefund, CommitThrows,
              PayRelease, PayRefund, CallContract, CompleteJob, CatchRelease, CatchRefund, RetryJob
<1>4. CASE \/ HandleVaultReleased \/ HandleVaultRefunded \/ UpdateStatus
           \/ DeployVault \/ DepositToVault \/ Crash \/ UNCHANGED vars
  BY <1>4 DEF HandleVaultReleased, HandleVaultRefunded, UpdateStatus, DeployVault,
              DepositToVault, Crash, vars
<1>5. QED BY <1>1, <1>2, <1>3, <1>4 DEF Next

LEMMA InitInv == Init => IInv
  BY DEF Init, IInv, TypeOK, StageInv, PayoutBooked, StatusBooked, SingleSuccess, Executed,
         ListenerAddsNothing, Booked

(* The handlers: they read, they write a status that needs no entry, they  *)
(* queue a job that has not run.                                           *)
LEMMA HandlerInv ==
  ASSUME IInv, NEW r \in Requests, Handler(r)
  PROVE  IInv'
<1>1. PICK o \in Ops : Accept(r, o)
  BY DEF Handler, Accept, ReadForRelease, ReadForRefund, ReadForRequestRelease, ReadForSubmit
<1>2. QED
  BY <1>1 DEF Accept, IInv, TypeOK, StageInv, PayoutBooked, StatusBooked,
              SingleSuccess, Executed, ListenerAddsNothing, Booked

LEMMA FinishInv ==
  ASSUME IInv, NEW r \in Requests, Finish(r)
  PROVE  IInv'
<1>0. \A o \in Settling : Booked(o) => Booked(o)'
  BY BookedStays DEF Next
<1>1. CASE MarkReleasing(r) \/ MarkRefunding(r)
  <2> USE <1>1 DEF MarkReleasing, MarkRefunding, Write
  <2>1. TypeOK'
    BY DEF IInv, TypeOK
  <2>2. \A s \in Requests : StageInv(s)'
    BY DEF IInv, TypeOK, StageInv
  <2>3. PayoutBooked' /\ StatusBooked'
    BY <1>0 DEF IInv, TypeOK, PayoutBooked, StatusBooked
  <2>4. SingleSuccess'
    BY DEF IInv, TypeOK, StageInv, SingleSuccess, Executed
  <2>5. ListenerAddsNothing' /\ (\A e \in events : chain = e)'
    BY DEF IInv, ListenerAddsNothing
  <2>6. QED BY <2>1, <2>2, <2>3, <2>4, <2>5 DEF IInv
<1>2. CASE WriteRequestRelease(r) \/ WriteSubmit(r)
  <2> USE <1>2 DEF WriteRequestRelease, WriteSubmit, Write
  <2>1. TypeOK'
    BY DEF IInv, TypeOK
  <2>2. \A s \in Requests : StageInv(s)'
    BY DEF IInv, TypeOK, StageInv
  <2>3. PayoutBooked' /\ StatusBooked'
    BY <1>0 DEF IInv, TypeOK, PayoutBooked, StatusBooked
  <2>4. SingleSuccess'
    BY DEF IInv, TypeOK, StageInv, SingleSuccess, Executed
  <2>5. ListenerAddsNothing' /\ (\A e \in events : chain = e)'
    BY DEF IInv, ListenerAddsNothing
  <2>6. QED BY <2>1, <2>2, <2>3, <2>4, <2>5 DEF IInv
<1>3. CASE EnqueueRelease(r) \/ EnqueueRefund(r)
  <2> USE <1>3 DEF EnqueueRelease, EnqueueRefund, Enqueue
  <2>1. TypeOK'
    BY DEF IInv, TypeOK
  <2>2. \A s \in Requests : StageInv(s)'
    BY DEF IInv, TypeOK, StageInv
  <2>3. PayoutBooked' /\ StatusBooked'
    BY <1>0 DEF IInv, TypeOK, PayoutBooked, StatusBooked
  <2>4. SingleSuccess'
    BY DEF IInv, TypeOK, StageInv, SingleSuccess, Executed
  <2>5. ListenerAddsNothing' /\ (\A e \in events : chain = e)'
    BY DEF IInv, ListenerAddsNothing
  <2>6. QED BY <2>1, <2>2, <2>3, <2>4, <2>5 DEF IInv
<1>4. QED BY <1>1, <1>2, <1>3 DEF Finish

(* The processors.  The commit is what makes the payout that follows safe, *)
(* and the contract's own rule what makes it the only one.                 *)
LEMMA ProcessInv ==
  ASSUME IInv, NEW r \in Requests, Process(r)
  PROVE  IInv'
<1> USE DEF Move
<1>0. \A o \in Settling : Booked(o) => Booked(o)'
  BY BookedStays DEF Next
<1>1. CASE TakeJob(r) \/ CommitThrows(r) \/ CompleteJob(r)
  <2> USE <1>1 DEF TakeJob, CommitThrows, CompleteJob
  <2>1. TypeOK'
    BY DEF IInv, TypeOK
  <2>2. \A s \in Requests : StageInv(s)'
    BY DEF IInv, TypeOK, StageInv
  <2>3. PayoutBooked' /\ StatusBooked'
    BY <1>0 DEF IInv, TypeOK, PayoutBooked, StatusBooked
  <2>4. SingleSuccess'
    BY DEF IInv, TypeOK, StageInv, SingleSuccess, Executed
  <2>5. ListenerAddsNothing' /\ (\A e \in events : chain = e)'
    BY DEF IInv, ListenerAddsNothing
  <2>6. QED BY <2>1, <2>2, <2>3, <2>4, <2>5 DEF IInv
<1>2. CASE CommitRelease(r) \/ CommitRefund(r)
  <2> USE <1>2 DEF CommitRelease, CommitRefund
  <2>1. TypeOK'
    <3>1. credits' \in [Requests -> Nat]
      BY DEF IInv, TypeOK
    <3>2. stage' \in [Requests -> Stages] /\ status' \in Statuses
      BY DEF IInv, TypeOK
    <3>3. QED BY <3>1, <3>2 DEF IInv, TypeOK
  <2>2. \A s \in Requests : StageInv(s)'
    BY DEF IInv, TypeOK, StageInv
  <2>3. PayoutBooked' /\ StatusBooked'
    BY <1>0 DEF IInv, TypeOK, PayoutBooked, StatusBooked, Booked
  <2>4. SingleSuccess'
    BY DEF IInv, TypeOK, StageInv, SingleSuccess, Executed
  <2>5. ListenerAddsNothing' /\ (\A e \in events : chain = e)'
    BY DEF IInv, ListenerAddsNothing
  <2>6. QED BY <2>1, <2>2, <2>3, <2>4, <2>5 DEF IInv
<1>3. CASE PayRelease(r) \/ PayRefund(r)
  <2> USE <1>3 DEF PayRelease, PayRefund, CallContract, ContractPays
  <2>1. TypeOK'
    BY DEF IInv, TypeOK
  <2>2. \A s \in Requests : StageInv(s)'
    BY DEF IInv, TypeOK, StageInv
  <2>3. PayoutBooked' /\ StatusBooked'
    BY <1>0 DEF IInv, TypeOK, PayoutBooked, StatusBooked, StageInv, Booked
  <2>4. SingleSuccess'
    BY DEF IInv, TypeOK, StageInv, SingleSuccess, Executed
  <2>5. ListenerAddsNothing' /\ (\A e \in events : chain = e)'
    BY DEF IInv, TypeOK, ListenerAddsNothing
  <2>6. QED BY <2>1, <2>2, <2>3, <2>4, <2>5 DEF IInv
<1>4. CASE CatchRelease(r) \/ CatchRefund(r)
  <2> USE <1>4 DEF CatchRelease, CatchRefund, LastAttempt
  <2>1. TypeOK'
    BY DEF IInv, TypeOK
  <2>2. \A s \in Requests : StageInv(s)'
    BY DEF IInv, TypeOK, StageInv
  <2>3. PayoutBooked' /\ StatusBooked'
    BY <1>0 DEF IInv, TypeOK, PayoutBooked, StatusBooked
  <2>4. SingleSuccess'
    BY DEF IInv, TypeOK, StageInv, SingleSuccess, Executed
  <2>5. ListenerAddsNothing' /\ (\A e \in events : chain = e)'
    BY DEF IInv, ListenerAddsNothing
  <2>6. QED BY <2>1, <2>2, <2>3, <2>4, <2>5 DEF IInv
<1>5. CASE RetryJob(r)
  <2> USE <1>5 DEF RetryJob, LastAttempt
  <2>1. TypeOK'
    BY DEF IInv, TypeOK, StageInv
  <2>2. \A s \in Requests : StageInv(s)'
    BY DEF IInv, TypeOK, StageInv
  <2>3. PayoutBooked' /\ StatusBooked'
    BY <1>0 DEF IInv, TypeOK, PayoutBooked, StatusBooked
  <2>4. SingleSuccess'
    BY DEF IInv, TypeOK, StageInv, SingleSuccess, Executed
  <2>5. ListenerAddsNothing' /\ (\A e \in events : chain = e)'
    BY DEF IInv, ListenerAddsNothing
  <2>6. QED BY <2>1, <2>2, <2>3, <2>4, <2>5 DEF IInv
<1>6. QED BY <1>1, <1>2, <1>3, <1>4, <1>5 DEF Process

LEMMA ListenerInv ==
  ASSUME IInv, HandleVaultReleased \/ HandleVaultRefunded
  PROVE  IInv'
<1> USE DEF HandleVaultReleased, HandleVaultRefunded
<1>1. synced' = {}
  BY DEF IInv, TypeOK, PayoutBooked, ListenerAddsNothing
<1>2. TypeOK' /\ \A r \in Requests : StageInv(r)'
  BY <1>1 DEF IInv, TypeOK, StageInv
<1>3. PayoutBooked' /\ StatusBooked'
  BY DEF IInv, TypeOK, PayoutBooked, StatusBooked, Booked
<1>4. SingleSuccess' /\ ListenerAddsNothing' /\ \A e \in events' : chain' = e
  BY <1>1 DEF IInv, SingleSuccess, Executed, ListenerAddsNothing
<1>5. QED BY <1>2, <1>3, <1>4 DEF IInv

(* The steps of others: a status that needs no entry, and a contract that  *)
(* has not paid yet.                                                       *)
LEMMA OthersInv ==
  ASSUME IInv, UpdateStatus \/ DeployVault \/ DepositToVault
  PROVE  IInv'
<1> USE DEF UpdateStatus, DeployVault, DepositToVault
<1>0. \A o \in Settling : Booked(o) => Booked(o)'
  BY BookedStays DEF Next
<1>1. TypeOK' /\ \A r \in Requests : StageInv(r)'
  BY DEF IInv, TypeOK, StageInv
<1>2. PayoutBooked' /\ StatusBooked'
  BY <1>0 DEF IInv, TypeOK, PayoutBooked, StatusBooked
<1>3. SingleSuccess'
  BY DEF IInv, TypeOK, StageInv, SingleSuccess, Executed
<1>4. ListenerAddsNothing' /\ (\A e \in events : chain = e)'
  BY DEF IInv, TypeOK, ListenerAddsNothing
<1>5. QED BY <1>1, <1>2, <1>3, <1>4 DEF IInv

LEMMA CrashInv ==
  ASSUME IInv, Crash
  PROVE  IInv'
<1> USE DEF Crash
<1>0. \A o \in Settling : Booked(o) => Booked(o)'
  BY BookedStays DEF Next
  <1>1. TypeOK'
    BY DEF IInv, TypeOK, StageInv
  <1>2. \A s \in Requests : StageInv(s)'
    BY DEF IInv, TypeOK, StageInv
  <1>3. PayoutBooked' /\ StatusBooked'
    BY <1>0 DEF IInv, TypeOK, PayoutBooked, StatusBooked
  <1>4. SingleSuccess'
    BY DEF IInv, TypeOK, StageInv, SingleSuccess, Executed
  <1>5. ListenerAddsNothing' /\ (\A e \in events : chain = e)'
    BY DEF IInv, ListenerAddsNothing
  <1>6. QED BY <1>1, <1>2, <1>3, <1>4, <1>5 DEF IInv

LEMMA InductiveInv == IInv /\ [Next]_vars => IInv'
<1> SUFFICES ASSUME IInv, [Next]_vars PROVE IInv'
  OBVIOUS
<1>1. CASE UNCHANGED vars
  BY <1>1 DEF vars, IInv, TypeOK, StageInv, PayoutBooked, StatusBooked, SingleSuccess, Executed,
              ListenerAddsNothing, Booked
<1>2. QED
  BY <1>1, HandlerInv, FinishInv, ProcessInv, ListenerInv, OthersInv, CrashInv DEF Next

LEMMA SpecInv == Spec => []IInv
  BY InitInv, InductiveInv, PTL DEF Spec

(* Every variable keeps its type, in particular the attempts and stalls of *)
(* a job stay within what BullMQ allows.                                   *)
THEOREM TypeCorrect == Spec => []TypeOK
<1>1. IInv => TypeOK BY DEF IInv
<1>2. QED BY SpecInv, <1>1, PTL

(* The escrow pays only what the ledger already shows.                     *)
THEOREM PayoutIsBooked == Spec => []PayoutBooked
<1>1. IInv => PayoutBooked BY DEF IInv
<1>2. QED BY SpecInv, <1>1, PTL

(* A settled status always has its ledger entry.                           *)
THEOREM StatusIsBooked == Spec => []StatusBooked
<1>1. IInv => StatusBooked BY DEF IInv
<1>2. QED BY SpecInv, <1>1, PTL

(* At most one job that called the contract succeeds, and the escrow       *)
(* executed it; the jobs of a vault without an address are not counted.    *)
THEOREM OneSuccess == Spec => []SingleSuccess
<1>1. IInv => SingleSuccess BY DEF IInv
<1>2. QED BY SpecInv, <1>1, PTL

(* A job books at most MaxAttempts + MaxStalls credits.                    *)
THEOREM CreditBound == Spec => []CreditsBounded
<1>1. IInv => CreditsBounded
  <2> SUFFICES ASSUME IInv, NEW r \in Requests
               PROVE  credits[r] <= MaxAttempts + MaxStalls
    BY DEF CreditsBounded
  <2>1. /\ credits[r] \in Nat /\ made[r] \in Nat /\ stalls[r] \in Nat
        /\ StageInv(r)
    BY DEF IInv, TypeOK
  <2>2. QED BY <2>1 DEF StageInv
<1>2. QED BY SpecInv, <1>1, PTL

(* The listener never adds a ledger entry of its own.                      *)
THEOREM ListenerSilent == Spec => []ListenerAddsNothing
<1>1. IInv => ListenerAddsNothing BY DEF IInv
<1>2. QED BY SpecInv, <1>1, PTL
-----------------------------------------------------------------------------
(* The refinement.  Committing a job books its side, the contract call     *)
(* pays it, and every other step leaves both alone.                        *)
Sides == {o \in Settling : Booked(o)}
Payee == CASE chain = "released" -> "release"
           [] chain = "refunded" -> "refund"
           [] OTHER -> "none"

LEMMA InitRefines == Init => Escrow!Init
  BY DEF Init, Escrow!Init, Booked

\* Both variables of EscrowPayout stay, one side is booked, one is paid.
Stays    == Sides' = Sides /\ Payee' = Payee
Books(o) == Sides' = Sides \cup {o} /\ Payee' = Payee
Pays(o)  == Payee = "none" /\ o \in Sides /\ Payee' = o /\ Sides' = Sides

LEMMA HandlerStays ==
  ASSUME IInv, NEW r \in Requests, Handler(r) \/ Finish(r)
  PROVE  Stays
<1>1. CASE Handler(r)
  <2>1. PICK o \in Ops : Accept(r, o)
    BY <1>1 DEF Handler, Accept, ReadForRelease, ReadForRefund, ReadForRequestRelease, ReadForSubmit
  <2>2. \A k \in Settling : Booked(k)' <=> Booked(k)
    BY <2>1 DEF Accept, IInv, TypeOK, StageInv, Booked
  <2>3. QED BY <2>1, <2>2 DEF Accept, Stays, Sides, Payee
<1>2. CASE Finish(r)
  BY <1>2 DEF Finish, Write, Enqueue, MarkReleasing, MarkRefunding,
              WriteRequestRelease, WriteSubmit, EnqueueRelease, EnqueueRefund,
              Stays, Sides, Payee, Booked
<1>3. QED BY <1>1, <1>2

LEMMA CommitBooks ==
  ASSUME IInv, NEW r \in Requests, CommitRelease(r) \/ CommitRefund(r)
  PROVE  op[r] \in Settling /\ Books(op[r])
<1> USE DEF CommitRelease, CommitRefund
<1>1. op[r] \in Settling /\ Booked(op[r])'
  BY DEF IInv, TypeOK, Booked
<1>2. \A k \in Settling : k # op[r] => (Booked(k)' <=> Booked(k))
  BY DEF IInv, TypeOK, Booked
<1>3. Payee' = Payee
  BY DEF Payee
<1>4. QED BY <1>1, <1>2, <1>3 DEF Books, Sides

LEMMA PayPays ==
  ASSUME IInv, NEW r \in Requests, PayRelease(r) \/ PayRefund(r)
  PROVE  Stays \/ (op[r] \in Settling /\ Pays(op[r]))
<1> USE DEF PayRelease, PayRefund, CallContract, Move
<1>1. Sides' = Sides /\ op[r] \in Settling
  BY DEF Sides, Booked
<1>2. CASE UNCHANGED chainVars
  BY <1>1, <1>2 DEF Stays, Payee
<1>3. CASE ContractPays(op[r])
  <2>1. op[r] \in Sides
    BY DEF IInv, TypeOK, StageInv, Sides, Booked
  <2>2. QED BY <1>1, <1>3, <2>1 DEF ContractPays, Pays, Payee
<1>4. QED BY <1>2, <1>3

LEMMA RestStays ==
  ASSUME \/ \E r \in Requests : \/ TakeJob(r) \/ CommitThrows(r) \/ CompleteJob(r)
                                \/ CatchRelease(r) \/ CatchRefund(r) \/ RetryJob(r)
         \/ HandleVaultReleased \/ HandleVaultRefunded \/ UpdateStatus
         \/ DeployVault \/ DepositToVault \/ Crash \/ UNCHANGED vars
  PROVE  Stays
  BY DEF TakeJob, CommitThrows, CompleteJob, CatchRelease, CatchRefund, RetryJob,
         HandleVaultReleased, HandleVaultRefunded, UpdateStatus, DeployVault, DepositToVault,
         Crash, vars, Stays, Sides, Payee, Booked

LEMMA StepRefines ==
  ASSUME IInv, [Next]_vars
  PROVE  [Escrow!Next]_(Escrow!vars)
<1>1. Stays \/ (\E o \in Settling : Books(o) \/ Pays(o))
  BY HandlerStays, CommitBooks, PayPays, RestStays DEF Next, Process
<1>2. CASE Stays
  BY <1>2 DEF Stays, Sides, Payee, Escrow!vars
<1>3. ASSUME NEW o \in Settling, Books(o) PROVE Escrow!Next
  BY <1>3 DEF Books, Sides, Payee, Escrow!Next, Escrow!Book
<1>4. ASSUME NEW o \in Settling, Pays(o) PROVE Escrow!Next
  BY <1>4 DEF Pays, Sides, Payee, Escrow!Next, Escrow!Pay
<1>5. QED BY <1>1, <1>2, <1>3, <1>4

(* The queues, retries and races of the code implement EscrowPayout: one   *)
(* side is paid, once, and never before it is booked.                      *)
THEOREM Refinement == Spec => ImplementsEscrow
<1>1. Spec => []IInv /\ [][Next]_vars /\ Escrow!Init
  BY SpecInv, InitRefines, PTL DEF Spec
<1>2. IInv /\ [Next]_vars => [Escrow!Next]_(Escrow!vars)
  BY StepRefines
<1>3. QED BY <1>1, <1>2, PTL DEF ImplementsEscrow, Escrow!Spec
-----------------------------------------------------------------------------
\* The steps left in a run, stage by stage.
LEMMA RunLeftTable ==
  /\ RunLeft["new"] = 8 /\ RunLeft["accepted"] = 7 /\ RunLeft["marked"] = 6
  /\ RunLeft["waiting"] = 5 /\ RunLeft["fetched"] = 4 /\ RunLeft["credited"] = 3
  /\ RunLeft["caught"] = 2 /\ RunLeft["paid"] = 1 /\ RunLeft["rethrown"] = 1
  /\ RunLeft["done"] = 0 /\ RunLeft["completed"] = 0 /\ RunLeft["failed"] = 0
BY DEF RunLeft

(* The steps a job has left are a natural number, for the queue counts each *)
(* run before it gives another.                                            *)
LEMMA StepsLeftTyped ==
  ASSUME IInv, NEW r \in Requests
  PROVE  /\ made[r] \in Nat /\ stalls[r] \in Nat /\ StepsLeft(r) \in Nat
         /\ RunLeft[stage[r]] \in 0 .. 8
         /\ stage[r] \in Running => RunLeft[stage[r]] \in 1 .. 4
<1>1. /\ made[r] \in Nat /\ stalls[r] \in Nat /\ stage[r] \in Stages
      /\ made[r] + stalls[r] <= MaxAttempts + MaxStalls
  BY DEF IInv, TypeOK, StageInv
<1>2. RunLeft[stage[r]] \in 0 .. 8 /\ (stage[r] \in Running => RunLeft[stage[r]] \in 1 .. 4)
  BY <1>1, RunLeftTable
<1>3. QED
  <2> HIDE DEF Running, Stages
  <2>1. QED BY <1>1, <1>2 DEF StepsLeft

\* A step that goes on within its run, and one that the queue counts.
LEMMA OnwardCosts ==
  ASSUME IInv, NEW r \in Requests, made'[r] = made[r], stalls'[r] = stalls[r],
         NEW s \in Stages, NEW t \in Stages, stage[r] = s, stage'[r] = t,
         RunLeft[t] < RunLeft[s], RunLeft[t] \in Nat
  PROVE  StepsLeft(r)' < StepsLeft(r)
<1>1. made[r] \in Nat /\ stalls[r] \in Nat /\ RunLeft[s] \in Nat
  BY StepsLeftTyped
<1> HIDE DEF Stages
<1>2. QED BY <1>1 DEF StepsLeft

LEMMA CountedCosts ==
  ASSUME IInv, NEW r \in Requests, stage[r] \in Running,
         made'[r] + stalls'[r] = made[r] + stalls[r] + 1,
         made'[r] \in Nat, stalls'[r] \in Nat,
         stage'[r] \in {"waiting", "failed"}
  PROVE  StepsLeft(r)' < StepsLeft(r)
<1>1. /\ made[r] \in Nat /\ stalls[r] \in Nat
      /\ RunLeft[stage[r]] \in Nat /\ RunLeft[stage[r]] >= 1
  BY StepsLeftTyped
<1>2. RunLeft[stage'[r]] \in {0, 5} /\ MaxAttempts + MaxStalls \in Nat
  BY RunLeftTable
<1>3. StepsLeft(r)' = 6 * (MaxAttempts + MaxStalls - made[r] - stalls[r]) + RunLeft[stage'[r]]
  <2>1. MaxAttempts + MaxStalls + 1 - made'[r] - stalls'[r]
          = MaxAttempts + MaxStalls - made[r] - stalls[r]
    BY <1>1
  <2>2. QED BY <2>1 DEF StepsLeft
<1>4. StepsLeft(r) = 6 * (MaxAttempts + MaxStalls - made[r] - stalls[r]) + 6 + RunLeft[stage[r]]
  BY <1>1 DEF StepsLeft
<1> HIDE DEF Running
<1>5. QED BY <1>1, <1>2, <1>3, <1>4

Idles(r) == UNCHANGED <<op[r], stage[r], made[r], stalls[r], credits[r]>>

\* A step of one request or job: it has less left, the others what they had.
LEMMA OwnStepCosts ==
  ASSUME IInv, NEW r \in Requests, Handler(r) \/ Finish(r) \/ Process(r)
  PROVE  \A s \in Requests : Idles(s) \/ StepsLeft(s)' < StepsLeft(s)
<1>0. ASSUME NEW s \in Requests, s # r PROVE Idles(s)
  <2>1. CASE Handler(r)
    BY <1>0, <2>1 DEF Handler, Accept, ReadForRelease, ReadForRefund, ReadForRequestRelease, ReadForSubmit, IInv, TypeOK, Idles
  <2>2. CASE Finish(r)
    BY <1>0, <2>2 DEF Finish, Write, Enqueue, MarkReleasing, MarkRefunding,
           WriteRequestRelease, WriteSubmit, EnqueueRelease, EnqueueRefund, IInv, TypeOK, Idles
  <2>3. CASE Process(r)
    BY <1>0, <2>3 DEF Process, Move, TakeJob, CommitRelease, CommitRefund, CommitThrows,
           PayRelease, PayRefund, CallContract, CompleteJob, CatchRelease, CatchRefund, RetryJob,
           IInv, TypeOK, Idles
  <2>4. QED BY <2>1, <2>2, <2>3
<1>1. CASE RetryJob(r)
  <2>1. /\ stage[r] \in Running /\ stage'[r] \in {"waiting", "failed"}
        /\ made'[r] = made[r] + 1 /\ stalls'[r] = stalls[r]
    BY <1>1 DEF RetryJob, Move, IInv, TypeOK
  <2>2. made[r] \in Nat /\ stalls[r] \in Nat
    BY StepsLeftTyped
  <2>3. StepsLeft(r)' < StepsLeft(r)
    BY <2>1, <2>2, CountedCosts
  <2>4. QED BY <1>0, <2>3
<1>2. CASE ~RetryJob(r)
  <2>1. /\ made' = made /\ stalls' = stalls /\ stage[r] \in Stages
        /\ \/ stage[r] = "new" /\ stage'[r] = "accepted"
           \/ stage[r] = "accepted" /\ stage'[r] \in {"marked", "done"}
           \/ stage[r] = "marked" /\ stage'[r] \in {"waiting", "done"}
           \/ stage[r] = "waiting" /\ stage'[r] \in {"fetched", "rethrown"}
           \/ stage[r] = "fetched" /\ stage'[r] \in {"credited", "caught"}
           \/ stage[r] = "credited" /\ stage'[r] \in {"paid", "caught"}
           \/ stage[r] = "paid" /\ stage'[r] = "completed"
           \/ stage[r] = "caught" /\ stage'[r] = "rethrown"
    <3>1. CASE Handler(r)
      BY <3>1 DEF Handler, Accept, ReadForRelease, ReadForRefund, ReadForRequestRelease, ReadForSubmit, IInv, TypeOK
    <3>2. CASE Finish(r)
      BY <3>2 DEF Finish, Write, Enqueue, MarkReleasing, MarkRefunding,
             WriteRequestRelease, WriteSubmit, EnqueueRelease, EnqueueRefund, IInv, TypeOK
    <3>3. CASE Process(r)
      BY <1>2, <3>3 DEF Process, Move, TakeJob, CommitRelease, CommitRefund, CommitThrows,
             PayRelease, PayRefund, CallContract, CompleteJob, CatchRelease, CatchRefund, IInv, TypeOK
    <3>4. QED BY <3>1, <3>2, <3>3
  <2>2. /\ stage'[r] \in Stages /\ RunLeft[stage'[r]] < RunLeft[stage[r]]
        /\ RunLeft[stage'[r]] \in Nat
    BY <2>1, RunLeftTable
  <2>3. StepsLeft(r)' < StepsLeft(r)
    BY <2>1, <2>2, OnwardCosts
  <2>4. QED BY <1>0, <2>3
<1>3. QED BY <1>1, <1>2

\* A crash costs the running jobs a stall and ends the handlers.
LEMMA CrashCosts ==
  ASSUME IInv, Crash, NEW r \in Requests
  PROVE  Idles(r) \/ StepsLeft(r)' < StepsLeft(r)
<1>1. made' = made /\ stage[r] \in Stages /\ op' = op /\ credits' = credits
  BY DEF Crash, IInv, TypeOK
<1>2. CASE stage[r] \in Running
  <2>1. stalls'[r] = stalls[r] + 1 /\ stage'[r] \in {"waiting", "failed"}
    BY <1>2 DEF Crash
  <2>2. made[r] \in Nat /\ stalls[r] \in Nat
    BY StepsLeftTyped
  <2>3. QED BY <1>1, <1>2, <2>1, <2>2, CountedCosts
<1>3. CASE stage[r] \in {"accepted", "marked"}
  <2>1. stalls'[r] = stalls[r] /\ stage'[r] = "done"
    BY <1>3 DEF Crash
  <2>2. RunLeft["done"] < RunLeft[stage[r]] /\ RunLeft["done"] \in Nat
    BY <1>3, RunLeftTable
  <2>3. QED BY <1>1, <2>1, <2>2, OnwardCosts
<1>4. CASE stage[r] \notin Running \cup {"accepted", "marked"}
  BY <1>1, <1>4 DEF Crash, Idles
<1>5. QED BY <1>2, <1>3, <1>4

(* Whatever fails, and however often workers die, every step of a request  *)
(* or of its job costs one of the steps it has left ...                    *)
THEOREM WorkAlwaysRunsOut == Spec => WorkRunsOut
<1>1. IInv /\ [Next]_vars
        => [\A r \in Requests :
               \/ UNCHANGED <<op[r], stage[r], made[r], stalls[r], credits[r]>>
               \/ StepsLeft(r)' < StepsLeft(r)]_vars
  <2>1. ASSUME IInv, NEW r \in Requests,
               \/ HandleVaultReleased \/ HandleVaultRefunded
               \/ UpdateStatus \/ DeployVault \/ DepositToVault
        PROVE  Idles(r)
    BY <2>1 DEF HandleVaultReleased, HandleVaultRefunded, UpdateStatus, DeployVault,
                DepositToVault, Idles
  <2>2. ASSUME IInv, Next, NEW r \in Requests
        PROVE  Idles(r) \/ StepsLeft(r)' < StepsLeft(r)
    <3>1. CASE \E s \in Requests : Handler(s) \/ Finish(s) \/ Process(s)
      BY <2>2, <3>1, OwnStepCosts
    <3>2. CASE \/ HandleVaultReleased \/ HandleVaultRefunded
               \/ UpdateStatus \/ DeployVault \/ DepositToVault
      BY <2>1, <2>2, <3>2
    <3>3. CASE Crash
      BY <2>2, <3>3, CrashCosts
    <3>4. QED BY <2>2, <3>1, <3>2, <3>3 DEF Next
  <2>3. QED BY <2>2 DEF Idles
<1>2. QED BY <1>1, SpecInv, PTL DEF Spec, WorkRunsOut

(* ... of which there is a finite number: no job is run for ever.          *)
THEOREM StepsLeftAreFinite == Spec => [](\A r \in Requests : StepsLeft(r) \in Nat)
<1>1. IInv => \A r \in Requests : StepsLeft(r) \in Nat
  BY StepsLeftTyped
<1>2. QED BY <1>1, SpecInv, PTL
-----------------------------------------------------------------------------
(* Without crashes, database errors and Redis errors, an ongoing release   *)
(* or refund always has a request or a job behind it.                      *)
LEMMA InitDriven == Init => InProgressIsDriven
  BY DEF Init, InProgressIsDriven

LEMMA StepDriven ==
  ASSUME BullEnabled, Faults \cap {"crash", "db", "enqueue"} = {},
         TypeOK, InProgressIsDriven, [Next]_vars
  PROVE  InProgressIsDriven'
<1> SUFFICES ASSUME NEW o \in Settling, status' = InProgress(o)
             PROVE  \E r \in Requests : Drives(r, o)'
  BY DEF InProgressIsDriven
<1> USE DEF TypeOK, Drives, LastAttempt
<1>1. ASSUME NEW r \in Requests, Handler(r) PROVE \E s \in Requests : Drives(s, o)'
  <2>1. PICK k \in Ops : Accept(r, k)
    BY <1>1 DEF Handler, Accept, ReadForRelease, ReadForRefund, ReadForRequestRelease, ReadForSubmit
  <2>2. PICK s \in Requests : Drives(s, o)
    BY <2>1 DEF Accept, InProgressIsDriven
  <2>3. QED BY <2>1, <2>2 DEF Accept
<1>2. ASSUME NEW r \in Requests, Finish(r) PROVE \E s \in Requests : Drives(s, o)'
  <2>1. CASE MarkReleasing(r) \/ MarkRefunding(r)
    BY <2>1 DEF MarkReleasing, MarkRefunding, Write
  <2>2. CASE WriteRequestRelease(r) \/ WriteSubmit(r)
    BY <2>2 DEF WriteRequestRelease, WriteSubmit, Write
  <2>3. CASE EnqueueRelease(r) \/ EnqueueRefund(r)
    <3>1. PICK s \in Requests : Drives(s, o)
      BY <2>3 DEF EnqueueRelease, EnqueueRefund, Enqueue, InProgressIsDriven
    <3>2. QED BY <2>3, <3>1 DEF EnqueueRelease, EnqueueRefund, Enqueue
  <2>4. QED BY <1>2, <2>1, <2>2, <2>3 DEF Finish
<1>3. ASSUME NEW r \in Requests, Process(r) PROVE \E s \in Requests : Drives(s, o)'
  <2> USE DEF Move
  <2>1. CASE CommitRelease(r) \/ CommitRefund(r)
    BY <2>1 DEF CommitRelease, CommitRefund
  <2>2. CASE CatchRelease(r) \/ CatchRefund(r)
    <3>1. status' = status
      BY <2>2 DEF CatchRelease, CatchRefund
    <3>2. PICK s \in Requests : Drives(s, o)
      BY <3>1 DEF InProgressIsDriven
    <3>3. CASE s = r /\ LastAttempt(r)
      BY <2>2, <3>2, <3>3 DEF CatchRelease, CatchRefund
    <3>4. QED BY <2>2, <3>2, <3>3 DEF CatchRelease, CatchRefund
  <2>3. CASE \/ TakeJob(r) \/ CommitThrows(r) \/ CompleteJob(r)
             \/ PayRelease(r) \/ PayRefund(r) \/ RetryJob(r)
    <3> USE <2>3 DEF TakeJob, CommitThrows, CompleteJob, PayRelease, PayRefund, CallContract, RetryJob
    <3>1. PICK s \in Requests : Drives(s, o)
      BY DEF InProgressIsDriven
    <3>2. CASE s = r
      BY <3>1, <3>2
    <3>3. CASE s # r
      BY <3>1, <3>3
    <3>4. QED BY <3>2, <3>3
  <2>4. QED BY <1>3, <2>1, <2>2, <2>3 DEF Process
<1>4. CASE HandleVaultReleased \/ UpdateStatus \/ DeployVault
  BY <1>4 DEF HandleVaultReleased, UpdateStatus, DeployVault
<1>5. CASE HandleVaultRefunded \/ DepositToVault \/ UNCHANGED vars
  BY <1>5 DEF HandleVaultRefunded, DepositToVault, vars, InProgressIsDriven
<1>6. QED BY <1>1, <1>2, <1>3, <1>4, <1>5 DEF Next, Crash

(* The double-release guard may rely on RELEASING: nothing but a failing   *)
(* process, database or Redis leaves a vault there with no one at work.    *)
THEOREM AlwaysDriven ==
  ASSUME BullEnabled, Faults \cap {"crash", "db", "enqueue"} = {}
  PROVE  Spec => []InProgressIsDriven
<1>1. TypeOK /\ InProgressIsDriven /\ [Next]_vars => InProgressIsDriven'
  BY StepDriven
<1>2. QED BY InitDriven, TypeCorrect, <1>1, PTL DEF Spec
=============================================================================
