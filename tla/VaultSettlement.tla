--------------------------- MODULE VaultSettlement ---------------------------
(***************************************************************************)
(* How one funded vault is settled: the HTTP handlers of VaultsService     *)
(* that write its status, the BullMQ queues vault-release and vault-refund *)
(* with their one-job-at-a-time processors, the escrow contract the        *)
(* processors call, and the WebSocket listener that copies contract events *)
(* back into the database.                                                 *)
(*                                                                         *)
(* A handler reads the vault row, awaits, and later writes it with no      *)
(* condition on what it read, so every read and every write is a step of   *)
(* its own.  A processor commits one database transaction (status and      *)
(* ledger entries together) and only then calls the contract.              *)
(***************************************************************************)
EXTENDS Naturals

CONSTANTS Requests,     \* HTTP requests on this vault; a queued job bears its request's name
          Ops,          \* which handlers the requests may call
          Faults,       \* which failures of the environment may happen
          MaxAttempts,  \* `attempts` of the queued jobs (3 in the code)
          MaxStalls,    \* how often BullMQ re-runs a job whose worker died (1 by default)
          BullEnabled   \* ENABLE_BULL: whether the queues are registered at all

Settling  == {"release", "refund"}
AllOps    == Settling \cup {"requestRelease", "submit"}
AllFaults == {"crash",    \* the process dies and restarts
              "db",       \* a statement of a processor fails
              "enqueue",  \* Redis refuses queue.add
              "rpc",      \* the contract call fails and nothing is mined
              "receipt"}  \* the call is mined, waiting for its receipt fails

ASSUME SettlementConstants ==
    /\ Ops \subseteq AllOps
    /\ Faults \subseteq AllFaults
    /\ MaxAttempts \in Nat \ {0}
    /\ MaxStalls \in Nat
    /\ BullEnabled \in BOOLEAN

VARIABLES
    status,      \* Vault.status in the database
    freelancer,  \* whether Vault.freelancerId is set
    chain,       \* what the escrow contract holds or has done, "none" before there is one
    op,          \* the handler each request called
    stage,       \* how far each request, and then the job it queued, has come
    made,        \* BullMQ's attemptsMade of each job
    stalls,      \* BullMQ's stalled counter of each job
    address,     \* whether the vault row that each job's run read had a vaultAddress
    credits,     \* how many ledger credits the runs of each job have committed
    events,      \* contract events the listener has yet to handle
    synced       \* the kinds of credit the listener has added itself

vars == <<status, freelancer, chain, op, stage, made, stalls, address, credits, events, synced>>
jobVars == <<made, stalls, address, credits>>
chainVars == <<chain, events>>

Statuses == {"FUNDED", "CHANGES_REQUESTED", "RELEASE_REQUESTED", "CANCELLED",
             "RELEASING", "RELEASED", "RELEASE_FAILED",
             "REFUNDING", "REFUNDED", "REFUND_FAILED"}
Running == {"fetched", "credited", "paid", "caught", "rethrown"}
Queued  == {"waiting"} \cup Running
Stages  == {"new", "accepted", "marked", "done", "completed", "failed"} \cup Queued

\* The status a settlement passes through, ends in, and fails in.
InProgress(o) == IF o = "release" THEN "RELEASING" ELSE "REFUNDING"
Settled(o)    == IF o = "release" THEN "RELEASED" ELSE "REFUNDED"
FailedStatus(o) == IF o = "release" THEN "RELEASE_FAILED" ELSE "REFUND_FAILED"
\* What the contract has done once it has executed the settlement.
Payout(o)     == IF o = "release" THEN "released" ELSE "refunded"

Booked(o) == \E r \in Requests : op[r] = o /\ credits[r] > 0
-----------------------------------------------------------------------------
(* A vault is FUNDED.  Its contract may still be empty: the webhook that   *)
(* marks it FUNDED swallows the errors of the on-chain deposit.  Or it has *)
(* none: one funded before its freelancer was known is given its contract  *)
(* when the invitation is accepted, if it ever is.                         *)
Init ==
    /\ status = "FUNDED"
    /\ freelancer \in BOOLEAN
    /\ chain \in {"none", "empty", "funded"}
    /\ op = [r \in Requests |-> "none"]
    /\ stage = [r \in Requests |-> "new"]
    /\ made = [r \in Requests |-> 0]
    /\ stalls = [r \in Requests |-> 0]
    /\ address = [r \in Requests |-> FALSE]
    /\ credits = [r \in Requests |-> 0]
    /\ events = {}
    /\ synced = {}

(* The handlers read the row and check it.  A request that is refused     *)
(* changes nothing, so only the accepted ones are steps.                   *)
Accept(r, o) ==
    /\ o \in Ops
    /\ stage[r] = "new"
    /\ op' = [op EXCEPT ![r] = o]
    /\ stage' = [stage EXCEPT ![r] = "accepted"]
    /\ UNCHANGED <<status, freelancer, jobVars, chainVars, synced>>

ReadForRelease(r) ==
    /\ status \notin {"RELEASING", "RELEASED"}
    /\ Accept(r, "release")

ReadForRefund(r) ==
    /\ status \notin {"REFUNDING", "REFUNDED"}
    /\ Accept(r, "refund")

ReadForRequestRelease(r) ==
    /\ freelancer
    /\ status \in {"FUNDED", "CHANGES_REQUESTED"}
    /\ Accept(r, "requestRelease")

\* A submission on a FUNDED vault leaves the vault row alone.
ReadForSubmit(r) ==
    /\ freelancer
    /\ status = "CHANGES_REQUESTED"
    /\ Accept(r, "submit")

(* The write that follows the read, whatever the status has become.        *)
Write(r, o, new, next) ==
    /\ stage[r] = "accepted"
    /\ op[r] = o
    /\ status' = new
    /\ stage' = [stage EXCEPT ![r] = next]
    /\ UNCHANGED <<freelancer, op, jobVars, chainVars, synced>>

MarkReleasing(r) == Write(r, "release", "RELEASING", "marked")
MarkRefunding(r) == Write(r, "refund", "REFUNDING", "marked")
WriteRequestRelease(r) == Write(r, "requestRelease", "RELEASE_REQUESTED", "done")
\* Mutation: the status of the submission goes into the vault.
WriteSubmitted(r) == Write(r, "submit", "SUBMITTED", "done")
WriteSubmit(r) == Write(r, "submit", "RELEASE_REQUESTED", "done")

(* The client cancels or asks for changes.  The handler reads the row only *)
(* to see whose it is, so that its write may come at any time.             *)
UpdateStatus ==
    /\ status' \in {"CANCELLED", "CHANGES_REQUESTED"}
    /\ UNCHANGED <<freelancer, op, stage, jobVars, chainVars, synced>>

(* release and refund finish by queueing the job; without a queue they     *)
(* only log a warning and answer as if they had.                           *)
Enqueue(r, o) ==
    /\ stage[r] = "marked"
    /\ op[r] = o
    /\ \/ stage' = [stage EXCEPT ![r] = IF BullEnabled THEN "waiting" ELSE "done"]
       \/ /\ "enqueue" \in Faults
          /\ stage' = [stage EXCEPT ![r] = "done"]
    /\ UNCHANGED <<status, freelancer, op, jobVars, chainVars, synced>>

EnqueueRelease(r) == Enqueue(r, "release")
EnqueueRefund(r) == Enqueue(r, "refund")
-----------------------------------------------------------------------------
(* The processors.  Each queue has one worker with concurrency 1.          *)

Move(r, from, to) ==
    /\ stage[r] = from
    /\ stage' = [stage EXCEPT ![r] = to]

\* The worker takes a job and reads the vault; a failure of this read is
\* outside the try block, so the catch block does not see it.
TakeJob(r) ==
    /\ \A s \in Requests : op[s] = op[r] => stage[s] \notin Running
    /\ \/ /\ Move(r, "waiting", "fetched")
          /\ address' = [address EXCEPT ![r] = chain # "none"]
       \/ /\ "db" \in Faults
          /\ Move(r, "waiting", "rethrown")
          /\ UNCHANGED address
    /\ UNCHANGED <<status, freelancer, op, made, stalls, credits, chainVars, synced>>

\* Mutation: the transaction forgets the ledger entries.
CommitReleaseStatusOnly(r) ==
    /\ op[r] = "release" /\ freelancer
    /\ Move(r, "fetched", "credited")
    /\ status' = "RELEASED"
    /\ UNCHANGED <<freelancer, op, jobVars, chainVars, synced>>

\* One transaction: the final status and the ledger entries.  The RELEASE
\* entry needs a freelancer; without one the transaction throws.
CommitRelease(r) ==
    /\ op[r] = "release"
    /\ freelancer
    /\ Move(r, "fetched", "credited")
    /\ status' = "RELEASED"
    /\ credits' = [credits EXCEPT ![r] = @ + 1]
    /\ UNCHANGED <<freelancer, op, made, stalls, address, chainVars, synced>>

CommitRefund(r) ==
    /\ op[r] = "refund"
    /\ Move(r, "fetched", "credited")
    /\ status' = "REFUNDED"
    /\ credits' = [credits EXCEPT ![r] = @ + 1]
    /\ UNCHANGED <<freelancer, op, made, stalls, address, chainVars, synced>>

CommitThrows(r) ==
    /\ "db" \in Faults \/ (op[r] = "release" /\ ~freelancer)
    /\ Move(r, "fetched", "caught")
    /\ UNCHANGED <<status, freelancer, op, jobVars, chainVars, synced>>

\* The contract pays at most once, from the balance it was funded with.
ContractPays(o) ==
    /\ chain = "funded"
    /\ chain' = Payout(o)
    /\ events' = events \cup {Payout(o)}

\* Mutation: the contract is called before the transaction has committed.
PayReleaseFirst(r) ==
    /\ op[r] = "release"
    /\ ContractPays("release")
    /\ Move(r, "fetched", "paid")
    /\ UNCHANGED <<status, freelancer, op, jobVars, synced>>

\* A vault without an address has no contract to call, and the job goes on.
CallContract(r) ==
    \/ /\ ~address[r]
       /\ Move(r, "credited", "paid")
       /\ UNCHANGED chainVars
    \/ /\ address[r]
       /\ ContractPays(op[r])
       /\ \/ Move(r, "credited", "paid")
          \/ "receipt" \in Faults /\ Move(r, "credited", "caught")
    \/ /\ address[r]
       /\ chain # "funded" \/ "rpc" \in Faults
       /\ Move(r, "credited", "caught")
       /\ UNCHANGED chainVars

\* Mutation: a revert counts as success, as it does in DisputesService.
PayReleaseSwallow(r) ==
    /\ op[r] = "release"
    /\ \/ CallContract(r)
       \/ chain # "funded" /\ Move(r, "credited", "paid") /\ UNCHANGED chainVars
    /\ UNCHANGED <<status, freelancer, op, jobVars, synced>>

PayRelease(r) ==
    /\ op[r] = "release"
    /\ CallContract(r)
    /\ UNCHANGED <<status, freelancer, op, jobVars, synced>>

\* Mutation: as PayReleaseFirst.
PayRefundFirst(r) ==
    /\ op[r] = "refund"
    /\ ContractPays("refund")
    /\ Move(r, "fetched", "paid")
    /\ UNCHANGED <<status, freelancer, op, jobVars, synced>>

PayRefund(r) ==
    /\ op[r] = "refund"
    /\ CallContract(r)
    /\ UNCHANGED <<status, freelancer, op, jobVars, synced>>

\* Cache and publish failures are swallowed, so the job completes.
CompleteJob(r) ==
    /\ Move(r, "paid", "completed")
    /\ UNCHANGED <<status, freelancer, op, jobVars, chainVars, synced>>

LastAttempt(r) == made[r] + 1 >= MaxAttempts

\* Mutation: the catch block counts its attempts one too late.
CatchReleaseLate(r) ==
    /\ op[r] = "release"
    /\ Move(r, "caught", "rethrown")
    /\ status' = IF made[r] >= MaxAttempts THEN "RELEASE_FAILED" ELSE status
    /\ UNCHANGED <<freelancer, op, jobVars, chainVars, synced>>

\* Mutation: the catch block tries again itself and leaves BullMQ out.
CatchReleaseAgain(r) ==
    /\ op[r] = "release"
    /\ Move(r, "caught", "fetched")
    /\ UNCHANGED <<status, freelancer, op, jobVars, chainVars, synced>>

\* The catch block, which then rethrows.
CatchRelease(r) ==
    /\ op[r] = "release"
    /\ Move(r, "caught", "rethrown")
    /\ status' \in IF LastAttempt(r)
                   THEN {"RELEASE_FAILED"} \cup (IF "db" \in Faults THEN {status} ELSE {})
                   ELSE {status}
    /\ UNCHANGED <<freelancer, op, jobVars, chainVars, synced>>

CatchRefund(r) ==
    /\ op[r] = "refund"
    /\ Move(r, "caught", "rethrown")
    /\ status' \in IF LastAttempt(r)
                   THEN {"REFUND_FAILED"} \cup (IF "db" \in Faults THEN {status} ELSE {})
                   ELSE {status}
    /\ UNCHANGED <<freelancer, op, jobVars, chainVars, synced>>

\* BullMQ counts the attempt and re-queues the job or gives it up.
RetryJob(r) ==
    /\ Move(r, "rethrown", IF LastAttempt(r) THEN "failed" ELSE "waiting")
    /\ made' = [made EXCEPT ![r] = @ + 1]
    /\ address' = [address EXCEPT ![r] = FALSE]
    /\ UNCHANGED <<status, freelancer, op, stalls, credits, chainVars, synced>>
-----------------------------------------------------------------------------
(* The listener.  A release event forces the status and adds a RELEASE     *)
(* entry if none is there; a refund event only does the latter.            *)
HandleVaultReleased ==
    /\ "released" \in events
    /\ events' = events \ {"released"}
    /\ status' = "RELEASED"
    /\ synced' = synced \cup (IF freelancer /\ ~Booked("release") THEN {"release"} ELSE {})
    /\ UNCHANGED <<freelancer, chain, op, stage, jobVars>>

HandleVaultRefunded ==
    /\ "refunded" \in events
    /\ events' = events \ {"refunded"}
    /\ synced' = synced \cup (IF ~Booked("refund") THEN {"refund"} ELSE {})
    /\ UNCHANGED <<status, freelancer, chain, op, stage, jobVars>>

(* The acceptance of an invitation, which gives a vault without a contract *)
(* one: it writes address and FUNDED, whatever the status has become, and  *)
(* then moves the money there.  The deposit of a funding webhook, which    *)
(* may come late as well, is the same step.                                *)
DeployVault ==
    /\ chain = "none"
    /\ freelancer
    /\ chain' = "empty"
    /\ status' = "FUNDED"
    /\ UNCHANGED <<freelancer, op, stage, jobVars, events, synced>>

DepositToVault ==
    /\ chain = "empty"
    /\ chain' = "funded"
    /\ UNCHANGED <<status, freelancer, op, stage, jobVars, events, synced>>

(* The process restarts: its requests are gone, events it has not handled  *)
(* are not replayed, and BullMQ finds its running jobs stalled, re-queues  *)
(* them MaxStalls times and then fails them without calling the processor. *)
Crash ==
    /\ "crash" \in Faults
    /\ \/ \E r \in Requests : stage[r] \in Running \cup {"accepted", "marked"}
       \/ events # {}
    /\ stage' = [r \in Requests |->
                   IF stage[r] \in {"accepted", "marked"} THEN "done"
                   ELSE IF stage[r] \in Running
                        THEN IF stalls[r] < MaxStalls THEN "waiting" ELSE "failed"
                        ELSE stage[r]]
    /\ stalls' = [r \in Requests |->
                    IF stage[r] \in Running THEN stalls[r] + 1 ELSE stalls[r]]
    /\ address' = [r \in Requests |-> address[r] /\ stage[r] \notin Running]
    /\ events' = {}
    /\ UNCHANGED <<status, freelancer, chain, op, made, credits, synced>>
-----------------------------------------------------------------------------
Handler(r) ==
    \/ ReadForRelease(r) \/ ReadForRefund(r)
    \/ ReadForRequestRelease(r) \/ ReadForSubmit(r)

Finish(r) ==
    \/ MarkReleasing(r) \/ MarkRefunding(r)
    \/ WriteRequestRelease(r) \/ WriteSubmit(r)
    \/ EnqueueRelease(r) \/ EnqueueRefund(r)

Process(r) ==
    \/ TakeJob(r)
    \/ CommitRelease(r) \/ CommitRefund(r) \/ CommitThrows(r)
    \/ PayRelease(r) \/ PayRefund(r) \/ CompleteJob(r)
    \/ CatchRelease(r) \/ CatchRefund(r) \/ RetryJob(r)

Next ==
    \/ \E r \in Requests : Handler(r) \/ Finish(r) \/ Process(r)
    \/ HandleVaultReleased \/ HandleVaultRefunded
    \/ UpdateStatus
    \/ DeployVault \/ DepositToVault
    \/ Crash

Spec == Init /\ [][Next]_vars

(* A handler that has started runs on, and BullMQ keeps its workers going; *)
(* nobody has to send a request.                                           *)
FairSpec == /\ Spec
            /\ \A r \in Requests : WF_vars(Finish(r)) /\ WF_vars(Process(r))
-----------------------------------------------------------------------------
TypeOK ==
    /\ status \in Statuses
    /\ freelancer \in BOOLEAN
    /\ chain \in {"none", "empty", "funded", "released", "refunded"}
    /\ op \in [Requests -> Ops \cup {"none"}]
    /\ stage \in [Requests -> Stages]
    /\ made \in [Requests -> 0..MaxAttempts]
    /\ stalls \in [Requests -> 0..(MaxStalls + 1)]
    /\ address \in [Requests -> BOOLEAN]
    /\ credits \in [Requests -> Nat]
    /\ events \subseteq {"released", "refunded"}
    /\ synced \subseteq Settling

(* The escrow never pays a side the ledger has no entry for: the processor *)
(* commits its transaction before it calls the contract, across retries,   *)
(* crashes and lost receipts.                                              *)
PayoutBooked ==
    \A o \in Settling : chain = Payout(o) => Booked(o)

(* RELEASED and REFUNDED are only ever shown with the ledger entry that    *)
(* explains them, whichever of processor and listener wrote the status.    *)
StatusBooked ==
    \A o \in Settling : status = Settled(o) => Booked(o)

\* The job got past its call of the contract, and there was one to call.
Executed(r) == stage[r] \in {"paid", "completed"} /\ address[r]

(* Whatever races the handlers lose, at most one job that called the       *)
(* contract ever reports success, and it is the one whose settlement the   *)
(* escrow executed.  A job that read a vault without an address reports    *)
(* success with nothing executed, and any number of them may.              *)
SingleSuccess ==
    \A r, s \in Requests :
        /\ Executed(r) => chain = Payout(op[r])
        /\ Executed(r) /\ Executed(s) => r = s

(* A job credits the ledger again each time it is re-run, but never more   *)
(* often than its attempts and stalls allow.                               *)
CreditsBounded ==
    \A r \in Requests : credits[r] <= MaxAttempts + MaxStalls

(* The listener never finds an entry missing, so it and a processor never  *)
(* both book the same settlement.                                          *)
ListenerAddsNothing == synced = {}

(* The payout this vault performs is that of EscrowPayout.                 *)
Escrow == INSTANCE EscrowPayout WITH
            Sides  <- Settling,
            booked <- {o \in Settling : Booked(o)},
            paid   <- CASE chain = "released" -> "release"
                        [] chain = "refunded" -> "refund"
                        [] OTHER -> "none"
ImplementsEscrow == Escrow!Spec

\* A request or a job that will still take status out of InProgress(o).
Drives(r, o) ==
    /\ op[r] = o
    /\ \/ stage[r] \in {"marked", "waiting", "fetched", "caught"}
       \/ stage[r] = "rethrown" /\ ~LastAttempt(r)

(* RELEASING and REFUNDING always have someone working on them: a handler  *)
(* about to queue a job, or a job that will still write the outcome.  The  *)
(* second request is refused on the strength of that.  It needs a process  *)
(* that does not die, and a database and Redis that answer.                *)
InProgressIsDriven ==
    \A o \in Settling : status = InProgress(o) => \E r \in Requests : Drives(r, o)

(* Every job ends, completed or failed, if it is only given the time.      *)
JobsFinish ==
    \A r \in Requests : stage[r] = "waiting" ~> stage[r] \in {"completed", "failed"}

\* How many steps a request and its job may still take, however they go on:
\* the rest of this run, and every run that BullMQ may still give the job.
RunLeft == [new |-> 8, accepted |-> 7, marked |-> 6,
            waiting |-> 5, fetched |-> 4, credited |-> 3, caught |-> 2, paid |-> 1, rethrown |-> 1,
            done |-> 0, completed |-> 0, failed |-> 0]
StepsLeft(r) == 6 * (MaxAttempts + MaxStalls + 1 - made[r] - stalls[r]) + RunLeft[stage[r]]

(* No loop is free: whatever a job does, commit, pay, fail, be retried or  *)
(* be found stalled, leaves it fewer steps than it had.                    *)
WorkRunsOut ==
    [][\A r \in Requests :
          \/ UNCHANGED <<op[r], stage[r], made[r], stalls[r], credits[r]>>
          \/ StepsLeft(r)' < StepsLeft(r)]_vars

(* "Release initiated. Processing in background.": a vault does not stay   *)
(* RELEASING, nor REFUNDING.                                               *)
SettlementLeavesProgress ==
    \A o \in Settling : status = InProgress(o) ~> status # InProgress(o)

(* The inductive invariant behind the properties above: what each stage of *)
(* a job says about its ledger entries and counters.                       *)
StageInv(r) ==
    /\ stage[r] = "new" => op[r] = "none" /\ credits[r] = 0
    /\ stage[r] \in Queued \cup {"marked", "completed", "failed"} => op[r] \in Settling
    /\ stage[r] \in {"credited", "paid", "completed"} => credits[r] > 0
    /\ stage[r] \notin {"completed", "failed"}
         => made[r] < MaxAttempts /\ stalls[r] <= MaxStalls
    /\ made[r] + stalls[r] <= MaxAttempts + MaxStalls
    /\ credits[r] <= made[r] + stalls[r]
         \/ /\ stage[r] \in {"credited", "paid", "caught", "rethrown", "completed"}
            /\ credits[r] <= made[r] + stalls[r] + 1
            /\ made[r] < MaxAttempts /\ stalls[r] <= MaxStalls

IInv ==
    /\ TypeOK
    /\ \A r \in Requests : StageInv(r)
    /\ PayoutBooked
    /\ StatusBooked
    /\ SingleSuccess
    /\ ListenerAddsNothing
    /\ \A e \in events : chain = e
=============================================================================
