---------------------------- MODULE VaultWithdrawal ----------------------------
(***************************************************************************)
(* How a released vault is paid out to the freelancer's bank: the request  *)
(* to withdraw, the vault-withdrawal queue whose processor pays through    *)
(* Paycrest and falls back to Partna, the webhooks of both providers, and  *)
(* the admin who retries a withdrawal or declares it failed.               *)
(*                                                                         *)
(* The treasury transfers the amount to the address of an order, and the   *)
(* processor then writes the order into the vault.  No handler and no run  *)
(* of the processor looks at what was paid before.                         *)
(***************************************************************************)
EXTENDS Naturals

CONSTANTS Requests,       \* calls of a handler; the job it queues bears its name
          PaycrestOrders, \* orders at Paycrest that the treasury may pay
          PartnaRamps,    \* ramps at Partna that the treasury may pay
          Faults,         \* which failures of the environment may happen
          MaxAttempts,    \* `attempts`, given or by the default of app.module.ts (3)
          MaxStalls       \* how often BullMQ re-runs a job whose worker died (1 by default)

Orders == PaycrestOrders \cup PartnaRamps

ASSUME WithdrawalConstants ==
    /\ PaycrestOrders \cap PartnaRamps = {}
    /\ "none" \notin Orders
    /\ MaxAttempts \in Nat \ {0}
    /\ MaxStalls \in Nat
    /\ Faults \subseteq {"provider",  \* a provider or the transfer to it fails, nothing is paid
                         "receipt",   \* the transfer is mined, waiting for its receipt fails
                         "db",        \* a statement of the processor throws
                         "enqueue",   \* Redis refuses queue.add
                         "crash"}     \* the process dies and restarts

VARIABLES
    status,       \* Vault.status
    paycrestRef,  \* Vault.paycrestOrderId
    partnaRef,    \* Vault.partnaRampReference, once an off-ramp has written it
    order,        \* the provider's state of each order, "none" until it is paid
    handler,      \* how far each request is
    job,          \* how far the job it queued is
    made,         \* BullMQ's attemptsMade
    stalls,       \* BullMQ's stalled counter
    about,        \* the order its present run has paid
    sent          \* how often its runs have sent the amount

vaultVars == <<status, paycrestRef, partnaRef>>
jobVars   == <<job, made, stalls, about, sent>>
vars == <<vaultVars, order, handler, jobVars>>

Running == {"paycrest", "recordingPaycrest", "partna", "recordingPartna", "caught", "rethrown"}

Init ==
    /\ status \in {"RELEASED", "FUNDED"}
    /\ paycrestRef = "none" /\ partnaRef = "none"
    /\ order = [o \in Orders |-> "none"]
    /\ handler = [r \in Requests |-> "new"]
    /\ job = [r \in Requests |-> "none"]
    /\ made = [r \in Requests |-> 0]
    /\ stalls = [r \in Requests |-> 0]
    /\ about = [r \in Requests |-> "none"]
    /\ sent = [r \in Requests |-> 0]

Handle(r, from, to) ==
    /\ handler[r] = from
    /\ handler' = [handler EXCEPT ![r] = to]

\* queue.add
Queue(r) ==
    /\ job' = [job EXCEPT ![r] = "waiting"]
    /\ UNCHANGED <<made, stalls, about, sent>>
-----------------------------------------------------------------------------
(* initiateWithdrawal accepts a vault that is being paid out already.      *)
ReadForWithdrawal(r) ==
    /\ status \in {"RELEASED", "WITHDRAWAL_PENDING"}
    /\ Handle(r, "new", "accepted")
    /\ UNCHANGED <<vaultVars, order, jobVars>>

MarkPending(r) ==
    /\ Handle(r, "accepted", "marked")
    /\ status' = "WITHDRAWAL_PENDING"
    /\ UNCHANGED <<paycrestRef, partnaRef, order, jobVars>>

Enqueue(r) ==
    /\ Handle(r, "marked", "done")
    /\ \/ Queue(r)
       \/ "enqueue" \in Faults /\ UNCHANGED jobVars
    /\ UNCHANGED <<vaultVars, order>>

\* AdminService.retryWithdrawal queues first and marks afterwards.
ReadForRetry(r) ==
    /\ status \in {"WITHDRAWAL_PENDING", "WITHDRAWAL_FAILED", "FUNDED"}
    /\ Handle(r, "new", "retrying")
    /\ UNCHANGED <<vaultVars, order, jobVars>>

EnqueueRetry(r) ==
    /\ \/ Handle(r, "retrying", "requeued") /\ Queue(r)
       \/ "enqueue" \in Faults /\ Handle(r, "retrying", "done") /\ UNCHANGED jobVars
    /\ UNCHANGED <<vaultVars, order>>

MarkRetried(r) ==
    /\ Handle(r, "requeued", "done")
    /\ status' = "WITHDRAWAL_PENDING"
    /\ UNCHANGED <<paycrestRef, partnaRef, order, jobVars>>

\* Mutation: the vault is refunded at once.
DeclareRefunded(r) ==
    /\ Handle(r, "new", "done")
    /\ status' = "REFUNDED"
    /\ UNCHANGED <<paycrestRef, partnaRef, order, jobVars>>

\* AdminService.markWithdrawalFailed, on any vault.
DeclareFailed(r) ==
    /\ Handle(r, "new", "done")
    /\ status' = "FUNDED"
    /\ UNCHANGED <<paycrestRef, partnaRef, order, jobVars>>
-----------------------------------------------------------------------------
\* A provider decides an order that was paid, for good.
ProviderDecides ==
    /\ \E o \in Orders : /\ order[o] = "paid"
                         /\ \E s \in {"settled", "failed"} : order' = [order EXCEPT ![o] = s]
    /\ UNCHANGED <<vaultVars, handler, jobVars>>

(* The Partna webhook, at least once for every ramp decided, finds the     *)
(* vault by its present reference.                                         *)
ReadPartnaWebhook(r) ==
    /\ partnaRef # "none"
    /\ \/ order[partnaRef] = "settled" /\ Handle(r, "new", "settling")
       \/ order[partnaRef] = "failed" /\ Handle(r, "new", "resending")
    /\ UNCHANGED <<vaultVars, order, jobVars>>

\* A failed ramp is sent again, if the freelancer's bank code is found.
MarkResent(r) ==
    /\ \/ Handle(r, "resending", "marked") /\ status' = "WITHDRAWAL_PENDING"
       \/ Handle(r, "resending", "done") /\ UNCHANGED status
    /\ UNCHANGED <<paycrestRef, partnaRef, order, jobVars>>

\* Mutation: any webhook of the vault's order counts as success.
ReadPaycrestWebhookAny(r) ==
    /\ paycrestRef # "none" /\ status = "WITHDRAWAL_PENDING"
    /\ Handle(r, "new", "settling")
    /\ UNCHANGED <<vaultVars, order, jobVars>>

\* The Paycrest webhook only acts on success, and while the vault waits.
ReadPaycrestWebhook(r) ==
    /\ paycrestRef # "none" /\ status = "WITHDRAWAL_PENDING"
    /\ order[paycrestRef] = "settled"
    /\ Handle(r, "new", "settling")
    /\ UNCHANGED <<vaultVars, order, jobVars>>

WriteSettled(r) ==
    /\ Handle(r, "settling", "done")
    /\ status' = "RELEASED"
    /\ UNCHANGED <<paycrestRef, partnaRef, order, jobVars>>
-----------------------------------------------------------------------------
(* The processor; its worker takes one job at a time.                      *)
Move(r, from, to) ==
    /\ job[r] = from
    /\ job' = [job EXCEPT ![r] = to]

\* A failure of the read is outside the try block.
TakeJob(r) ==
    /\ \A s \in Requests : job[s] \notin Running
    /\ \/ Move(r, "waiting", "paycrest")
       \/ "db" \in Faults /\ Move(r, "waiting", "rethrown")
    /\ UNCHANGED <<vaultVars, order, handler, made, stalls, about, sent>>

\* The treasury pays a fresh order, and the run goes on, knowing of it or not.
Send(r, o) ==
    /\ order[o] = "none"
    /\ order' = [order EXCEPT ![o] = "paid"]
    /\ sent' = [sent EXCEPT ![r] = @ + 1]

Know(r, o) == about' = [about EXCEPT ![r] = o]
Forget(r)  == about' = [about EXCEPT ![r] = "none"]

\* Mutation: the order is recorded before it is paid.
PayPaycrestLate(r) ==
    /\ \E o \in PaycrestOrders : order[o] = "none" /\ Know(r, o)
    /\ Move(r, "paycrest", "recordingPaycrest")
    /\ UNCHANGED <<vaultVars, order, handler, made, stalls, sent>>

PayPaycrest(r) ==
    /\ \E o \in PaycrestOrders :
        /\ Send(r, o)
        /\ \/ Move(r, "paycrest", "recordingPaycrest") /\ Know(r, o)
           \/ "receipt" \in Faults /\ Move(r, "paycrest", "partna") /\ UNCHANGED about
    /\ UNCHANGED <<vaultVars, handler, made, stalls>>

RecordPaycrest(r) ==
    /\ Move(r, "recordingPaycrest", "completed")
    /\ status' = "WITHDRAWAL_PENDING"
    /\ paycrestRef' = about[r]
    /\ Forget(r)
    /\ UNCHANGED <<partnaRef, order, handler, made, stalls, sent>>

\* The inner try block is the fallback for every error above it.
FallBack(r) ==
    /\ \/ "provider" \in Faults /\ Move(r, "paycrest", "partna")
       \/ "db" \in Faults /\ Move(r, "recordingPaycrest", "partna")
    /\ Forget(r)
    /\ UNCHANGED <<vaultVars, order, handler, made, stalls, sent>>

PayPartna(r) ==
    /\ \E o \in PartnaRamps :
        /\ Send(r, o)
        /\ \/ Move(r, "partna", "recordingPartna") /\ Know(r, o)
           \/ "receipt" \in Faults /\ Move(r, "partna", "caught") /\ UNCHANGED about
    /\ UNCHANGED <<vaultVars, handler, made, stalls>>

RecordPartna(r) ==
    /\ Move(r, "recordingPartna", "completed")
    /\ status' = "WITHDRAWAL_PENDING"
    /\ partnaRef' = about[r]
    /\ Forget(r)
    /\ UNCHANGED <<paycrestRef, order, handler, made, stalls, sent>>

PartnaFails(r) ==
    /\ \/ "provider" \in Faults /\ Move(r, "partna", "caught")
       \/ "db" \in Faults /\ Move(r, "recordingPartna", "caught")
    /\ Forget(r)
    /\ UNCHANGED <<vaultVars, order, handler, made, stalls, sent>>

LastAttempt(r) == made[r] + 1 >= MaxAttempts

\* Mutation: the status does not wait for the last attempt.
CatchPartnaEarly(r) ==
    /\ Move(r, "caught", "rethrown")
    /\ status' = "WITHDRAWAL_FAILED"
    /\ UNCHANGED <<paycrestRef, partnaRef, order, handler, made, stalls, about, sent>>

\* Mutation: the catch block tries the fallback again itself.
CatchPartnaAgain(r) ==
    /\ Move(r, "caught", "partna")
    /\ UNCHANGED <<vaultVars, order, handler, made, stalls, about, sent>>

CatchPartna(r) ==
    /\ Move(r, "caught", "rethrown")
    /\ \/ LastAttempt(r) /\ status' = "WITHDRAWAL_FAILED"
       \/ (~LastAttempt(r) \/ "db" \in Faults) /\ UNCHANGED status
    /\ UNCHANGED <<paycrestRef, partnaRef, order, handler, made, stalls, about, sent>>

\* BullMQ counts the attempt and re-queues the job or gives it up.
RetryJob(r) ==
    /\ Move(r, "rethrown", IF LastAttempt(r) THEN "failed" ELSE "waiting")
    /\ made' = [made EXCEPT ![r] = @ + 1]
    /\ UNCHANGED <<vaultVars, order, handler, stalls, about, sent>>

(* A restart ends the handlers; the job that was running is found stalled, *)
(* re-queued MaxStalls times and then failed without calling the processor.*)
Crash ==
    /\ "crash" \in Faults
    /\ \E r \in Requests : handler[r] \notin {"new", "done"} \/ job[r] \in Running
    /\ handler' = [r \in Requests |-> IF handler[r] = "new" THEN "new" ELSE "done"]
    /\ job' = [r \in Requests |-> IF job[r] \notin Running THEN job[r]
                                  ELSE IF stalls[r] < MaxStalls THEN "waiting" ELSE "failed"]
    /\ stalls' = [r \in Requests |-> IF job[r] \in Running THEN stalls[r] + 1 ELSE stalls[r]]
    /\ about' = [r \in Requests |-> "none"]
    /\ UNCHANGED <<vaultVars, order, made, sent>>
-----------------------------------------------------------------------------
Handler(r) ==
    \/ ReadForWithdrawal(r) \/ MarkPending(r) \/ Enqueue(r)
    \/ ReadForRetry(r) \/ EnqueueRetry(r) \/ MarkRetried(r) \/ DeclareFailed(r)
    \/ ReadPartnaWebhook(r) \/ MarkResent(r) \/ ReadPaycrestWebhook(r) \/ WriteSettled(r)

Process(r) ==
    \/ TakeJob(r) \/ PayPaycrest(r) \/ RecordPaycrest(r) \/ FallBack(r)
    \/ PayPartna(r) \/ RecordPartna(r) \/ PartnaFails(r) \/ CatchPartna(r) \/ RetryJob(r)

Next ==
    \/ \E r \in Requests : Handler(r) \/ Process(r)
    \/ ProviderDecides
    \/ Crash

Spec == Init /\ [][Next]_vars
-----------------------------------------------------------------------------
Handlers == {"new", "accepted", "marked", "retrying", "requeued", "settling", "resending", "done"}
Jobs     == {"none", "waiting", "completed", "failed"} \cup Running

TypeOK ==
    /\ status \in {"FUNDED", "RELEASED", "WITHDRAWAL_PENDING", "WITHDRAWAL_FAILED"}
    /\ paycrestRef \in PaycrestOrders \cup {"none"}
    /\ partnaRef \in PartnaRamps \cup {"none"}
    /\ order \in [Orders -> {"none", "paid", "settled", "failed"}]
    /\ handler \in [Requests -> Handlers]
    /\ job \in [Requests -> Jobs]
    /\ made \in [Requests -> Nat]
    /\ stalls \in [Requests -> Nat]
    /\ about \in [Requests -> Orders \cup {"none"}]
    /\ sent \in [Requests -> Nat]

(* An order the vault names has been paid by the treasury, whichever job   *)
(* wrote it and however often runs were repeated: a webhook of it always   *)
(* speaks of money that is under way.                                      *)
RecordedIsPaid ==
    /\ paycrestRef # "none" => order[paycrestRef] # "none"
    /\ partnaRef # "none" => order[partnaRef] # "none"

(* A job sends the amount at most twice a run, once by each provider, so   *)
(* what can be lost is bounded by the attempts BullMQ has counted and the  *)
(* stalls it has found, whatever fails.                                    *)
TwiceARun ==
    \A r \in Requests : sent[r] <= 2 * (made[r] + stalls[r] + 1)

(* A withdrawal is only shown as failed once some job of the vault has     *)
(* come to its last attempt, over all retries, crashes and admin calls.    *)
FailedIsExhausted ==
    status = "WITHDRAWAL_FAILED" => \E r \in Requests : job[r] # "none" /\ LastAttempt(r)

(* A vault goes back to RELEASED only when a provider has settled one of   *)
(* its orders, however late the webhook writes it.                         *)
BackWhenSettled ==
    [][status' = "RELEASED" /\ status # "RELEASED"
         => \E o \in Orders : order[o] = "settled"]_vars

(* The inductive invariant: counters of a job at each stage of its run.    *)
Sendings(r) == IF job[r] \in {"recordingPaycrest", "partna"} THEN 1
               ELSE IF job[r] \in {"recordingPartna", "caught", "rethrown", "completed"} THEN 2
               ELSE 0

JobInv(r) ==
    /\ job[r] = "none" => made[r] = 0 /\ stalls[r] = 0 /\ sent[r] = 0
    /\ handler[r] \in {"new", "accepted", "marked", "retrying", "resending"} => job[r] = "none"
    /\ sent[r] <= 2 * (made[r] + stalls[r]) + Sendings(r)
    /\ job[r] # "failed" => made[r] < MaxAttempts /\ stalls[r] <= MaxStalls
    /\ made[r] + stalls[r] <= MaxAttempts + MaxStalls
    /\ job[r] = "recordingPaycrest" => about[r] \in PaycrestOrders /\ order[about[r]] # "none"
    /\ job[r] = "recordingPartna" => about[r] \in PartnaRamps /\ order[about[r]] # "none"
    /\ handler[r] = "settling" => \E o \in Orders : order[o] = "settled"

IInv ==
    /\ TypeOK
    /\ \A r \in Requests : JobInv(r)
    /\ RecordedIsPaid
    /\ FailedIsExhausted

(* "Paycrest failed, falling back to Partna": a run of the job sends the   *)
(* amount through one provider.                                            *)
OneProviderPays == \A r \in Requests : sent[r] <= made[r] + 1
=============================================================================
