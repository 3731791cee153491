# Dayle escrow backend: TLA+ models and proofs

Dayle is an escrow service. A client opens a *vault* for a project, funds it in
local currency through Partna or Paycrest, and a freelancer is paid out of it;
the money itself sits in one escrow contract per vault on an EVM chain. The
backend is a NestJS process with a Postgres database (Prisma, READ COMMITTED),
a Redis cache with publish/subscribe, and BullMQ queues. This directory models
what that process does to a vault's state, checks it with TLC and proves the
central invariants with TLAPS. All paths below are under `src/src/`.

## 1. Inventory

| component | state it keeps | operations | talks to |
|---|---|---|---|
| **Vault settlement**: `vaults/vaults.service.ts`, `vault-release.processor.ts`, `vault-refund.processor.ts` | `Vault.status`, RELEASE / REFUND ledger entries, the jobs of two queues | `release`, `refund`, `updateStatus`, `requestRelease`, `requestRefund`, `submit`; the two processors | queues, contract, cache, notifications |
| **Disputes**: `disputes/disputes.service.ts` | `Dispute` rows with their events, `Vault.status`, ledger | create, escalate, investigate, proposeSettlement, requestTotalRefund / Release, acceptSettlement, resolve | contract inside a transaction, gateway, mail |
| **Contract events**: `common/services/blockchain.service.ts` | none of its own | handlers of Deposited, VaultReleased, VaultRefunded by WebSocket and by polling; the calls deploy, deposit, release, refund, settle, collectFee | contract, vault, disputes, ledger |
| **Vault funding**: `vaults.service.ts` (`fund`, `initiatePartnaFunding`, `confirmPayment`), `webhooks/webhooks.service.ts`, `vaults/jobs/vaults-expiry.job.ts` | ramp reference, bank details and their expiry, DEPOSIT and LOCK entries | start a ramp, webhook of the provider, expiry every five minutes, deposit by the relayer | Partna, Paycrest, contract |
| **Withdrawals**: `vault-withdrawal.processor.ts`, `ledger/ledger.service.ts`, `admin/admin.service.ts` | WITHDRAWAL_PENDING / FAILED, WITHDRAWAL entries, idempotency keys | initiateWithdrawal, processor with a second provider as fallback, `withdraw`, admin retry | Partna, Paycrest |
| **Creation and assignment**: `VaultsService.create`, `updateFreelancer`, `invites/invites.service.ts` | `Invite` rows, `Vault.freelancerId`, the contract's freelancer | deploy and create, invite, respond, replace the freelancer | contract, LOCK entry, Redis |
| **Sessions**: `auth/`, `common/guards/` | session rows, token blacklist in Redis | Privy login, logout, revoke, guard | Redis, Privy |
| **Onboarding and KYC**: `onboarding/`, KYC parts of `admin/` and `webhooks/` | KYC status, country, Partna account | role, identity, OTP, Didit session and webhook, reset | Didit, Partna |
| **Rates, payment methods, cache, reconciler** | Redis values with a time to live; one default method; `isFrozen` | read-through and invalidation; set default; compare balances | Redis, providers |
| **Notifications, mail, evidence, uploads, AI summary, provider clients** | none that anyone decides on | input and output | |

How they interact: HTTP handlers read a row, check it, `await`, and write it
with no condition on what they read. Queue processors and webhook handlers do
the same, and the contract's events come back through a listener that runs
next to all of them. The only lock is the row lock a database transaction takes
by writing; only dispute resolution holds one across a contract call.

The hard behaviours, and the properties that make each component correct:

- **Settlement.** Two requests pass the same guard; a release and a refund are
  in separate queues and run at once; jobs are retried after their transaction
  has committed; the process dies at any point; a call is mined but its receipt
  is lost. *The escrow pays one side once; what it pays or shows as settled has
  a ledger entry; of the jobs that call the contract only the one whose
  settlement was executed reports success; nobody waits for ever on RELEASING.*
- **Disputes.** Offers, acceptances, escalations and admin resolutions of
  several disputes of one vault overlap; the transaction may time out after the
  contract has paid; the dashboard writes dispute and vault as it likes. *A
  mediated amount was offered by the other party in time; a full outcome is
  booked once, and is what the contract has paid; shares add up; the window
  never grows past 96 hours.*
- **Funding.** Webhooks come twice, late or for a reference that has been
  replaced or cleared; the on-chain deposit may fail unseen.
  *Nothing is credited that was not paid; the escrow is filled after the booking;
  a vault that awaits payment can be found by its
  webhook; a freelancer is locked in at most once.*
- **Withdrawals.** Balance check and debit are apart; a failure after the first
  provider accepted starts a second one. Late webhooks, retries and the admin overwrite
  each other's status. *A run pays at most once at each provider; what the vault
  names was paid; RELEASED comes back only after a settled order; a key debits
  the ledger once, and races overdraw it by a bounded amount.*
- **Assignment.** Two invitations, or an invitation and a replacement, overlap;
  the contract's hand-over comes before or after the row. *Row and contract name
  the same freelancer; one freelancer, one LOCK entry; deposits are paid for.*
- **Login.** No transaction, unique keys only; a login dies between the user's row
  and the wallet's, or two run at once. *Whoever is logged in has a wallet.*
- **KYC.** Calls wait for Partna while webhooks, admins and profile edits write
  the row they have read. *Verified rests on Partna, a reported approval or an
  admin; ready on Partna.*

`PROJECT.json` lists every hazard at its line and the property that covers it.

## 2. Plan

| order | module | abstract specification / composition | runs | theorems |
|---|---|---|---|---|
| done | `VaultSettlement` | implements `EscrowPayout` | settlement, settlement_live | types, safety, refinement |
| done | `FeeSchedule`, `DisputeResolution` | dispute module extends the fee arithmetic | disputes, late_offer | types, safety, window |
| done | `VaultFunding` | implements `FundingOrder`; includes the transaction of an invitation's answer, with which it shares the LOCK entry | funding | types, safety, refinement |
| done | `VaultWithdrawal` | the queue with its fallback provider, both webhooks, the admin's calls | withdrawal, paid_twice | types, safety |
| done | `Onboarding` | one user's row against Partna, Didit and the admins | onboarding | types, safety |
| done | `LedgerWithdraw` | idempotency keys, balance and transaction of `LedgerService.withdraw` around the order at Paycrest; implements `OverdraftAccount` | ledger, key_ordered_twice | types, safety, refinement |
| done | `PrivyLogin` | users and wallets against Privy's accounts, without transactions | login | types, safety |
| done | `VaultAssignment` | creation, invitation, reassignment and acceptance of vaults, row against contract; shares the acceptance with `VaultFunding` | assignment | types, safety |

## 3. The modules and the code

### EscrowPayout
The promise of a settlement: sides are booked, and one booked side is paid.

### VaultSettlement
One vault, from FUNDED on, whose contract is funded, still empty, or not yet
there. Each request `r` plays one handler; `stage[r]` says how far it is:
`accepted` (row read, checks passed), `marked` (RELEASING or REFUNDING written),
`waiting` (job queued), `fetched`, `credited` (status and ledger entry
committed), `paid` (the contract call confirmed, or skipped), `caught`,
`rethrown`, `completed`, `failed`.

| model | code |
|---|---|
| `ReadFor...` / `Mark...`, `Write...` | the read and checks, and the later unconditional `vault.update`, of `release`, `refund`, `requestRelease`, `submit` |
| `UpdateStatus` | `updateStatus`, which reads nothing its write depends on, as often as the client likes |
| `Enqueue...` | `queue.add`, or only a warning when the queues are not registered (`BullEnabled`) |
| `TakeJob`, `Commit...`, `Pay...`, `CompleteJob`, `Catch...`, `RetryJob` | the processors: read, transaction, contract call, catch block, and BullMQ's count of attempts |
| `CallContract` | the call under `if (vault.vaultAddress)`, where `address` is what the run has read of the row |
| `HandleVault...` | the listener attached to the vault's contract |
| `DeployVault`, `DepositToVault` | what the acceptance of an invitation, or a funding webhook, still does to a vault that is FUNDED |
| `Crash` | restart: requests and unhandled events are lost, running jobs are found stalled |

Abstractions: ledger entries are counted per job; only the entry credited to
the receiving side is kept (the fee entry and the debit are in the same
transaction). Reads that find nothing, authorisation, cache, notifications and
mail are left out: none feeds a decision here. Whether the vault has its
freelancer is fixed per behaviour, and there is at most one contract; who the
freelancer is and contracts that are replaced are in `VaultAssignment`.
`StatusBooked` speaks of the writers in this module; the off-ramp webhooks,
which also write RELEASED, are in `VaultWithdrawal`. `SingleSuccess` counts
the jobs that have called the contract; those that found no address report
success as well, with nothing executed. `StepsLeft` counts what a request and
its job may still do; `WorkRunsOut` says that whatever they do reduces it.

### FeeSchedule
The tier of the settlement fee, the 10%..90% bounds and the shares of a split,
as the integer arithmetic of the code, in cents.

### DisputeResolution
One vault with its disputes; `stage[r]` is the progress of a request and
`request[r]` what it read. `lock` is the vault's row lock, which the
transaction of `resolve` holds while it calls the contract (`BeginResolve`,
`CallContract`, `CommitResolve`). `CallContract` covers the call that pays, one
that is mined while the transaction is rolled back (it times out, or loses a
deadlock against the dashboard's), one that fails, the call a vault without an
address does not make, and a revert, which a split takes for "already settled"
and a full outcome does not. `Reverts` says when: the contract is empty or has
paid, or (fault `revert`) it holds the deposit but less than it must pay, as after
`collectFee`. `AdminResolveDispute` is the dashboard's
`PATCH /admin/disputes/:id/resolve`: any status of the dispute, and any of the
vault, with no contract call and no look at what they were. `LateOffer` is the
force-escalation after 96 hours. The listener's release handler updates the
vault and so waits for the lock; its refund handler does not. What events a
settlement of its own emits is not in the ABI, so any set of the two is
allowed. The vault has both parties; it need not have a contract. A check of the clock and
the write it allows are one step: nothing is awaited between them. A dispute's
resolution type, events and vault status are as in the code; evidence and AI
summaries are left out.

`FullOutcomePaid` says what closing a dispute is worth: when `resolve` has booked
a full release or refund of a vault with a contract, that is what the contract
has done. It says nothing of a RESOLVED status by itself, which the dashboard
and the listener write too, and nothing of a split, which swallows reverts.

### FundingOrder
The promise of funding: the client's money is received by the provider, then
booked, and only then does the treasury fill the escrow.

### VaultFunding
One vault until it is FUNDED. Each request `r` is a call of one handler: a
funding request, the delivery of a webhook, or the answer to an invitation;
`stage[r]` is the statement it is at, and `about`, `who`, `target`, `found` are
its local variables (the ramp, the freelancer it read, the ledger entry and the
LOCK entry it looked for). `row` holds the vault's row lock: the webhook and the
acceptance write the vault first in their transactions, and every other writer
of the vault waits for the commit.

| model | code |
|---|---|
| `ReadForRamp`, `CreateRamp`, `WriteAwaiting`, `FindEntry`, `WriteEntry` | `initiatePartnaFunding` |
| `StartCollection`, then the last two | `fund` through the payment router |
| `Lookup`, `BeginFund`, `FindLock`, `CommitFund`, `FindDeposit`, `Deposit`, `AttributeDeposit`, `SweepFee` | the Partna webhook, on-ramp success |
| `WriteFailed`, `WriteFallback` | its failure branch, and the branch that finds no vault |
| `SelectExpired`, `ExpireVault` | the job that runs every five minutes |
| `HearDeposited`, `MarkDeposited` | the handler of Deposited, by WebSocket or polling |
| `ReadInvite`, `WriteDecline`, `BeginAccept`, `FindOwnLock`, `CommitAccept` | `InvitesService.respond`, up to the commit |
| `ProviderDecides` | the provider: an issued ramp is paid or fails, for good |
| `Throw`, `Crash` | an exception ends a handler, a restart all of them; open transactions roll back |

Abstractions: bank details and expiry date are set and cleared with the
reference, which stands for them; `expired` says that the expiry date has
passed. Amounts and rates are left out: nothing here compares them. A
transaction's writes appear at its commit, and the vault's row is held from its
first statement. The contract takes one deposit, as the code's own error text
"Vault already funded or invalid state" has it. Webhooks are authentic and speak
of ramps the provider has decided, any number of times. Of two CONFIRMED
deposits the code takes the latest, the model any.

### VaultWithdrawal
One vault whose escrow has been released. Each request `r` is a call of one
handler, `handler[r]` how far it is, and the job it queues has the same name:
`job[r]` is where the processor is with it, `about[r]` the order its present run
has paid, `made` and `stalls` BullMQ's counters, `sent[r]` the transfers its
runs have made. `order` is the provider's view of each order.

| model | code |
|---|---|
| `ReadForWithdrawal`, `MarkPending`, `Enqueue` | `initiateWithdrawal` |
| `ReadForRetry`, `EnqueueRetry`, `MarkRetried`, `DeclareFailed` | the admin's retry, which queues before it marks, and `markWithdrawalFailed` |
| `ReadPartnaWebhook`, `ReadPaycrestWebhook`, `WriteSettled` | the off-ramp branches of the webhooks |
| `MarkResent`, then `Enqueue` | a failed ramp, sent again through `scheduleWithdrawalRetry` |
| `TakeJob`, `PayPaycrest`, `RecordPaycrest` | the outer try block of the processor |
| `FallBack`, `PayPartna`, `RecordPartna`, `PartnaFails`, `CatchPartna` | its catch block with the inner try |
| `RetryJob`, `Crash` | BullMQ's attempts, and a restart that finds the running job stalled |

Abstractions: every run creates fresh orders, so an order is taken from those
never paid; an order that was created and not paid leaves no trace. All amounts
are the vault's payout. The vault may start FUNDED, where the admin may retry;
its settlement is in `VaultSettlement`. Webhooks are authentic and come any
number of times. The reference a funding ramp left in the vault is not an
off-ramp, so it counts as none. The worker has the default concurrency of one.

### Onboarding
One user, from the submitted country to the payment account. Each call is at a
step and goes by the place and name it has read; `verified`, `virtual`, `otp`
and `account` are what Partna knows; `heard` is a history of the reports that Didit approves.
A step ends
where the code awaits Partna, Didit or a write of the row, and the next begins
with what was read before.

| model | code |
|---|---|
| `InitializePartnaAccount`, with `Missed` and `Register` | `initializePartnaAccount` and the lookup and recovery inside `createAccount` |
| `SubmitIdentity`, `EnterIdentity` | `submitIdentity`, until the row is written |
| `VerifyIdentity`, `AskForOtp`, `OpenAccount`, `NoteOtp`, `RecordReady`, `CallFails` | `verifyIdentity`; the Nigerian and the Kenyan half differ in provider calls only and share the actions |
| `SelectKycMethod`, `VerifyKycOtp`, `RecordReadyAfterOtp` | the password's way, `confirmKycPhone` included |
| `SubmitKyc`, `RecordKyc`, `GetDiditSession`, `RecordPending`, `HandleDiditWebhook` | Didit's way |
| `HandleKyc`, `ManualVerifyUser`, `ResetKyc`, `RecordReset` | the admin's calls |
| `UpdateProfile` | `AuthService.updateProfile` |

Abstractions: BVN and phone number are the Boolean `identified`, names at Partna
are `own` or `other`, a customer or reference is kept by what it was made from,
and any country but the two supported is one value. Partna's
answers are free within what it knows. A report at the Didit webhook is free: it
needs no session of ours, and `webhooks.service.ts:721-726` logs an invalid signature
and goes on. What `VerifiedIsVouched` says of Didit is therefore that an approval was
reported, not that Didit has decided so; that would take the assumption that all
reports are authentic, which the code does not establish.

### OverdraftAccount
The promise of the ledger: a debit spends a key and stays within a credit line.

### LedgerWithdraw
One user's balance. A call of `withdraw` goes through `verified`, `rated`,
`covered` and `ordered`, one for each await whose result it uses later; `records` are the
idempotency records and `entries` the committed withdrawals, each with its fee.

| model | code |
|---|---|
| `CheckKyc`, `FindRecord`, `CheckBalance` | the reads before the transaction, with `getDisplayRate` and `getBalance` |
| `InitiateOfframp`, `CallOfframp`, `Order` | `PaymentRouter.initiateOfframp` inside the transaction |
| `Commit`, `Fail` | entries, record and notification, then the commit; or the rollback, which leaves the order |
| `PaycrestDecides`, `HandlePaycrestWebhook` | the order's outcome, and the webhook that looks for an entry with the order's id |

Abstractions: amounts are whole units, so that fees are integer divisions; `earned`
is the sum of RELEASE entries. The net amount of an order decides nothing and is left
out. `withdraw` does not transfer tokens to the order it has placed, so that an order
here is a request for a payout and no payment. The client's half of `getBalance` differs in the
type of entry it adds up only. A record's expiry date is read by nothing.

### PrivyLogin
`privyLogin`, statement by statement. A call carries Privy's answer as it was
(`email`, `real`) and the user and wallet it has found.

| model | code |
|---|---|
| `GetUser`, `FindByEmail`, `FindByDid` | the token, Privy's user, and the two lookups |
| `CreateUser`, `FindOrphan`, `AdoptWallet`, `CreateWallet` | a new user |
| `CompleteProfile`, `LinkMissing`, `ReplacePending`, `KeepWallet` | a known one |
| `CreateSession`, `Fail` | the session; a unique key, the database or the process ends the login |
| `PrivyChangesEmail`, `PrivyCreatesWallet` | the person's accounts at Privy |

Abstractions: a user is named by the email it was created with, which nothing
changes, a wallet by its DID. Names, countries and roles are left out: the login decides nothing on them. `moved` is a history of users whose wallet went to another.

### VaultAssignment
Rows, contracts and invitations. A call is in one of three handlers, at the
await its `pc` names, with what it has read in its record. `doubt` is the history of
vaults for which the code itself gives up the agreement of row and contract:
the freelancer had no proper address, the hand-over failed, two users'
acceptances overlapped, or the client reassigned a vault that had its freelancer.

| model | code |
|---|---|
| `BeginCreate`, `DeployFirst`, `InsertVault` | `VaultsService.create` |
| `BeginInvite`, `CheckUnassigned`, `InsertInvite` | `InvitesService.create`, on its own and as a part of the two others |
| `BeginReassign`, `ReassignOnChain`, `ExpireInvites` | `updateFreelancer` |
| `BeginRespond`, `Decline`, `Accept` | `respond`, up to the commit |
| `HandOver`, `DeployOnAcceptance`, `PlaceContract`, `DepositToVault` | its calls to the contract and the update between them |
| `WalletLinked`, `PaymentReported` | what `PrivyLogin` and `VaultFunding` contribute |

Abstractions: the answer that `create` keeps in Redis under an idempotency key is left
out, since all it does is end a repetition before anything is written. Users are known by email; those who are not registered yet count
as users without a wallet. The vault's status is FUNDED or not. `contract[a].for` remembers
for which vault a contract was deployed.
Operators marked "Mutation:" beside a definition are plausible slips in the
same code; no specification uses them. Each property has one that breaks it.

## 4. Runs

| run | bounds | shows |
|---|---|---|
| settlement | 2 requests, all handlers, 3 attempts and 1 stall as in the code, status writes without limit, crashes, database, queue, RPC and receipt failures; no contract, an empty and a funded one, with and without freelancer | escrow pays once and what it pays is booked; statuses are booked; one success; credits bounded; the listener adds nothing; every step uses up work; refinement of `EscrowPayout` |
| settlement_live | as settlement, with failing contract calls and lost receipts, without the other failures | jobs end, and a vault is driven out of RELEASING and REFUNDING |
| disputes | 3 requests, 2 disputes of one vault, amounts below the lower bound of an offer, at and above the upper one (0, 899 and 900 of 999), no contract, an empty and a funded one, clock 0..4 with a window of 2 and a cap of 4, failing, reverting and half-done calls | consent, full outcomes booked once and paid, conservation, window |
| late_offer (violation) | 1 request, 1 dispute | a late offer announces a review that is rolled back |
| funding | 4 calls in any mix, 2 ramps, 2 freelancers, all failures | nothing is credited unpaid; one LOCK entry; a vault that awaits payment can be found by its webhook; refinement of `FundingOrder` |
| withdrawal | 2 calls in any mix, 2 orders at each provider, 3 attempts and 1 stall as in the code, all failures | recorded orders are paid; at most two transfers a run; failed only after a last attempt; RELEASED again only after a settled order |
| paid_twice (violation) | 1 call, failing database | one run pays through both providers |
| onboarding | 1 user, 2 calls at a time, any number of webhooks, admin calls and profile edits, failing requests and writes | VERIFIED rests on Partna, a reported approval or an admin; ready rests on Partna; accounts are opened for verified countries only |
| ledger | 2 calls at a time, 3 keys, 3 transactions, 1 amount, 1 rate besides 1, earnings up to two amounts | a key debits once; the overdraft of racing calls is bounded; refinement of `OverdraftAccount` |
| key_ordered_twice (violation) | the same | requests with one key place two orders |
| login | 2 DIDs, 2 emails, 2 logins at a time, cut off anywhere | a user who is logged in has a wallet, with two named exceptions |
| assignment | 2 freelancers, 1 vault that is new or exists without a contract, 2 contracts, 2 invitations, 2 calls at a time | the contract pays the freelancer of the row once acceptances have reached it; acceptances deposit only for paid vaults; nothing deadlocks |

Why the bounds are enough: a race here needs two requests; in settlement what a
third would add, another status between them (cancel, then a new release), is
written by `UpdateStatus` at any time. With three requests and all failures the
state space no longer fits a run of a few minutes. Attempts and stalls are the
code's own, 3 and BullMQ's default of 1, and the crash that exceeds them is included.
In disputes the third request opens or closes a dispute while two resolutions race. Symmetry over requests is used in the safety
runs only. Deadlock is not checked where all requests may have been served:
the program is idle then.

Fairness: weak fairness of the steps of a request that has been accepted and of the
job it queued. Node runs an accepted handler to its end and BullMQ keeps
polling its workers. Nothing obliges anyone to send a request, the listener to
receive an event, or the process to crash.

For funding four calls allow, for instance, a funding request, its webhook twice
and an acceptance, or two funding requests with a webhook for each; two ramps
make a replaced reference and two freelancers a replaced acceptance. Its
specification states no fairness: it has only safety properties.

For withdrawal two orders at each provider give two complete double payments, of
one job that retries or of two jobs. Its specification states no fairness.

For onboarding two calls make every stale write meet a call that changed the
row in between; webhooks, admins and profile edits are not bounded at all.

For the ledger two calls race for one balance and a third transaction shows that
an overdraft does not grow; the missing rate makes the dollar amount, and so the
overdraft, larger than the balance. The number of transactions is bounded by `MaxTries`.

For logins two DIDs and two emails give one person with two emails and two
persons with one; the run has no bound on the number of logins.

For assignment two invitations and two calls make two acceptances race, or one
and a reassignment; two contracts a vault whose contract is replaced.

## 5. Proofs

Assumptions are those on the constants, one named ASSUME in each module
(`SettlementConstants`, `DisputeConstants`, `FundingConstants`,
`WithdrawalConstants`, `OnboardingConstants`, `LedgerConstants`,
`LoginConstants`, `AssignmentConstants`), nothing else; the number of requests,
calls, users, vaults, contracts, orders, keys, attempts and amounts is
arbitrary, and so are the failures.

- `VaultSettlementProofs`. `IInv` joins the properties with `StageInv`: what
  each stage of a job says of its credits and counters (a job that may pay has
  booked; a live job has attempts and stalls left; credits are at most one
  ahead of attempts plus stalls), and with: an event in flight is what the
  contract has done. Without the last the listener's write of RELEASED could not
  be shown to be booked. From it follow `PayoutIsBooked`, `StatusIsBooked`,
  `OneSuccess` (of the jobs that called the contract), `CreditBound`, `ListenerSilent`, and the step half of the
  refinement `Refinement`. `AlwaysDriven` is a second invariant, for
  configurations with queues and without crashes or a failing database or Redis.
  `WorkAlwaysRunsOut` and `StepsLeftAreFinite` are the part of `JobsFinish` that
  needs no fairness, under all failures: a job cannot go round for ever, because
  each of its steps reduces a natural number, and no other step raises it. What
  is left to TLC is that a waiting job is served.
- `DisputeResolutionProofs`. `IInv` follows the row lock: from `BeginResolve` to
  the commit no other request can book or close anything, so the request that
  has called the contract for a full outcome knows that this is what it did and
  that no full outcome is booked (`RequestInv`), which `FullOutcomeBookedOnce` and
  `FullOutcomeIsPaid` need. The dashboard's writes do not touch the ledger. Every ledger entry goes back to a finished
  request or the listener (`EntryInv`), the latest offer is one that was made in
  time (`LatestInv`), the window is between now and the cap (`WindowInv`).
  `SharesAddUp` holds for every amount and total, `MediationLeavesBoth` for every
  settlement between the parties.
- `VaultFundingProofs`, from `FundingConstants` (the names used as "none" are
  not among the requests, ramps and freelancers). `IInv` adds to the properties
  `RequestInv`, what each stage knows (a request that credits is about a paid
  ramp; exactly a request in a transaction holds the row; a request that is
  about to create a LOCK entry looked for it under the row lock, so there is
  still none), and `MoneyInv`, which orders payment, booking, escrow and the
  listener's event. Without the former `LockOnce` could not be shown: it is the
  lock that keeps "none found" true until the commit. `Refinement` adds that
  what the provider has received stays received (`PaidStays`).
- `VaultWithdrawalProofs`, from `WithdrawalConstants` (the sets of orders are
  disjoint, "none" is no order). `JobInv` is what makes the properties
  inductive: at each stage of a run, how many transfers it has made beyond two
  for each run counted (`Sendings`), that the order about to be recorded was
  paid, and that a handler on its way to RELEASED has read a settled order.
  It also says that a job which may still run has attempts and stalls left, from
  which `LossIsBounded` follows: 2 * (`MaxAttempts` + `MaxStalls`) transfers. The
  finding *paid_twice* has its counterpart in `OneProviderWhenQuiet` and
  `PaidOnceWhenQuiet`, for configurations where the providers and the queue may
  fail but no receipt is lost, no statement fails and nothing crashes (`Quiet`):
  then no run pays twice, and a job that completes has paid exactly once.
- `OnboardingProofs`, from `OnboardingConstants`. `CallInv` says what a call
  that waits for its last write knows: it has a supported country, which Partna
  has verified and, but for the Kenyan password, holds an account for. It stays
  true because nothing Partna has verified or opened goes away, whatever else
  the row goes through. Each step has a case, and each case one step for each conjunct.
- `LedgerWithdrawProofs`, from `LedgerConstants`. `Calls` and `Locals` are finite
  and not empty there: without calls or amounts the largest debit, of which the
  credit line is made, does not exist. `IInv` adds to `KeyDebitsOnce` that every
  entry's key has its record: the commit that adds an entry requires that there
  was none. `OverdraftIsBounded` is about sums over a set that grows. The library
  has no induction that this prover can use on them, so `SetInduction` is derived
  from the well-foundedness of the strict subsets of a finite set: a set that
  breaks the claim has a minimal subset that does. By it `FoldIsSum` shows that
  the sum the model computes is one that takes its terms in any order
  (`SumWithout`, `SumChanged`). The invariant, `BalanceInv`, is that the
  balance stays within the credit line even when every call that was found
  covered takes its amount and fee as well: when a call is found covered, the
  balance has room for its amount, so that only its fee and what the other calls
  have reserved can overdraw it, and a commit merely turns what was reserved into
  a debit. `LedgerIsAnAccount` follows from it step by step. `EntriesStayPending`
  rests on the names: an order's id is never the reference an entry keeps.
- `PrivyLoginProofs`, from `LoginConstants` ("none" is no name and no row).
  `Knows` says what a call has found and that it may rely on later: a wallet row never goes
  away, and one that changes its user is noted in `moved` (`Grows`).
- `VaultAssignmentProofs`, from `AssignmentConstants`. `Agreement` is what
  `PaysLinked` lacks to be inductive: row and contract agree, or a call that
  wrote the row is on its way to this very contract, and all such calls are for
  the row's freelancer. It rests on `Distinct` and `RowOK`: a contract belongs
  to one vault, so that no other vault's hand-over can reach it. `RowOK` also
  carries `DepositsArePaid`: a row without a contract is FUNDED only if it was paid.

Only model-checked: liveness (`JobsFinish`, `SettlementLeavesProgress`), which
is out of the prover's reach, and the violations.

## 6. Findings

Three disagreements have a run that shows them:

- *late_offer*: the exception that reports the escalation also rolls it back.
- *paid_twice*: the fallback is the catch of a try block that includes the
  update after the transfer. An error there pays again through Partna.
- *key_ordered_twice*: the order is placed inside the transaction and survives its
  rollback. A second request with the same key places a second order, and only one
  of the two is debited. The run says nothing of a second payment: `withdraw` takes
  the order's `receiveAddress` from the router and drops it, and transfers nothing
  there (`ledger.service.ts:258-268`; compare `vault-withdrawal.processor.ts:76`).

Others met while modelling, without a run of their own. The models contain the
behaviour, and the properties are stated so as not to claim what the code does not do:

- `vaults.service.ts:1247`: the "Guard against double-release" and the update
  after it are not atomic, and two jobs are queued. The contract still pays once
  (`SingleSuccess`), but both credit the ledger.
- `vaults.service.ts:1265`: a crash between the update and `queue.add` leaves the
  vault RELEASING, and the guard then refuses every further release.
- `vault-release.processor.ts:108`, `vault-refund.processor.ts:59`: a job on a
  vault without an address books the credit, calls nothing and reports success,
  and so does a second one, or one for the other side.
- `admin.service.ts:566`: the dashboard's `resolveDispute` writes RESOLVED, and
  RELEASED or REFUNDED if asked to, with the deposit still in escrow and no
  ledger entry; `DisputesService.resolve` then refuses the dispute as closed.
- `disputes.service.ts:678`: a split takes every "execution reverted" for "already
  settled" and books its shares, on a funded contract too.
- `blockchain.service.ts:499`: the listener looks for a REFUND entry without the
  row lock, and refund and listener may both book it.
- `webhooks.service.ts:203`: nothing marks a ramp as credited, so every delivery
  of its success webhook collects the 0.5% from the escrow again.
- `webhooks.service.ts:122`: the webhook tests a freelancer it read before its
  transaction. When an acceptance commits in between, neither side creates the LOCK entry.
- `webhooks.service.ts:392`: the branch for "non-vault ledger entries" confirms
  deposits of vaults, those made by collection and those paid after the expiry
  job; the vault stays DRAFT.
- `auth.service.ts:411`: `updateProfile` changes the country that
  `onboarding.service.ts:143` declares fixed; currency and provider of a
  withdrawal follow it.
- `onboarding.service.ts:73`: after a refused registration the recovered account's
  name is dropped, and the row holds one that Partna does not know.
- `webhooks.service.ts:525`: ledger withdrawals are never confirmed or failed,
  since the webhook looks for the id of an order that `withdraw` has dropped.
- `webhooks.service.ts:721`: a Didit webhook whose signature does not match is
  logged and processed; the comment says that it "must reject" in production.
  The approval under a VERIFIED is therefore one that was reported, no more.
- `onboarding.service.ts:308`: PENDING is written over a VERIFIED that came
  while the call waited.
- `auth.service.ts:188`: a login may take over the wallet row another one has just linked.
- `vaults.service.ts:1644`: a reassignment hands the contract over at once; when
  the vault has its freelancer, `InvitesService.create` then refuses the
  invitation, and row and contract stay apart.
- `invites.service.ts:309`: the deployment on acceptance passes atomic units
  where `deployVault` expects dollars; and it writes FUNDED (line 318) whether
  or not anybody has paid.
- `invites.service.ts:181`: an invitation past its `expiresAt` can be accepted.
- `disputes.service.ts:135`: an escalation read before a resolution writes
  UNDER_REVIEW over RESOLVED.

## 7. Not modelled

- *Sessions*: logout, revoked sessions and the guards. `auth.guard` lets a token in
  whose key is not in Redis; while Redis is down `RedisService.get` answers null
  and a revoked token is let in. That is one read of one key, with no sequence to explore.
- *Exchange rates, payment methods, vault cache*: caches with a time to live and
  one default record. `LedgerWithdraw` has the rate as its callers see it.
- *Reconciler*: it sets `isFrozen`, which nothing reads.
- *Notifications, mail, uploads, evidence, the AI summary, the provider
  clients*: they keep no state another component decides on.
- In modelled services: `confirmPayment`, the mock deposits and
  `devBypassIdentity`, which stand in for a provider in development; the Paycrest
  on-ramp webhook, for which no order is started any more; `requestRefund`,
  which stores a request and sends a mail; the `withdrawal-retry` processor,
  whose queue nobody fills; `setRole`; the polling that replaces the WebSocket.
- The contract is not in this repository; it appears as the backend uses it: it
  pays once, from what it was funded with, and reverts otherwise. Partna,
  Paycrest, Didit and Privy likewise appear by their answers.
- The modules share tables but are not composed into one specification: what
  one does to another's state appears in it as an action of the environment
  (`Earn`, `KycDecided`, `WalletLinked`, `PaymentReported`) or as a possible
  initial state. `VaultAssignment` simplifies there: a user's wallet, once it has a
  real address, stays, whereas `PrivyLogin` also lets it go to another user.
