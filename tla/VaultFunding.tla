----------------------------- MODULE VaultFunding -----------------------------
(***************************************************************************)
(* How one vault gets its money: the client's funding requests, the        *)
(* provider's ramps and its webhooks, the job that expires unpaid ramps,   *)
(* the deposit the treasury makes into the escrow contract, the listener   *)
(* for the contract's Deposited event, and the freelancers who answer      *)
(* their invitations meanwhile.                                            *)
(*                                                                         *)
(* Handlers read the vault, await and write it unconditionally.  Writing   *)
(* it inside a transaction holds its row lock, for which every other       *)
(* writer waits.  The provider answers a new ramp with bank details; the   *)
(* vault has a contract.  Paycrest's on-ramp is not called any more.       *)
(***************************************************************************)
EXTENDS Naturals

CONSTANTS Requests,     \* calls of a handler: HTTP requests and webhook deliveries
          Ramps,        \* references of ramps and collections
          Freelancers,  \* the users who hold an invitation to this vault
          Faults        \* which failures of the environment may happen

ASSUME FundingConstants ==
    /\ "none" \notin Requests \cup Ramps \cup Freelancers
    /\ "free" \notin Requests
    /\ "tx" \notin Ramps
    /\ Faults \subseteq {"rpc",     \* a contract call fails and nothing is mined
                         "db",      \* a statement, or a call of the provider, throws
                         "crash"}   \* the process dies and restarts

VARIABLES
    status,      \* Vault.status
    ref,         \* Vault.partnaRampReference, set and cleared with the bank details
    expired,     \* whether partnaExpiryDate has passed
    freelancer,  \* Vault.freelancerId
    row,         \* the request whose transaction holds the vault's row lock
    ramp,        \* the provider's state of each reference
    entry,       \* status of the DEPOSIT entry that each request has created
    entryRef,    \* its providerRef, "tx" standing for the hash of the deposit
    locks,       \* number of LOCK entries of each freelancer
    invite,      \* Invite.status of each freelancer's invitation
    chain,       \* what the escrow contract holds
    swept,       \* how many deposit fees were collected from it
    heard,       \* whether a Deposited event is still to be handled
    listener,    \* how far its handler is
    job,         \* whether the expiry job has selected the vault
    booked,      \* history: a webhook has committed FUNDED
    stage,       \* how far each request is
    about,       \* the ramp it is about
    who,         \* the freelancer it found on the vault, or who answers
    target,      \* the DEPOSIT entry it found
    found        \* whether it found a LOCK entry

vaultVars  == <<status, ref, expired, freelancer>>
ledgerVars == <<entry, entryRef, locks>>
chainVars  == <<chain, swept, heard, listener>>
localVars  == <<about, who, target, found>>
vars == <<vaultVars, row, ramp, ledgerVars, invite, chainVars, job, booked,
          stage, localVars>>

Free == row = "free"
Paid == {q \in Ramps : ramp[q] = "paid"}
Go(r, to) == stage' = [stage EXCEPT ![r] = to]
Release(r) == row' = IF row = r THEN "free" ELSE row

\* The handler returns, and its local variables with it.
Return(r) ==
    /\ Go(r, "done")
    /\ about' = [about EXCEPT ![r] = "none"]
    /\ who' = [who EXCEPT ![r] = "none"]
    /\ target' = [target EXCEPT ![r] = "none"]
    /\ found' = [found EXCEPT ![r] = FALSE]

Init ==
    /\ status = "DRAFT" /\ ref = "none" /\ expired = FALSE /\ freelancer = "none"
    /\ row = "free"
    /\ ramp = [q \in Ramps |-> "none"]
    /\ entry = [r \in Requests |-> "none"]
    /\ entryRef = [r \in Requests |-> "none"]
    /\ locks = [f \in Freelancers |-> 0]
    /\ invite = [f \in Freelancers |-> "PENDING"]
    /\ chain = "empty" /\ swept = 0 /\ heard = FALSE /\ listener = "idle"
    /\ job = "idle"
    /\ booked = FALSE
    /\ stage = [r \in Requests |-> "new"]
    /\ about = [r \in Requests |-> "none"]
    /\ who = [r \in Requests |-> "none"]
    /\ target = [r \in Requests |-> "none"]
    /\ found = [r \in Requests |-> FALSE]
-----------------------------------------------------------------------------
(* initiatePartnaFunding.  While the vault awaits payment it only repeats  *)
(* the bank details; whatever else its status, it starts a new ramp.       *)
ReadForRamp(r) ==
    /\ stage[r] = "new"
    /\ ~(status = "AWAITING_PAYMENT" /\ ref # "none")
    /\ Go(r, "ramping")
    /\ UNCHANGED <<vaultVars, row, ramp, ledgerVars, invite, chainVars, job, booked, localVars>>

\* cancelPendingRampRequest: the provider may cancel what is still unpaid.
CreateRamp(r) ==
    /\ stage[r] = "ramping"
    /\ \E q \in Ramps, cancelled \in SUBSET {p \in Ramps : ramp[p] = "issued"} :
        /\ ramp[q] = "none"
        /\ ramp' = [p \in Ramps |-> IF p = q THEN "issued"
                                    ELSE IF p \in cancelled THEN "failed" ELSE ramp[p]]
        /\ about' = [about EXCEPT ![r] = q]
    /\ Go(r, "ramped")
    /\ UNCHANGED <<vaultVars, row, ledgerVars, invite, chainVars, job, booked,
                   who, target, found>>

WriteAwaiting(r) ==
    /\ stage[r] = "ramped"
    /\ Free
    /\ status' = "AWAITING_PAYMENT"
    /\ ref' = about[r]
    /\ expired' = FALSE
    /\ Go(r, "entering")
    /\ UNCHANGED <<freelancer, row, ramp, ledgerVars, invite, chainVars, job, booked, localVars>>

(* fund, for other currencies: a collection, of which only the ledger      *)
(* entry learns.                                                           *)
StartCollection(r) ==
    /\ stage[r] = "new"
    /\ \E q \in Ramps :
        /\ ramp[q] = "none"
        /\ ramp' = [ramp EXCEPT ![q] = "issued"]
        /\ about' = [about EXCEPT ![r] = q]
    /\ Go(r, "entering")
    /\ UNCHANGED <<vaultVars, row, ledgerVars, invite, chainVars, job, booked,
                   who, target, found>>

\* Both look for a PENDING deposit entry, then update it or create one.
FindEntry(r) ==
    /\ stage[r] = "entering"
    /\ \/ \E e \in Requests : entry[e] = "PENDING" /\ target' = [target EXCEPT ![r] = e]
       \/ (\A e \in Requests : entry[e] # "PENDING") /\ UNCHANGED target
    /\ Go(r, "found")
    /\ UNCHANGED <<vaultVars, row, ramp, ledgerVars, invite, chainVars, job, booked,
                   about, who, found>>

WriteEntry(r) ==
    LET e == IF target[r] = "none" THEN r ELSE target[r] IN
    /\ stage[r] = "found"
    /\ entryRef' = [entryRef EXCEPT ![e] = about[r]]
    /\ entry' = IF target[r] = "none" THEN [entry EXCEPT ![r] = "PENDING"] ELSE entry
    /\ Return(r)
    /\ UNCHANGED <<vaultVars, row, ramp, locks, invite, chainVars, job, booked>>
-----------------------------------------------------------------------------
(* The provider: an issued ramp is paid or fails, for good.                *)
ProviderDecides ==
    /\ \E q \in Ramps : /\ ramp[q] = "issued"
                        /\ \E s \in {"paid", "failed"} : ramp' = [ramp EXCEPT ![q] = s]
    /\ UNCHANGED <<vaultVars, row, ledgerVars, invite, chainVars, job, booked, stage, localVars>>

\* Mutation: any webhook of a known ramp counts as success.
LookupAnyStatus(r) ==
    /\ stage[r] = "new"
    /\ \E q \in Ramps :
        /\ ramp[q] \in {"paid", "failed"}
        /\ about' = [about EXCEPT ![r] = q]
        /\ IF ref = q
           THEN Go(r, "success") /\ who' = [who EXCEPT ![r] = freelancer]
           ELSE Go(r, "fallback") /\ UNCHANGED who
    /\ UNCHANGED <<vaultVars, row, ramp, ledgerVars, invite, chainVars, job, booked,
                   target, found>>

(* handlePartnaWebhook, which the provider calls at least once for every   *)
(* ramp it has decided.  It finds the vault by its present reference and   *)
(* reads the freelancer with it, or falls back to a ledger entry.          *)
Lookup(r) ==
    /\ stage[r] = "new"
    /\ \E q \in Ramps :
        /\ ramp[q] \in {"paid", "failed"}
        /\ about' = [about EXCEPT ![r] = q]
        /\ IF ref = q
           THEN /\ Go(r, IF ramp[q] = "paid" THEN "success" ELSE "failure")
                /\ who' = [who EXCEPT ![r] = freelancer]
           ELSE Go(r, "fallback") /\ UNCHANGED who
    /\ UNCHANGED <<vaultVars, row, ramp, ledgerVars, invite, chainVars, job, booked,
                   target, found>>

\* Mutation: the transaction writes the vault last.
BeginFundUnlocked(r) ==
    /\ stage[r] = "success"
    /\ Go(r, "funding")
    /\ UNCHANGED <<vaultVars, row, ramp, ledgerVars, invite, chainVars, job, booked, localVars>>

(* Success, one transaction: it marks the vault FUNDED, and so holds its   *)
(* row, confirms whatever is PENDING, looks for the freelancer's LOCK      *)
(* entry and creates it if there is none.                                  *)
BeginFund(r) ==
    /\ stage[r] = "success"
    /\ Free
    /\ row' = r
    /\ Go(r, "funding")
    /\ UNCHANGED <<vaultVars, ramp, ledgerVars, invite, chainVars, job, booked, localVars>>

FindLock(r) ==
    /\ stage[r] = "funding"
    /\ found' = [found EXCEPT ![r] = who[r] # "none" /\ locks[who[r]] > 0]
    /\ Go(r, "committing")
    /\ UNCHANGED <<vaultVars, row, ramp, ledgerVars, invite, chainVars, job, booked,
                   about, who, target>>

CommitFund(r) ==
    /\ stage[r] = "committing"
    /\ status' = "FUNDED"
    /\ entry' = [e \in Requests |-> IF entry[e] = "PENDING" THEN "CONFIRMED" ELSE entry[e]]
    /\ locks' = [f \in Freelancers |->
                   IF f = who[r] /\ ~found[r] THEN locks[f] + 1 ELSE locks[f]]
    /\ Release(r)
    /\ booked' = TRUE
    /\ Go(r, "bridging")
    /\ UNCHANGED <<ref, expired, freelancer, ramp, entryRef, invite, chainVars, job, localVars>>

\* Mutation: the deposit comes before the transaction.
DepositFirst(r) ==
    /\ stage[r] \in {"success", "depositing"}
    /\ chain = "empty"
    /\ chain' = "funded" /\ heard' = TRUE
    /\ Go(r, "attributing")
    /\ UNCHANGED <<vaultVars, row, ramp, ledgerVars, invite, swept, listener, job, booked,
                   localVars>>

\* Then it looks for a CONFIRMED deposit entry, to give it the hash.
FindDeposit(r) ==
    /\ stage[r] = "bridging"
    /\ \/ \E e \in Requests : entry[e] = "CONFIRMED" /\ target' = [target EXCEPT ![r] = e]
       \/ (\A e \in Requests : entry[e] # "CONFIRMED") /\ UNCHANGED target
    /\ Go(r, "depositing")
    /\ UNCHANGED <<vaultVars, row, ramp, ledgerVars, invite, chainVars, job, booked,
                   about, who, found>>

(* The treasury deposits the vault's amount, which the contract takes      *)
(* once.  A failure is logged, and the handler goes on.                    *)
Deposit(r) ==
    /\ stage[r] = "depositing"
    /\ \/ /\ chain = "empty"
          /\ chain' = "funded" /\ heard' = TRUE
          /\ Go(r, "attributing")
       \/ /\ chain # "empty" \/ "rpc" \in Faults
          /\ Go(r, "sweeping")
          /\ UNCHANGED <<chain, heard>>
    /\ UNCHANGED <<vaultVars, row, ramp, ledgerVars, invite, swept, listener, job, booked,
                   localVars>>

AttributeDeposit(r) ==
    /\ stage[r] = "attributing"
    /\ entryRef' = [e \in Requests |-> IF e = target[r] THEN "tx" ELSE entryRef[e]]
    /\ Go(r, "sweeping")
    /\ UNCHANGED <<vaultVars, row, ramp, entry, locks, invite, chainVars, job, booked, localVars>>

\* The 0.5% are collected from what the contract holds.
SweepFee(r) ==
    /\ stage[r] = "sweeping"
    /\ \/ chain = "funded" /\ swept' = swept + 1
       \/ (chain = "empty" \/ "rpc" \in Faults) /\ UNCHANGED swept
    /\ Return(r)
    /\ UNCHANGED <<vaultVars, row, ramp, ledgerVars, invite, chain, heard, listener, job, booked>>

\* Mutation: a status of the withdrawal.
WriteWithdrawalFailed(r) ==
    /\ stage[r] = "failure"
    /\ Free
    /\ status' = "WITHDRAWAL_FAILED"
    /\ Return(r)
    /\ UNCHANGED <<ref, expired, freelancer, row, ramp, ledgerVars, invite, chainVars, job, booked>>

\* Failure of the vault's ramp, whatever the vault's status.
WriteFailed(r) ==
    /\ stage[r] = "failure"
    /\ Free
    /\ status' = "DRAFT"
    /\ Return(r)
    /\ UNCHANGED <<ref, expired, freelancer, row, ramp, ledgerVars, invite, chainVars, job, booked>>

\* "Logic for non-vault ledger entries", or for references the vault forgot.
WriteFallback(r) ==
    /\ stage[r] = "fallback"
    /\ \E e \in Requests :
        /\ entryRef[e] = about[r]
        /\ entry' = [entry EXCEPT ![e] =
                       IF ramp[about[r]] = "paid" THEN "CONFIRMED" ELSE "FAILED"]
    /\ Return(r)
    /\ UNCHANGED <<vaultVars, row, ramp, entryRef, locks, invite, chainVars, job, booked>>
-----------------------------------------------------------------------------
(* The expiry job selects the vault and later resets it.                   *)
PaymentWindowPasses ==
    /\ ref # "none" /\ ~expired
    /\ expired' = TRUE
    /\ UNCHANGED <<status, ref, freelancer, row, ramp, ledgerVars, invite, chainVars, job,
                   booked, stage, localVars>>

SelectExpired ==
    /\ job = "idle"
    /\ status = "AWAITING_PAYMENT" /\ expired
    /\ job' = "selected"
    /\ UNCHANGED <<vaultVars, row, ramp, ledgerVars, invite, chainVars, booked, stage, localVars>>

\* Mutation: the reference is cleared but the status kept.
ExpireReferenceOnly ==
    /\ job = "selected"
    /\ Free
    /\ ref' = "none" /\ expired' = FALSE
    /\ job' = "idle"
    /\ UNCHANGED <<status, freelancer, row, ramp, ledgerVars, invite, chainVars, booked,
                   stage, localVars>>

ExpireVault ==
    /\ job = "selected"
    /\ Free
    /\ status' = "DRAFT" /\ ref' = "none" /\ expired' = FALSE
    /\ job' = "idle"
    /\ UNCHANGED <<freelancer, row, ramp, ledgerVars, invite, chainVars, booked, stage, localVars>>

(* The listener confirms a PENDING deposit entry, then marks the vault     *)
(* FUNDED.  Overlapping polls may handle the event again.                  *)
HearDeposited ==
    /\ heard /\ listener = "idle"
    /\ \/ \E e \in Requests : /\ entry[e] = "PENDING"
                              /\ entry' = [entry EXCEPT ![e] = "CONFIRMED"]
                              /\ entryRef' = [entryRef EXCEPT ![e] = "tx"]
       \/ (\A e \in Requests : entry[e] # "PENDING") /\ UNCHANGED <<entry, entryRef>>
    /\ listener' = "confirmed"
    /\ UNCHANGED <<vaultVars, row, ramp, locks, invite, chain, swept, heard, job, booked,
                   stage, localVars>>

MarkDeposited ==
    /\ listener = "confirmed"
    /\ Free
    /\ status' = "FUNDED"
    /\ listener' = "idle"
    /\ heard' \in BOOLEAN
    /\ UNCHANGED <<ref, expired, freelancer, row, ramp, ledgerVars, invite, chain, swept,
                   job, booked, stage, localVars>>
-----------------------------------------------------------------------------
(* InvitesService.respond checks the invitation, then runs a transaction   *)
(* that links the freelancer, holding the vault's row, and adds the LOCK   *)
(* entry if the vault is FUNDED.                                           *)
ReadInvite(r) ==
    /\ stage[r] = "new"
    /\ \E f \in Freelancers :
        /\ invite[f] = "PENDING"
        /\ who' = [who EXCEPT ![r] = f]
    /\ \E answer \in {"accepting", "declining"} : Go(r, answer)
    /\ UNCHANGED <<vaultVars, row, ramp, ledgerVars, invite, chainVars, job, booked,
                   about, target, found>>

WriteDecline(r) ==
    /\ stage[r] = "declining"
    /\ invite' = [invite EXCEPT ![who[r]] = "DECLINED"]
    /\ Return(r)
    /\ UNCHANGED <<vaultVars, row, ramp, ledgerVars, chainVars, job, booked>>

BeginAccept(r) ==
    /\ stage[r] = "accepting"
    /\ Free
    /\ row' = r
    /\ Go(r, "linking")
    /\ UNCHANGED <<vaultVars, ramp, ledgerVars, invite, chainVars, job, booked, localVars>>

FindOwnLock(r) ==
    /\ stage[r] = "linking"
    /\ found' = [found EXCEPT ![r] = locks[who[r]] > 0]
    /\ Go(r, "linked")
    /\ UNCHANGED <<vaultVars, row, ramp, ledgerVars, invite, chainVars, job, booked,
                   about, who, target>>

CommitAccept(r) ==
    LET f == who[r] IN
    /\ stage[r] = "linked"
    /\ invite' = [invite EXCEPT ![f] = "ACCEPTED"]
    /\ freelancer' = f
    /\ locks' = [locks EXCEPT ![f] = IF status = "FUNDED" /\ ~found[r] THEN @ + 1 ELSE @]
    /\ Release(r)
    /\ Return(r)
    /\ UNCHANGED <<status, ref, expired, ramp, entry, entryRef, chainVars, job, booked>>

\* A handler that throws ends there, and so does its transaction.
Throw(r) ==
    /\ "db" \in Faults
    /\ stage[r] \notin {"new", "done"}
    /\ Release(r)
    /\ Return(r)
    /\ UNCHANGED <<vaultVars, ramp, ledgerVars, invite, chainVars, job, booked>>

(* A restart ends every handler and rolls back its transaction; what the   *)
(* listener has not handled is gone.                                       *)
Crash ==
    /\ "crash" \in Faults
    /\ stage' = [r \in Requests |-> IF stage[r] = "new" THEN "new" ELSE "done"]
    /\ about' = [r \in Requests |-> "none"]
    /\ who' = [r \in Requests |-> "none"]
    /\ target' = [r \in Requests |-> "none"]
    /\ found' = [r \in Requests |-> FALSE]
    /\ row' = "free" /\ job' = "idle" /\ heard' = FALSE /\ listener' = "idle"
    /\ UNCHANGED <<vaultVars, ramp, ledgerVars, invite, chain, swept, booked>>

Fund(r) ==
    \/ ReadForRamp(r) \/ CreateRamp(r) \/ WriteAwaiting(r)
    \/ StartCollection(r) \/ FindEntry(r) \/ WriteEntry(r)

Webhook(r) ==
    \/ Lookup(r) \/ BeginFund(r) \/ FindLock(r) \/ CommitFund(r)
    \/ FindDeposit(r) \/ Deposit(r) \/ AttributeDeposit(r) \/ SweepFee(r)
    \/ WriteFailed(r) \/ WriteFallback(r)

Respond(r) ==
    \/ ReadInvite(r) \/ WriteDecline(r)
    \/ BeginAccept(r) \/ FindOwnLock(r) \/ CommitAccept(r)

Background ==
    \/ ProviderDecides
    \/ PaymentWindowPasses \/ SelectExpired \/ ExpireVault
    \/ HearDeposited \/ MarkDeposited
    \/ Crash

Next ==
    \/ \E r \in Requests : Fund(r) \/ Webhook(r) \/ Respond(r) \/ Throw(r)
    \/ Background

Spec == Init /\ [][Next]_vars
-----------------------------------------------------------------------------
Stages == {"new", "ramping", "ramped", "entering", "found", "success", "failure",
           "fallback", "funding", "committing", "bridging", "depositing", "attributing", "sweeping",
           "accepting", "declining", "linking", "linked", "done"}

TypeOK ==
    /\ status \in {"DRAFT", "AWAITING_PAYMENT", "FUNDED"}
    /\ ref \in Ramps \cup {"none"}
    /\ expired \in BOOLEAN
    /\ freelancer \in Freelancers \cup {"none"}
    /\ row \in Requests \cup {"free"}
    /\ ramp \in [Ramps -> {"none", "issued", "paid", "failed"}]
    /\ entry \in [Requests -> {"none", "PENDING", "CONFIRMED", "FAILED"}]
    /\ entryRef \in [Requests -> Ramps \cup {"none", "tx"}]
    /\ locks \in [Freelancers -> Nat]
    /\ invite \in [Freelancers -> {"PENDING", "ACCEPTED", "DECLINED"}]
    /\ chain \in {"empty", "funded"}
    /\ swept \in Nat
    /\ heard \in BOOLEAN
    /\ listener \in {"idle", "confirmed"}
    /\ job \in {"idle", "selected"}
    /\ booked \in BOOLEAN
    /\ stage \in [Requests -> Stages]
    /\ about \in [Requests -> Ramps \cup {"none"}]
    /\ who \in [Requests -> Freelancers \cup {"none"}]
    /\ target \in [Requests -> Requests \cup {"none"}]
    /\ found \in [Requests -> BOOLEAN]

(* Nobody is shown money that no client has paid: a FUNDED vault, a        *)
(* CONFIRMED deposit, a LOCK entry and a swept fee all go back to a ramp   *)
(* the provider has paid out, whatever order webhooks, expiry, listener    *)
(* and acceptances come in.                                                *)
PaidFirst ==
    (\/ status = "FUNDED"
     \/ \E e \in Requests : entry[e] = "CONFIRMED"
     \/ \E f \in Freelancers : locks[f] > 0
     \/ swept > 0)
    => Paid # {}

(* A freelancer has at most one LOCK entry for the vault.  There is no     *)
(* constraint in the database: the webhook and the acceptance both look    *)
(* for one only after they have written the vault, and so never at the     *)
(* same time.                                                              *)
LockOnce == \A f \in Freelancers : locks[f] <= 1

(* A vault that awaits payment has a reference by which the webhook will   *)
(* find it, of a ramp the provider knows, whatever expiry job, failures    *)
(* and several funding requests have done to it.                           *)
AwaitingIsPayable ==
    status = "AWAITING_PAYMENT" => ref # "none" /\ ramp[ref] # "none"

(* Funding implements FundingOrder: received, booked, and only then moved. *)
Order == INSTANCE FundingOrder WITH
            money <- IF chain = "funded" THEN "escrowed"
                     ELSE IF booked THEN "booked"
                     ELSE IF Paid # {} THEN "received" ELSE "none"
ImplementsOrder == Order!Spec

(* The inductive invariant behind the properties above.  What each stage   *)
(* of a request knows: of its ramp, of the booking, and of the LOCK entry  *)
(* it has looked for, which nobody else can add while it holds the row.    *)
Booking == {"success", "funding", "committing"}
Bridging == {"bridging", "depositing", "attributing", "sweeping"}
InTransaction == {"funding", "committing", "linking", "linked"}
RequestInv(r) ==
    /\ stage[r] = "ramped" => about[r] # "none" /\ ramp[about[r]] # "none"
    /\ stage[r] \in Booking \cup Bridging => about[r] # "none" /\ ramp[about[r]] = "paid"
    /\ stage[r] = "fallback" => about[r] # "none"
    /\ stage[r] \in Bridging => booked
    /\ stage[r] \in {"accepting", "declining", "linking", "linked"} => who[r] # "none"
    /\ stage[r] \in InTransaction <=> row = r
    /\ stage[r] \in {"committing", "linked"} /\ ~found[r] /\ who[r] # "none"
         => locks[who[r]] = 0

MoneyInv ==
    /\ booked => Paid # {}
    /\ chain = "funded" => booked
    /\ heard \/ listener = "confirmed" => chain = "funded"
    /\ swept > 0 => chain = "funded"
    /\ ref # "none" => ramp[ref] # "none"

IInv ==
    /\ TypeOK
    /\ \A r \in Requests : RequestInv(r)
    /\ MoneyInv
    /\ PaidFirst
    /\ LockOnce
    /\ AwaitingIsPayable
=============================================================================
