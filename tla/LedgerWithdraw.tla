---------------------------- MODULE LedgerWithdraw ----------------------------
(***************************************************************************)
(* How a freelancer withdraws from the ledger balance, rather than from a  *)
(* vault: LedgerService.withdraw and getBalance, PaymentRouter's off-ramp  *)
(* with its two providers, and Paycrest's webhook.                         *)
(*                                                                         *)
(* The balance is not stored: it is the sum of the user's entries.  It and *)
(* the idempotency record are read before the transaction that writes to   *)
(* both, and the order at the provider is placed inside it, where it does  *)
(* not roll back.  The second provider, Partna, is a stub that accepts     *)
(* everything and sends nothing (PartnaService.createPayment).             *)
(***************************************************************************)
EXTENDS Integers, FiniteSets, FiniteSetsExt

CONSTANTS Calls,      \* calls of withdraw under way at a time, for one user
          Keys,       \* idempotencyKey of a request
          Locals,     \* amounts requested, in local currency
          Rates,      \* units of local currency for a dollar, as the market moves
          MaxTries,   \* bound: how many calls get as far as the transaction
          MaxEarned   \* bound: the sum of the user's RELEASE entries

\* getDisplayRate answers with a live or a recent rate or throws; one that cannot
\* be had counts as 1.
UsableRates == Rates \cup {1}
Dollars == UNION {{l \div r : r \in UsableRates} : l \in Locals}

ASSUME LedgerConstants ==
    /\ IsFiniteSet(Calls) /\ Calls # {}
    /\ IsFiniteSet(Locals) /\ Locals # {} /\ Locals \subseteq Nat \ {0}
    /\ Rates \subseteq Nat \ {0}
    /\ MaxTries \in Nat
    /\ MaxEarned \in Nat

VARIABLES
    verified,  \* User.kycStatus is VERIFIED
    earned,    \* the sum of the user's RELEASE entries, all CONFIRMED
    entries,   \* committed withdrawals: the WITHDRAW entry with its FEE entry
    records,   \* keys with an IdempotencyRecord
    orders,    \* orders Paycrest has accepted
    call,      \* each call: how far it is and what it has computed
    tries      \* transactions begun; numbers the references withdraw_<user>_<now>

vars == <<verified, earned, entries, records, orders, call, tries>>

\* The application fee, 0.5 %.
AppFee(usd) == (usd * 5) \div 1000

Debit(e) == e.usd + AppFee(e.usd)

\* getBalance for a freelancer: RELEASE entries, less WITHDRAW and FEE entries
\* that are PENDING or CONFIRMED.
Available == earned - MapThenSumSet(Debit, {e \in entries : e.status # "FAILED"})

Idle == [pc |-> "idle"]

Init ==
    /\ verified \in BOOLEAN
    /\ earned = 0
    /\ entries = {} /\ records = {} /\ orders = {}
    /\ call = [c \in Calls |-> Idle]
    /\ tries = 0
-----------------------------------------------------------------------------
\* A vault is released to the user; Onboarding decides on the user's status.
Earn ==
    /\ earned' \in {e \in earned + 1 .. MaxEarned : e - earned \in Locals}
    /\ UNCHANGED <<verified, entries, records, orders, call, tries>>

KycDecided ==
    /\ verified' = ~verified
    /\ UNCHANGED <<earned, entries, records, orders, call, tries>>

Advance(c, to) ==
    /\ call' = [call EXCEPT ![c] = to]
    /\ UNCHANGED <<verified, earned, entries>>

CheckKyc(c) ==
    /\ call[c].pc = "idle" /\ verified
    /\ \E k \in Keys, l \in Locals : Advance(c, [pc |-> "verified", key |-> k, local |-> l])
    /\ UNCHANGED <<records, orders, tries>>

\* Mutation: the amount is multiplied by the rate.
FindRecordMultiplied(c) ==
    /\ call[c].pc = "verified"
    /\ \/ call[c].key \in records /\ Advance(c, Idle)
       \/ /\ call[c].key \notin records
          /\ \E r \in UsableRates :
                Advance(c, [pc |-> "rated", key |-> call[c].key, usd |-> call[c].local * r])
    /\ UNCHANGED <<records, orders, tries>>

\* The key is looked up, a known one gets the stored answer; then the rate is
\* asked for.
FindRecord(c) ==
    /\ call[c].pc = "verified"
    /\ \/ call[c].key \in records /\ Advance(c, Idle)
       \/ /\ call[c].key \notin records
          /\ \E r \in UsableRates :
                Advance(c, [pc |-> "rated", key |-> call[c].key, usd |-> call[c].local \div r])
    /\ UNCHANGED <<records, orders, tries>>

Covered(c) == [pc |-> "covered", key |-> call[c].key, usd |-> call[c].usd]

\* Mutation: a withdrawal counts once it is CONFIRMED.
CheckBalanceConfirmed(c) ==
    /\ call[c].pc = "rated"
    /\ Advance(c, IF earned - MapThenSumSet(Debit, {e \in entries : e.status = "CONFIRMED"})
                        < call[c].usd
                  THEN Idle ELSE Covered(c))
    /\ UNCHANGED <<records, orders, tries>>

\* The check covers the amount and not its fee.
CheckBalance(c) ==
    /\ call[c].pc = "rated"
    /\ Advance(c, IF Available < call[c].usd THEN Idle ELSE Covered(c))
    /\ UNCHANGED <<records, orders, tries>>

Reference(n) == [by |-> "dayle", n |-> n]
OrderId(n)   == [by |-> "paycrest", n |-> n]

\* The amount of an order decides nothing here; its key is that of the request.
Order(c) == [id |-> OrderId(tries + 1), key |-> call[c].key, state |-> "open"]

\* Paycrest accepts the order, accepts it and its answer is lost, or refuses it.
CallOfframp(c) == orders' = orders \/ orders' = orders \cup {Order(c)}

\* The transaction begins and asks for the order.  When Paycrest does not answer
\* well the router asks Partna, which always agrees: the call goes on anyway.
InitiateOfframp(c) ==
    /\ call[c].pc = "covered" /\ tries < MaxTries
    /\ tries' = tries + 1
    /\ CallOfframp(c)
    /\ Advance(c, [pc |-> "ordered", key |-> call[c].key, usd |-> call[c].usd,
                   ref |-> Reference(tries + 1)])
    /\ UNCHANGED records

Entry(c) == [ref |-> call[c].ref, key |-> call[c].key, usd |-> call[c].usd, status |-> "PENDING"]

\* Mutation: the record is written with upsert, so that no second one is refused.
CommitUnguarded(c) ==
    /\ call[c].pc = "ordered"
    /\ entries' = entries \cup {Entry(c)}
    /\ records' = records \cup {call[c].key}
    /\ call' = [call EXCEPT ![c] = Idle]
    /\ UNCHANGED <<verified, earned, orders, tries>>

\* The entries, the record with its unique key and the notice, then the commit.
Commit(c) ==
    /\ call[c].pc = "ordered" /\ call[c].key \notin records
    /\ entries' = entries \cup {Entry(c)}
    /\ records' = records \cup {call[c].key}
    /\ call' = [call EXCEPT ![c] = Idle]
    /\ UNCHANGED <<verified, earned, orders, tries>>

\* The call ends without a trace in the database: a statement fails, the record
\* exists by now, the notice cannot be written, the transaction takes longer
\* than Prisma allows (5 s), or the process dies.
Fail(c) ==
    /\ call[c].pc # "idle"
    /\ Advance(c, Idle)
    /\ UNCHANGED <<records, orders, tries>>
-----------------------------------------------------------------------------
PaycrestDecides ==
    /\ \E o \in orders : /\ o.state = "open"
                         /\ \E s \in {"settled", "failed"} :
                               orders' = (orders \ {o})
                                         \cup {[id |-> o.id, key |-> o.key, state |-> s]}
    /\ UNCHANGED <<verified, earned, entries, records, call, tries>>

\* The entry is looked for by the id of the order; withdraw has dropped the id
\* that the router returned, and the entry bears its own reference.  For one that
\* is found, a success is for its vault, which a withdrawal has not.
HandlePaycrestWebhook ==
    /\ \E o \in orders :
          /\ o.state # "open"
          /\ entries' = {IF o.state = "failed" /\ e.ref = o.id
                         THEN [ref |-> e.ref, key |-> e.key, usd |-> e.usd, status |-> "FAILED"]
                         ELSE e : e \in entries}
    /\ UNCHANGED <<verified, earned, records, orders, call, tries>>

Step(c) == CheckKyc(c) \/ FindRecord(c) \/ CheckBalance(c) \/ InitiateOfframp(c) \/ Commit(c) \/ Fail(c)

Next == \/ \E c \in Calls : Step(c)
        \/ Earn \/ KycDecided \/ PaycrestDecides \/ HandlePaycrestWebhook

Spec == Init /\ [][Next]_vars
-----------------------------------------------------------------------------
CallTypes ==
    {Idle}
      \cup [pc : {"verified"}, key : Keys, local : Locals]
      \cup [pc : {"rated", "covered"}, key : Keys, usd : Dollars]
      \cup [pc : {"ordered"}, key : Keys, usd : Dollars, ref : {Reference(n) : n \in 1 .. MaxTries}]

TypeOK ==
    /\ verified \in BOOLEAN
    /\ earned \in 0 .. MaxEarned
    /\ entries \subseteq [ref : {Reference(n) : n \in 1 .. MaxTries}, key : Keys, usd : Dollars,
                          status : {"PENDING", "FAILED"}]
    /\ records \subseteq Keys
    /\ orders \subseteq [id : {OrderId(n) : n \in 1 .. MaxTries}, key : Keys,
                         state : {"open", "settled", "failed"}]
    /\ call \in [Calls -> CallTypes]
    /\ tries \in 0 .. MaxTries

\* Of all calls with one key, concurrent ones and retries of failed ones, at
\* most one debits the ledger: lookup and unique record together.
KeyDebitsOnce == \A e, f \in entries : e.key = f.key => e = f

\* What all but one of the calls that run at once can take, and one fee.
MaxDebit == Max({d + AppFee(d) : d \in Dollars})
MaxFee == Max({AppFee(d) : d \in Dollars})
Overdraft == (Cardinality(Calls) - 1) * MaxDebit + MaxFee

\* An overdraft comes only from calls that were covered by the same balance:
\* it does not grow, however many withdrawals follow one another.
OverdraftBounded == Available >= -Overdraft

\* The ledger is an account with that credit line, debited once for a key.
Account == INSTANCE OverdraftAccount WITH balance <- Available, used <- {e.key : e \in entries}
ImplementsAccount == Account!Spec

\* A key stands for one order: requests that bear it, sent again or at once,
\* place one order at Paycrest between them.
KeyOrdersOnce == \A o, p \in orders : o.key = p.key => o.id = p.id
=============================================================================
