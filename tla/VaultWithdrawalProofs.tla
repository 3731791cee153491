------------------------- MODULE VaultWithdrawalProofs -------------------------
(***************************************************************************)
(* The safety properties of VaultWithdrawal, for any number of requests,   *)
(* orders, attempts and stalls.                                            *)
(***************************************************************************)
EXTENDS VaultWithdrawal, TLAPS

USE WithdrawalConstants
    DEF Orders, Running, Handlers, Jobs, vaultVars, jobVars,
        Handle, Move, Know, Forget, LastAttempt, Sendings

LEMMA InitInv == Init => IInv
  BY DEF Init, IInv, TypeOK, JobInv, RecordedIsPaid, FailedIsExhausted

(* Handlers queue a job only where there is none yet, and write RELEASED    *)
(* only after a settled order.                                              *)
LEMMA HandlerInv ==
  ASSUME IInv, NEW r \in Requests, Handler(r)
  PROVE  IInv'
<1> USE DEF IInv
<1>1. CASE ReadForWithdrawal(r)
  <2> USE <1>1 DEF ReadForWithdrawal
  <2>1. TypeOK'
    BY DEF TypeOK
  <2>2. \A s \in Requests : JobInv(s)'
    BY DEF TypeOK, JobInv
  <2>3. RecordedIsPaid'
    BY DEF TypeOK, JobInv, RecordedIsPaid
  <2>4. FailedIsExhausted'
    BY DEF TypeOK, JobInv, FailedIsExhausted
  <2>5. QED BY <2>1, <2>2, <2>3, <2>4 DEF IInv
<1>2. CASE MarkPending(r)
  <2> USE <1>2 DEF MarkPending
  <2>1. TypeOK'
    BY DEF TypeOK
  <2>2. \A s \in Requests : JobInv(s)'
    BY DEF TypeOK, JobInv
  <2>3. RecordedIsPaid'
    BY DEF TypeOK, JobInv, RecordedIsPaid
  <2>4. FailedIsExhausted'
    BY DEF TypeOK, JobInv, FailedIsExhausted
  <2>5. QED BY <2>1, <2>2, <2>3, <2>4 DEF IInv
<1>3. CASE Enqueue(r)
  <2> USE <1>3 DEF Enqueue, Queue
  <2>1. TypeOK'
    BY DEF TypeOK
  <2>2. \A s \in Requests : JobInv(s)'
    BY DEF TypeOK, JobInv
  <2>3. RecordedIsPaid'
    BY DEF TypeOK, JobInv, RecordedIsPaid
  <2>4. FailedIsExhausted'
    BY DEF TypeOK, JobInv, FailedIsExhausted
  <2>5. QED BY <2>1, <2>2, <2>3, <2>4 DEF IInv
<1>4. CASE ReadForRetry(r)
  <2> USE <1>4 DEF ReadForRetry
  <2>1. TypeOK'
    BY DEF TypeOK
  <2>2. \A s \in Requests : JobInv(s)'
    BY DEF TypeOK, JobInv
  <2>3. RecordedIsPaid'
    BY DEF TypeOK, JobInv, RecordedIsPaid
  <2>4. FailedIsExhausted'
    BY DEF TypeOK, JobInv, FailedIsExhausted
  <2>5. QED BY <2>1, <2>2, <2>3, <2>4 DEF IInv
<1>5. CASE EnqueueRetry(r)
  <2> USE <1>5 DEF EnqueueRetry, Queue
  <2>1. TypeOK'
    BY DEF TypeOK
  <2>2. \A s \in Requests : JobInv(s)'
    BY DEF TypeOK, JobInv
  <2>3. RecordedIsPaid'
    BY DEF TypeOK, JobInv, RecordedIsPaid
  <2>4. FailedIsExhausted'
    BY DEF TypeOK, JobInv, FailedIsExhausted
  <2>5. QED BY <2>1, <2>2, <2>3, <2>4 DEF IInv
<1>6. CASE MarkRetried(r)
  <2> USE <1>6 DEF MarkRetried
  <2>1. TypeOK'
    BY DEF TypeOK
  <2>2. \A s \in Requests : JobInv(s)'
    BY DEF TypeOK, JobInv
  <2>3. RecordedIsPaid'
    BY DEF TypeOK, JobInv, RecordedIsPaid
  <2>4. FailedIsExhausted'
    BY DEF TypeOK, JobInv, FailedIsExhausted
  <2>5. QED BY <2>1, <2>2, <2>3, <2>4 DEF IInv
<1>7. CASE DeclareFailed(r)
  <2> USE <1>7 DEF DeclareFailed
  <2>1. TypeOK'
    BY DEF TypeOK
  <2>2. \A s \in Requests : JobInv(s)'
    BY DEF TypeOK, JobInv
  <2>3. RecordedIsPaid'
    BY DEF TypeOK, JobInv, RecordedIsPaid
  <2>4. FailedIsExhausted'
    BY DEF TypeOK, JobInv, FailedIsExhausted
  <2>5. QED BY <2>1, <2>2, <2>3, <2>4 DEF IInv
<1>8. CASE ReadPartnaWebhook(r)
  <2> USE <1>8 DEF ReadPartnaWebhook
  <2>1. TypeOK'
    BY DEF TypeOK
  <2>2. \A s \in Requests : JobInv(s)'
    BY DEF TypeOK, JobInv
  <2>3. RecordedIsPaid'
    BY DEF TypeOK, JobInv, RecordedIsPaid
  <2>4. FailedIsExhausted'
    BY DEF TypeOK, JobInv, FailedIsExhausted
  <2>5. QED BY <2>1, <2>2, <2>3, <2>4 DEF IInv
<1>9. CASE MarkResent(r)
  <2> USE <1>9 DEF MarkResent
  <2>1. TypeOK'
    BY DEF TypeOK
  <2>2. \A s \in Requests : JobInv(s)'
    BY DEF TypeOK, JobInv
  <2>3. RecordedIsPaid'
    BY DEF TypeOK, JobInv, RecordedIsPaid
  <2>4. FailedIsExhausted'
    BY DEF TypeOK, JobInv, FailedIsExhausted
  <2>5. QED BY <2>1, <2>2, <2>3, <2>4 DEF IInv
<1>10. CASE ReadPaycrestWebhook(r)
  <2> USE <1>10 DEF ReadPaycrestWebhook
  <2>1. TypeOK'
    BY DEF TypeOK
  <2>2. \A s \in Requests : JobInv(s)'
    BY DEF TypeOK, JobInv
  <2>3. RecordedIsPaid'
    BY DEF TypeOK, JobInv, RecordedIsPaid
  <2>4. FailedIsExhausted'
    BY DEF TypeOK, JobInv, FailedIsExhausted
  <2>5. QED BY <2>1, <2>2, <2>3, <2>4 DEF IInv
<1>11. CASE WriteSettled(r)
  <2> USE <1>11 DEF WriteSettled
  <2>1. TypeOK'
    BY DEF TypeOK
  <2>2. \A s \in Requests : JobInv(s)'
    BY DEF TypeOK, JobInv
  <2>3. RecordedIsPaid'
    BY DEF TypeOK, JobInv, RecordedIsPaid
  <2>4. FailedIsExhausted'
    BY DEF TypeOK, JobInv, FailedIsExhausted
  <2>5. QED BY <2>1, <2>2, <2>3, <2>4 DEF IInv
<1>12. QED BY <1>1, <1>2, <1>3, <1>4, <1>5, <1>6, <1>7, <1>8, <1>9, <1>10, <1>11 DEF Handler

(* Each stage of a run adds at most one transfer, and an order is recorded  *)
(* at a stage that only its payment leads to.                               *)
LEMMA ProcessInv ==
  ASSUME IInv, NEW r \in Requests, Process(r)
  PROVE  IInv'
<1> USE DEF IInv
<1>1. CASE TakeJob(r)
  <2> USE <1>1 DEF TakeJob
  <2>1. TypeOK'
    BY DEF TypeOK
  <2>2. \A s \in Requests : JobInv(s)'
    BY DEF TypeOK, JobInv
  <2>3. RecordedIsPaid'
    BY DEF TypeOK, JobInv, RecordedIsPaid
  <2>4. FailedIsExhausted'
    BY DEF TypeOK, JobInv, FailedIsExhausted
  <2>5. QED BY <2>1, <2>2, <2>3, <2>4 DEF IInv
<1>2. CASE PayPaycrest(r)
  <2> USE <1>2 DEF PayPaycrest, Send
  <2>1. TypeOK'
    BY DEF TypeOK
  <2>2. \A s \in Requests : JobInv(s)'
    <3>1. PICK o \in PaycrestOrders : Send(r, o) /\ (about' = about \/ Know(r, o))
      OBVIOUS
    <3>2. \A p \in Orders : /\ order[p] # "none" => order'[p] # "none"
                           /\ order[p] = "settled" => order'[p] = "settled"
      BY <3>1 DEF TypeOK
    <3>3. sent'[r] = sent[r] + 1 /\ \A s \in Requests \ {r} : sent'[s] = sent[s]
      BY <3>1 DEF TypeOK
    <3>4. sent[r] \in Nat /\ made[r] \in Nat /\ stalls[r] \in Nat
      BY DEF TypeOK
    <3>5. job[r] = "paycrest"
      OBVIOUS
    <3>6. ASSUME NEW s \in Requests, s # r PROVE JobInv(s)'
      <4>1. /\ job'[s] = job[s] /\ about'[s] = about[s] /\ sent'[s] = sent[s]
            /\ handler' = handler /\ made' = made /\ stalls' = stalls
        BY <3>1, <3>3, <3>6 DEF TypeOK
      <4>2. QED BY <3>2, <4>1, JobInv(s) DEF JobInv
    <3>7. JobInv(r)'
      <4>1. sent'[r] <= 2 * (made'[r] + stalls'[r]) + Sendings(r)'
        BY <3>3, <3>4, <3>5, JobInv(r) DEF JobInv, TypeOK
      <4>2. handler[r] \notin {"new", "accepted", "marked", "retrying", "resending"}
        BY <3>5, JobInv(r) DEF JobInv
      <4>3. /\ job'[r] = "recordingPaycrest" => about'[r] \in PaycrestOrders /\ order'[about'[r]] # "none"
            /\ job'[r] = "recordingPartna" => about'[r] \in PartnaRamps /\ order'[about'[r]] # "none"
        BY DEF TypeOK
      <4>4. job'[r] # "none"
        BY DEF TypeOK
      <4>5. QED BY <3>2, <4>1, <4>2, <4>3, <4>4, JobInv(r) DEF JobInv
    <3>8. QED BY <3>6, <3>7
  <2>3. RecordedIsPaid'
    BY DEF TypeOK, JobInv, RecordedIsPaid
  <2>4. FailedIsExhausted'
    BY DEF TypeOK, JobInv, FailedIsExhausted
  <2>5. QED BY <2>1, <2>2, <2>3, <2>4 DEF IInv
<1>3. CASE RecordPaycrest(r)
  <2> USE <1>3 DEF RecordPaycrest
  <2>1. TypeOK'
    BY DEF TypeOK, JobInv
  <2>2. \A s \in Requests : JobInv(s)'
    BY DEF TypeOK, JobInv
  <2>3. RecordedIsPaid'
    BY DEF TypeOK, JobInv, RecordedIsPaid
  <2>4. FailedIsExhausted'
    BY DEF TypeOK, JobInv, FailedIsExhausted
  <2>5. QED BY <2>1, <2>2, <2>3, <2>4 DEF IInv
<1>4. CASE FallBack(r)
  <2> USE <1>4 DEF FallBack
  <2>1. TypeOK'
    BY DEF TypeOK
  <2>2. \A s \in Requests : JobInv(s)'
    BY DEF TypeOK, JobInv
  <2>3. RecordedIsPaid'
    BY DEF TypeOK, JobInv, RecordedIsPaid
  <2>4. FailedIsExhausted'
    BY DEF TypeOK, JobInv, FailedIsExhausted
  <2>5. QED BY <2>1, <2>2, <2>3, <2>4 DEF IInv
<1>5. CASE PayPartna(r)
  <2> USE <1>5 DEF PayPartna, Send
  <2>1. TypeOK'
    BY DEF TypeOK
  <2>2. \A s \in Requests : JobInv(s)'
    <3>1. PICK o \in PartnaRamps : Send(r, o) /\ (about' = about \/ Know(r, o))
      OBVIOUS
    <3>2. \A p \in Orders : /\ order[p] # "none" => order'[p] # "none"
                           /\ order[p] = "settled" => order'[p] = "settled"
      BY <3>1 DEF TypeOK
    <3>3. sent'[r] = sent[r] + 1 /\ \A s \in Requests \ {r} : sent'[s] = sent[s]
      BY <3>1 DEF TypeOK
    <3>4. sent[r] \in Nat /\ made[r] \in Nat /\ stalls[r] \in Nat
      BY DEF TypeOK
    <3>5. job[r] = "partna"
      OBVIOUS
    <3>6. ASSUME NEW s \in Requests, s # r PROVE JobInv(s)'
      <4>1. /\ job'[s] = job[s] /\ about'[s] = about[s] /\ sent'[s] = sent[s]
            /\ handler' = handler /\ made' = made /\ stalls' = stalls
        BY <3>1, <3>3, <3>6 DEF TypeOK
      <4>2. QED BY <3>2, <4>1, JobInv(s) DEF JobInv
    <3>7. JobInv(r)'
      <4>1. sent'[r] <= 2 * (made'[r] + stalls'[r]) + Sendings(r)'
        BY <3>3, <3>4, <3>5, JobInv(r) DEF JobInv, TypeOK
      <4>2. handler[r] \notin {"new", "accepted", "marked", "retrying", "resending"}
        BY <3>5, JobInv(r) DEF JobInv
      <4>3. /\ job'[r] = "recordingPaycrest" => about'[r] \in PaycrestOrders /\ order'[about'[r]] # "none"
            /\ job'[r] = "recordingPartna" => about'[r] \in PartnaRamps /\ order'[about'[r]] # "none"
        BY DEF TypeOK
      <4>4. job'[r] # "none"
        BY DEF TypeOK
      <4>5. QED BY <3>2, <4>1, <4>2, <4>3, <4>4, JobInv(r) DEF JobInv
    <3>8. QED BY <3>6, <3>7
  <2>3. RecordedIsPaid'
    BY DEF TypeOK, JobInv, RecordedIsPaid
  <2>4. FailedIsExhausted'
    BY DEF TypeOK, JobInv, FailedIsExhausted
  <2>5. QED BY <2>1, <2>2, <2>3, <2>4 DEF IInv
<1>6. CASE RecordPartna(r)
  <2> USE <1>6 DEF RecordPartna
  <2>1. TypeOK'
    BY DEF TypeOK, JobInv
  <2>2. \A s \in Requests : JobInv(s)'
    BY DEF TypeOK, JobInv
  <2>3. RecordedIsPaid'
    BY DEF TypeOK, JobInv, RecordedIsPaid
  <2>4. FailedIsExhausted'
    BY DEF TypeOK, JobInv, FailedIsExhausted
  <2>5. QED BY <2>1, <2>2, <2>3, <2>4 DEF IInv
<1>7. CASE PartnaFails(r)
  <2> USE <1>7 DEF PartnaFails
  <2>1. TypeOK'
    BY DEF TypeOK
  <2>2. \A s \in Requests : JobInv(s)'
    <3>1. ASSUME NEW s \in Requests, s # r PROVE JobInv(s)'
      <4>1. UNCHANGED <<order, handler, job[s], about[s], made, stalls, sent>> /\ JobInv(s)
        BY <3>1 DEF TypeOK, Forget, Move
      <4>2. QED BY <4>1 DEF JobInv
    <3>2. JobInv(r)'
      BY DEF TypeOK, JobInv
    <3>3. QED BY <3>1, <3>2
  <2>3. RecordedIsPaid'
    BY DEF TypeOK, JobInv, RecordedIsPaid
  <2>4. FailedIsExhausted'
    BY DEF TypeOK, JobInv, FailedIsExhausted
  <2>5. QED BY <2>1, <2>2, <2>3, <2>4 DEF IInv
<1>8. CASE CatchPartna(r)
  <2> USE <1>8 DEF CatchPartna
  <2>1. TypeOK'
    BY DEF TypeOK
  <2>2. \A s \in Requests : JobInv(s)'
    BY DEF TypeOK, JobInv
  <2>3. RecordedIsPaid'
    BY DEF TypeOK, JobInv, RecordedIsPaid
  <2>4. FailedIsExhausted'
    BY DEF TypeOK, JobInv, FailedIsExhausted
  <2>5. QED BY <2>1, <2>2, <2>3, <2>4 DEF IInv
<1>9. CASE RetryJob(r)
  <2> USE <1>9 DEF RetryJob
  <2>1. TypeOK'
    BY DEF TypeOK
  <2>2. \A s \in Requests : JobInv(s)'
    <3>1. ASSUME NEW s \in Requests, s # r PROVE JobInv(s)'
      <4>1. UNCHANGED <<order, handler, job[s], about, made[s], stalls, sent>> /\ JobInv(s)
        BY <3>1 DEF TypeOK, Move
      <4>2. QED BY <4>1 DEF JobInv
    <3>2. JobInv(r)'
      <4>1. /\ made[r] \in Nat /\ stalls[r] \in Nat /\ sent[r] \in Nat
            /\ made'[r] = made[r] + 1 /\ stalls' = stalls /\ sent' = sent
            /\ UNCHANGED <<order, handler, about>> /\ JobInv(r)
        BY DEF TypeOK
      <4>2. /\ made[r] < MaxAttempts /\ stalls[r] <= MaxStalls
            /\ sent[r] <= 2 * (made[r] + stalls[r]) + 2
        BY <4>1 DEF JobInv, Move
      <4>3. /\ job'[r] \in {"waiting", "failed"}
            /\ job'[r] = "waiting" => made'[r] < MaxAttempts
        BY <4>1 DEF TypeOK, Move, LastAttempt
      <4>4. /\ sent'[r] <= 2 * (made'[r] + stalls'[r]) /\ Sendings(r)' = 0
            /\ made'[r] + stalls'[r] <= MaxAttempts + MaxStalls
        BY <4>1, <4>2, <4>3, WithdrawalConstants
      <4>5. job[r] # "none"
        BY DEF Move
      <4>6. QED BY <4>1, <4>2, <4>3, <4>4, <4>5 DEF JobInv
    <3>3. QED BY <3>1, <3>2
  <2>3. RecordedIsPaid'
    BY DEF TypeOK, JobInv, RecordedIsPaid
  <2>4. FailedIsExhausted'
    BY DEF TypeOK, JobInv, FailedIsExhausted
  <2>5. QED BY <2>1, <2>2, <2>3, <2>4 DEF IInv
<1>10. QED BY <1>1, <1>2, <1>3, <1>4, <1>5, <1>6, <1>7, <1>8, <1>9 DEF Process

LEMMA StepInv == IInv /\ [Next]_vars => IInv'
<1> SUFFICES ASSUME IInv, [Next]_vars PROVE IInv'
  OBVIOUS
<1>1. ASSUME NEW r \in Requests, Handler(r) \/ Process(r) PROVE IInv'
  BY <1>1, HandlerInv, ProcessInv
<1>2. CASE ProviderDecides
  <2> USE <1>2 DEF ProviderDecides, IInv
  <2>1. TypeOK'
    BY DEF TypeOK
  <2>2. \A o \in Orders : /\ order[o] # "none" => order'[o] # "none"
                         /\ order[o] = "settled" => order'[o] = "settled"
    BY DEF TypeOK
  <2>3. ASSUME NEW s \in Requests PROVE JobInv(s)'
    <3>1. UNCHANGED <<handler, job, made, stalls, sent, about>> /\ JobInv(s)
      BY DEF jobVars
    <3>2. Sendings(s)' = Sendings(s)
      BY <3>1
    <3>3. (sent[s] <= 2 * (made[s] + stalls[s]) + Sendings(s))'
      <4> HIDE DEF Sendings
      <4>1. sent[s] <= 2 * (made[s] + stalls[s]) + Sendings(s)
        BY <3>1 DEF JobInv
      <4>2. QED BY <3>1, <3>2, <4>1
    <3>4. (handler[s] = "settling" => \E o \in Orders : order[o] = "settled")'
      BY <2>2, <3>1 DEF JobInv
    <3>5. /\ (job[s] = "recordingPaycrest" => about[s] \in PaycrestOrders /\ order[about[s]] # "none")'
          /\ (job[s] = "recordingPartna" => about[s] \in PartnaRamps /\ order[about[s]] # "none")'
      BY <2>2, <3>1 DEF JobInv
    <3>6. QED BY <3>1, <3>3, <3>4, <3>5 DEF JobInv
  <2>4. RecordedIsPaid' /\ FailedIsExhausted'
    BY <2>2 DEF TypeOK, RecordedIsPaid, FailedIsExhausted
  <2>5. QED BY <2>1, <2>3, <2>4
<1>3. CASE Crash
  <2> USE <1>3 DEF Crash, IInv
  <2>1. TypeOK'
    BY DEF TypeOK
  <2>2. ASSUME NEW s \in Requests PROVE JobInv(s)'
    <3>1. handler'[s] \in {"new", "done"} /\ (handler'[s] = "new" => handler[s] = "new")
      OBVIOUS
    <3>2. CASE job[s] \in Running
      <4>1. stalls'[s] = stalls[s] + 1 /\ job'[s] \in {"waiting", "failed"}
        BY <3>2
      <4>2. sent[s] \in Nat /\ made[s] \in Nat /\ stalls[s] \in Nat
        BY DEF TypeOK
      <4>3. sent[s] <= 2 * (made[s] + stalls[s]) + Sendings(s) /\ Sendings(s) \in {0, 1, 2}
        BY JobInv(s) DEF JobInv
      <4>4. sent'[s] <= 2 * (made'[s] + stalls'[s]) + Sendings(s)'
        <5>1. Sendings(s)' = 0 /\ sent' = sent /\ made' = made
          BY <4>1
        <5> HIDE DEF Sendings
        <5>2. QED BY <4>1, <4>2, <4>3, <5>1
      <4>5. JobInv(s)
        OBVIOUS
      <4>6. order' = order /\ made' = made
        OBVIOUS
      <4>7. /\ job'[s] = "waiting" => stalls'[s] <= MaxStalls
            /\ made[s] < MaxAttempts /\ stalls[s] <= MaxStalls
            /\ made'[s] + stalls'[s] <= MaxAttempts + MaxStalls
        <5>1. made[s] < MaxAttempts /\ stalls[s] <= MaxStalls
          BY <3>2, <4>5 DEF JobInv
        <5>2. job'[s] = "waiting" => stalls[s] < MaxStalls
          BY <3>2
        <5>3. QED BY <4>1, <4>2, <4>6, <5>1, <5>2, WithdrawalConstants
      <4> HIDE DEF Sendings, IInv, Crash
      <4>8. QED BY <3>1, <3>2, <4>1, <4>4, <4>5, <4>6, <4>7 DEF JobInv
    <3>3. CASE job[s] \notin Running
      <4>1. stalls'[s] = stalls[s] /\ job'[s] = job[s]
        BY <3>3
      <4>2. QED BY <3>1, <3>3, <4>1 DEF JobInv
    <3>4. QED BY <3>2, <3>3
  <2>3. RecordedIsPaid' /\ FailedIsExhausted'
    BY DEF TypeOK, RecordedIsPaid, FailedIsExhausted
  <2>4. QED BY <2>1, <2>2, <2>3
<1>4. CASE UNCHANGED vars
  BY <1>4 DEF vars, IInv, TypeOK, JobInv, RecordedIsPaid, FailedIsExhausted
<1>5. QED BY <1>1, <1>2, <1>3, <1>4 DEF Next

THEOREM Invariance == Spec => []IInv
  BY InitInv, StepInv, PTL DEF Spec

(* TypeOK: the variables keep their types; no handler writes another status.*)
THEOREM TypeCorrect == Spec => []TypeOK
  BY Invariance, PTL DEF IInv

(* RecordedIsPaid: an order the vault names has been paid.                  *)
THEOREM RecordedOrdersArePaid == Spec => []RecordedIsPaid
  BY Invariance, PTL DEF IInv

(* TwiceARun: a job sends the amount at most twice for each run it is given.*)
THEOREM AtMostTwiceARun == Spec => []TwiceARun
<1>1. IInv => TwiceARun
  <2> SUFFICES ASSUME IInv, NEW r \in Requests
               PROVE  sent[r] <= 2 * (made[r] + stalls[r] + 1)
    BY DEF TwiceARun
  <2>1. sent[r] \in Nat /\ made[r] \in Nat /\ stalls[r] \in Nat
    BY DEF IInv, TypeOK
  <2>2. Sendings(r) \in {0, 1, 2}
    OBVIOUS
  <2>3. sent[r] <= 2 * (made[r] + stalls[r]) + Sendings(r)
    BY DEF IInv, JobInv
  <2> HIDE DEF Sendings
  <2>4. QED BY <2>1, <2>2, <2>3
<1>2. QED BY Invariance, <1>1, PTL

(* FailedIsExhausted: WITHDRAWAL_FAILED is only shown after a last attempt. *)
THEOREM FailedAfterLastAttempt == Spec => []FailedIsExhausted
  BY Invariance, PTL DEF IInv

(* BackWhenSettled: a vault is RELEASED again only after an order settled.  *)
THEOREM ReleasedAgainWhenSettled == Spec => BackWhenSettled
<1>1. IInv /\ [Next]_vars => [status' = "RELEASED" /\ status # "RELEASED"
                              => \E o \in Orders : order[o] = "settled"]_vars
  <2> SUFFICES ASSUME IInv, Next, status' = "RELEASED", status # "RELEASED"
               PROVE  \E o \in Orders : order[o] = "settled"
    OBVIOUS
  <2>1. ASSUME NEW r \in Requests, Handler(r) PROVE handler[r] = "settling"
    BY <2>1 DEF Handler, ReadForWithdrawal, MarkPending, Enqueue, ReadForRetry, EnqueueRetry,
                MarkRetried, DeclareFailed, ReadPartnaWebhook, MarkResent, ReadPaycrestWebhook,
                WriteSettled
  <2>2. ASSUME NEW r \in Requests, Process(r) PROVE FALSE
    BY <2>2 DEF Process, TakeJob, PayPaycrest, RecordPaycrest, FallBack, PayPartna,
                RecordPartna, PartnaFails, CatchPartna, RetryJob
  <2>3. ~ProviderDecides /\ ~Crash
    BY DEF ProviderDecides, Crash
  <2>4. QED BY <2>1, <2>2, <2>3 DEF Next, IInv, JobInv
<1>2. QED BY Invariance, <1>1, PTL DEF Spec, BackWhenSettled
-----------------------------------------------------------------------------
(* What a vault can lose to one job, whatever fails: its amount, twice for  *)
(* every attempt and every stall the queue allows.                          *)
THEOREM LossIsBounded == Spec => [](\A r \in Requests : sent[r] <= 2 * (MaxAttempts + MaxStalls))
<1>1. IInv => \A r \in Requests : sent[r] <= 2 * (MaxAttempts + MaxStalls)
  <2> SUFFICES ASSUME IInv, NEW r \in Requests
               PROVE  sent[r] <= 2 * (MaxAttempts + MaxStalls)
    OBVIOUS
  <2>1. sent[r] \in Nat /\ made[r] \in Nat /\ stalls[r] \in Nat
    BY DEF IInv, TypeOK
  <2>2. /\ sent[r] <= 2 * (made[r] + stalls[r]) + Sendings(r)
        /\ job[r] # "failed" => made[r] < MaxAttempts /\ stalls[r] <= MaxStalls
        /\ made[r] + stalls[r] <= MaxAttempts + MaxStalls
    BY DEF IInv, JobInv
  <2>3. Sendings(r) \in {0, 1, 2} /\ (job[r] = "failed" => Sendings(r) = 0)
    OBVIOUS
  <2> HIDE DEF Sendings
  <2>4. QED BY <2>1, <2>2, <2>3
<1>2. QED BY Invariance, <1>1, PTL

(* Which failures it takes.  While every receipt arrives, every statement   *)
(* succeeds and the process lives, a run either sends the amount and        *)
(* completes, or sends nothing: a provider that fails does no harm.         *)
Quiet == Faults \subseteq {"provider", "enqueue"}

SentWhenRecorded ==
    \A r \in Requests :
        sent[r] = IF job[r] \in {"recordingPaycrest", "recordingPartna", "completed"} THEN 1 ELSE 0

LEMMA QuietStep ==
  ASSUME Quiet, TypeOK, IInv, SentWhenRecorded, [Next]_vars
  PROVE  SentWhenRecorded'
<1> USE DEF Quiet
<1>1. ASSUME NEW r \in Requests, Handler(r) PROVE SentWhenRecorded'
  <2>1. sent' = sent /\ (job' = job \/ (job[r] = "none" /\ job' = [job EXCEPT ![r] = "waiting"]))
    BY <1>1 DEF Handler, ReadForWithdrawal, MarkPending, Enqueue, Queue, ReadForRetry, EnqueueRetry,
                MarkRetried, DeclareFailed, ReadPartnaWebhook, MarkResent, ReadPaycrestWebhook,
                WriteSettled, IInv, JobInv
  <2>2. QED BY <2>1 DEF SentWhenRecorded, TypeOK
<1>2. ASSUME NEW r \in Requests, PayPaycrest(r) \/ PayPartna(r) PROVE SentWhenRecorded'
  <2>1. /\ job[r] \in {"paycrest", "partna"}
        /\ \E to \in {"recordingPaycrest", "recordingPartna"} : job' = [job EXCEPT ![r] = to]
        /\ sent' = [sent EXCEPT ![r] = @ + 1]
    BY <1>2 DEF PayPaycrest, PayPartna, Send
  <2>2. QED BY <2>1 DEF SentWhenRecorded, TypeOK
<1>3. ASSUME NEW r \in Requests, Process(r), ~PayPaycrest(r), ~PayPartna(r) PROVE SentWhenRecorded'
  <2>1. /\ sent' = sent
        /\ \E to \in Jobs :
              /\ job' = [job EXCEPT ![r] = to]
              /\ job[r] \in {"recordingPaycrest", "recordingPartna", "completed"}
                   <=> to \in {"recordingPaycrest", "recordingPartna", "completed"}
    BY <1>3 DEF Process, TakeJob, RecordPaycrest, FallBack, RecordPartna, PartnaFails,
                CatchPartna, RetryJob
  <2>2. QED BY <2>1 DEF SentWhenRecorded, TypeOK
<1>4. CASE ProviderDecides \/ UNCHANGED vars
  BY <1>4 DEF ProviderDecides, vars, SentWhenRecorded
<1>5. ~Crash
  BY DEF Crash
<1>6. QED BY <1>1, <1>2, <1>3, <1>4, <1>5 DEF Next

LEMMA QuietInv ==
  ASSUME Quiet
  PROVE  Spec => []SentWhenRecorded
<1>1. Init => SentWhenRecorded
  BY DEF Init, SentWhenRecorded
<1>2. TypeOK /\ IInv /\ SentWhenRecorded /\ [Next]_vars => SentWhenRecorded'
  BY QuietStep
<1>3. QED BY <1>1, <1>2, TypeCorrect, Invariance, PTL DEF Spec

(* OneProviderPays: then "falling back to Partna" never pays twice.         *)
THEOREM OneProviderWhenQuiet ==
  ASSUME Quiet
  PROVE  Spec => []OneProviderPays
<1>1. TypeOK /\ SentWhenRecorded => OneProviderPays
  <2> SUFFICES ASSUME TypeOK, SentWhenRecorded, NEW r \in Requests
               PROVE  sent[r] <= made[r] + 1
    BY DEF OneProviderPays
  <2>1. sent[r] \in {0, 1} /\ made[r] \in Nat
    BY DEF TypeOK, SentWhenRecorded
  <2>2. QED BY <2>1
<1>2. QED BY <1>1, QuietInv, TypeCorrect, PTL

(* ... and a job that completes has sent the amount exactly once, one that  *)
(* fails has sent nothing.                                                  *)
THEOREM PaidOnceWhenQuiet ==
  ASSUME Quiet
  PROVE  Spec => [](\A r \in Requests : /\ job[r] = "completed" => sent[r] = 1
                                        /\ job[r] = "failed" => sent[r] = 0)
<1>1. SentWhenRecorded => \A r \in Requests : /\ job[r] = "completed" => sent[r] = 1
                                              /\ job[r] = "failed" => sent[r] = 0
  BY DEF SentWhenRecorded
<1>2. QED BY <1>1, QuietInv, PTL
=============================================================================
