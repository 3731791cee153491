--------------------------- MODULE OnboardingProofs ---------------------------
(***************************************************************************)
(* The safety properties of Onboarding, for any number of concurrent calls *)
(* and whatever name Partna gives an account.                              *)
(***************************************************************************)
EXTENDS Onboarding, TLAPS

USE OnboardingConstants
    DEF Supported, Places, Names, row, partna, Idle, At, Goto, Return,
        Missed, Register, RegisteredAs, MayAsk, OpenFor, OtpPlace, PassesOver

(* What a call carries to its last write still holds at Partna when it     *)
(* makes it, since nothing that was verified or opened there goes away.    *)
CallInv ==
    \A c \in Calls :
       /\ call[c].at \in {"entering", "initiating", "noting", "recording", "recordingAfterOtp"}
             => call[c].place \in Supported
       /\ call[c].at \in {"initiating", "noting", "recording"} => call[c].name \in Names
       /\ call[c].at = "recording" => call[c].place \in verified /\ call[c].place \in virtual
       /\ call[c].at = "recordingAfterOtp" =>
             /\ customer # "none"
             /\ call[c].place \in verified
             /\ call[c].place = "KE" \/ call[c].place \in virtual

IInv == TypeOK /\ CallInv /\ VerifiedIsVouched /\ ReadyIsVerified /\ AccountsAreVerified

LEMMA InitInv == Init => IInv
<1> SUFFICES ASSUME Init PROVE IInv
  OBVIOUS
<1> USE DEF Init
<1>1. /\ ready \in BOOLEAN /\ identified \in BOOLEAN /\ data \in BOOLEAN
      /\ heard \in BOOLEAN /\ byAdmin \in BOOLEAN
  BY Zenon
<1>2. \A c \in Calls : call[c] = Idle
  OBVIOUS
<1>3. TypeOK
  BY <1>1 DEF TypeOK
<1>4. CallInv
  BY <1>2 DEF CallInv
<1>5. VerifiedIsVouched /\ ReadyIsVerified /\ AccountsAreVerified
  BY DEF VerifiedIsVouched, ReadyIsVerified, AccountsAreVerified
<1>6. QED BY <1>3, <1>4, <1>5 DEF IInv

(* The steps of a call in Partna's flow.                                  *)
LEMMA PartnaInv ==
  ASSUME IInv, NEW c \in Calls, Partna(c)
  PROVE  IInv'
<1> USE DEF IInv
<1>1. CASE \E p \in Places : SubmitIdentity(c, p)
  <2> USE <1>1 DEF SubmitIdentity
  <2>1. TypeOK'
    BY DEF TypeOK, CallInv
  <2>2. CallInv'
    BY DEF TypeOK, CallInv
  <2>3. VerifiedIsVouched'
    BY DEF TypeOK, CallInv, VerifiedIsVouched
  <2>4. ReadyIsVerified'
    BY DEF TypeOK, CallInv, ReadyIsVerified
  <2>5. AccountsAreVerified'
    BY DEF TypeOK, CallInv, AccountsAreVerified
  <2>6. QED BY <2>1, <2>2, <2>3, <2>4, <2>5 DEF IInv
<1>2. CASE EnterIdentity(c)
  <2> USE <1>2 DEF EnterIdentity
  <2>1. TypeOK'
    BY DEF TypeOK, CallInv
  <2>2. CallInv'
    BY DEF TypeOK, CallInv
  <2>3. VerifiedIsVouched'
    BY DEF TypeOK, CallInv, VerifiedIsVouched
  <2>4. ReadyIsVerified'
    BY DEF TypeOK, CallInv, ReadyIsVerified
  <2>5. AccountsAreVerified'
    BY DEF TypeOK, CallInv, AccountsAreVerified
  <2>6. QED BY <2>1, <2>2, <2>3, <2>4, <2>5 DEF IInv
<1>3. CASE VerifyIdentity(c)
  <2> USE <1>3 DEF VerifyIdentity
  <2>1. TypeOK'
    BY DEF TypeOK, CallInv
  <2>2. CallInv'
    BY DEF TypeOK, CallInv
  <2>3. VerifiedIsVouched'
    BY DEF TypeOK, CallInv, VerifiedIsVouched
  <2>4. ReadyIsVerified'
    BY DEF TypeOK, CallInv, ReadyIsVerified
  <2>5. AccountsAreVerified'
    BY DEF TypeOK, CallInv, AccountsAreVerified
  <2>6. QED BY <2>1, <2>2, <2>3, <2>4, <2>5 DEF IInv
<1>4. CASE AskForOtp(c)
  <2> USE <1>4 DEF AskForOtp
  <2>1. TypeOK'
    BY DEF TypeOK, CallInv
  <2>2. CallInv'
    BY DEF TypeOK, CallInv
  <2>3. VerifiedIsVouched'
    BY DEF TypeOK, CallInv, VerifiedIsVouched
  <2>4. ReadyIsVerified'
    BY DEF TypeOK, CallInv, ReadyIsVerified
  <2>5. AccountsAreVerified'
    BY DEF TypeOK, CallInv, AccountsAreVerified
  <2>6. QED BY <2>1, <2>2, <2>3, <2>4, <2>5 DEF IInv
<1>5. CASE NoteOtp(c)
  <2> USE <1>5 DEF NoteOtp
  <2>1. TypeOK'
    BY DEF TypeOK, CallInv
  <2>2. CallInv'
    BY DEF TypeOK, CallInv
  <2>3. VerifiedIsVouched'
    BY DEF TypeOK, CallInv, VerifiedIsVouched
  <2>4. ReadyIsVerified'
    BY DEF TypeOK, CallInv, ReadyIsVerified
  <2>5. AccountsAreVerified'
    BY DEF TypeOK, CallInv, AccountsAreVerified
  <2>6. QED BY <2>1, <2>2, <2>3, <2>4, <2>5 DEF IInv
<1>6. CASE OpenAccount(c)
  <2> USE <1>6 DEF OpenAccount
  <2>1. TypeOK'
    BY DEF TypeOK, CallInv
  <2>2. CallInv'
    BY DEF TypeOK, CallInv
  <2>3. VerifiedIsVouched'
    BY DEF TypeOK, CallInv, VerifiedIsVouched
  <2>4. ReadyIsVerified'
    BY DEF TypeOK, CallInv, ReadyIsVerified
  <2>5. AccountsAreVerified'
    BY DEF TypeOK, CallInv, AccountsAreVerified
  <2>6. QED BY <2>1, <2>2, <2>3, <2>4, <2>5 DEF IInv
<1>7. CASE RecordReady(c)
  <2> USE <1>7 DEF RecordReady
  <2>1. TypeOK'
    BY DEF TypeOK, CallInv
  <2>2. CallInv'
    BY DEF TypeOK, CallInv
  <2>3. VerifiedIsVouched'
    BY DEF TypeOK, CallInv, VerifiedIsVouched
  <2>4. ReadyIsVerified'
    BY DEF TypeOK, CallInv, ReadyIsVerified
  <2>5. AccountsAreVerified'
    BY DEF TypeOK, CallInv, AccountsAreVerified
  <2>6. QED BY <2>1, <2>2, <2>3, <2>4, <2>5 DEF IInv
<1>8. CASE VerifyKycOtp(c)
  <2> USE <1>8 DEF VerifyKycOtp, ConfirmOtp
  <2>1. TypeOK'
    BY DEF TypeOK, CallInv
  <2>2. CallInv'
    BY DEF TypeOK, CallInv
  <2>3. VerifiedIsVouched'
    BY DEF TypeOK, CallInv, VerifiedIsVouched
  <2>4. ReadyIsVerified'
    BY DEF TypeOK, CallInv, ReadyIsVerified
  <2>5. AccountsAreVerified'
    BY DEF TypeOK, CallInv, AccountsAreVerified
  <2>6. QED BY <2>1, <2>2, <2>3, <2>4, <2>5 DEF IInv
<1>9. CASE RecordReadyAfterOtp(c)
  <2> USE <1>9 DEF RecordReadyAfterOtp
  <2>1. TypeOK'
    BY DEF TypeOK, CallInv
  <2>2. CallInv'
    BY DEF TypeOK, CallInv
  <2>3. VerifiedIsVouched'
    BY DEF TypeOK, CallInv, VerifiedIsVouched
  <2>4. ReadyIsVerified'
    BY DEF TypeOK, CallInv, ReadyIsVerified
  <2>5. AccountsAreVerified'
    BY DEF TypeOK, CallInv, AccountsAreVerified
  <2>6. QED BY <2>1, <2>2, <2>3, <2>4, <2>5 DEF IInv
<1>10. CASE CallFails(c)
  <2> USE <1>10 DEF CallFails
  <2>1. TypeOK'
    BY DEF TypeOK, CallInv
  <2>2. CallInv'
    BY DEF TypeOK, CallInv
  <2>3. VerifiedIsVouched'
    BY DEF TypeOK, CallInv, VerifiedIsVouched
  <2>4. ReadyIsVerified'
    BY DEF TypeOK, CallInv, ReadyIsVerified
  <2>5. AccountsAreVerified'
    BY DEF TypeOK, CallInv, AccountsAreVerified
  <2>6. QED BY <2>1, <2>2, <2>3, <2>4, <2>5 DEF IInv
<1>11. QED BY <1>1, <1>2, <1>3, <1>4, <1>5, <1>6, <1>7, <1>8, <1>9, <1>10 DEF Partna

(* Documents, Didit sessions and resets.                                   *)
LEMMA DocumentsInv ==
  ASSUME IInv, NEW c \in Calls, Documents(c)
  PROVE  IInv'
<1> USE DEF IInv
<1>1. CASE SubmitKyc(c)
  <2> USE <1>1 DEF SubmitKyc
  <2>1. TypeOK'
    BY DEF TypeOK, CallInv
  <2>2. CallInv'
    BY DEF TypeOK, CallInv
  <2>3. VerifiedIsVouched'
    BY DEF TypeOK, CallInv, VerifiedIsVouched
  <2>4. ReadyIsVerified'
    BY DEF TypeOK, CallInv, ReadyIsVerified
  <2>5. AccountsAreVerified'
    BY DEF TypeOK, CallInv, AccountsAreVerified
  <2>6. QED BY <2>1, <2>2, <2>3, <2>4, <2>5 DEF IInv
<1>2. CASE RecordKyc(c)
  <2> USE <1>2 DEF RecordKyc
  <2>1. TypeOK'
    BY DEF TypeOK, CallInv
  <2>2. CallInv'
    BY DEF TypeOK, CallInv
  <2>3. VerifiedIsVouched'
    BY DEF TypeOK, CallInv, VerifiedIsVouched
  <2>4. ReadyIsVerified'
    BY DEF TypeOK, CallInv, ReadyIsVerified
  <2>5. AccountsAreVerified'
    BY DEF TypeOK, CallInv, AccountsAreVerified
  <2>6. QED BY <2>1, <2>2, <2>3, <2>4, <2>5 DEF IInv
<1>3. CASE GetDiditSession(c)
  <2> USE <1>3 DEF GetDiditSession
  <2>1. TypeOK'
    BY DEF TypeOK, CallInv
  <2>2. CallInv'
    BY DEF TypeOK, CallInv
  <2>3. VerifiedIsVouched'
    BY DEF TypeOK, CallInv, VerifiedIsVouched
  <2>4. ReadyIsVerified'
    BY DEF TypeOK, CallInv, ReadyIsVerified
  <2>5. AccountsAreVerified'
    BY DEF TypeOK, CallInv, AccountsAreVerified
  <2>6. QED BY <2>1, <2>2, <2>3, <2>4, <2>5 DEF IInv
<1>4. CASE RecordPending(c)
  <2> USE <1>4 DEF RecordPending
  <2>1. TypeOK'
    BY DEF TypeOK, CallInv
  <2>2. CallInv'
    BY DEF TypeOK, CallInv
  <2>3. VerifiedIsVouched'
    BY DEF TypeOK, CallInv, VerifiedIsVouched
  <2>4. ReadyIsVerified'
    BY DEF TypeOK, CallInv, ReadyIsVerified
  <2>5. AccountsAreVerified'
    BY DEF TypeOK, CallInv, AccountsAreVerified
  <2>6. QED BY <2>1, <2>2, <2>3, <2>4, <2>5 DEF IInv
<1>5. CASE ResetKyc(c)
  <2> USE <1>5 DEF ResetKyc
  <2>1. TypeOK'
    <3>1. data' \in BOOLEAN
      BY Zenon DEF TypeOK
    <3>2. QED BY <3>1 DEF TypeOK
  <2>2. CallInv'
    BY DEF TypeOK, CallInv
  <2>3. VerifiedIsVouched'
    BY DEF TypeOK, CallInv, VerifiedIsVouched
  <2>4. ReadyIsVerified'
    BY DEF TypeOK, CallInv, ReadyIsVerified
  <2>5. AccountsAreVerified'
    BY DEF TypeOK, CallInv, AccountsAreVerified
  <2>6. QED BY <2>1, <2>2, <2>3, <2>4, <2>5 DEF IInv
<1>6. CASE RecordReset(c)
  <2> USE <1>6 DEF RecordReset
  <2>1. TypeOK'
    BY DEF TypeOK, CallInv
  <2>2. CallInv'
    BY DEF TypeOK, CallInv
  <2>3. VerifiedIsVouched'
    BY DEF TypeOK, CallInv, VerifiedIsVouched
  <2>4. ReadyIsVerified'
    BY DEF TypeOK, CallInv, ReadyIsVerified
  <2>5. AccountsAreVerified'
    BY DEF TypeOK, CallInv, AccountsAreVerified
  <2>6. QED BY <2>1, <2>2, <2>3, <2>4, <2>5 DEF IInv
<1>7. QED BY <1>1, <1>2, <1>3, <1>4, <1>5, <1>6 DEF Documents

(* Handlers of one step, webhooks and admins.                              *)
LEMMA OthersInv ==
  ASSUME IInv, Others
  PROVE  IInv'
<1> USE DEF IInv
<1>1. CASE InitializePartnaAccount
  <2> USE <1>1 DEF InitializePartnaAccount
  <2>1. TypeOK'
    BY DEF TypeOK, CallInv
  <2>2. CallInv'
    BY DEF TypeOK, CallInv
  <2>3. VerifiedIsVouched'
    BY DEF TypeOK, CallInv, VerifiedIsVouched
  <2>4. ReadyIsVerified'
    BY DEF TypeOK, CallInv, ReadyIsVerified
  <2>5. AccountsAreVerified'
    BY DEF TypeOK, CallInv, AccountsAreVerified
  <2>6. QED BY <2>1, <2>2, <2>3, <2>4, <2>5 DEF IInv
<1>2. CASE SelectKycMethod
  <2> USE <1>2 DEF SelectKycMethod
  <2>1. TypeOK'
    BY DEF TypeOK, CallInv
  <2>2. CallInv'
    BY DEF TypeOK, CallInv
  <2>3. VerifiedIsVouched'
    BY DEF TypeOK, CallInv, VerifiedIsVouched
  <2>4. ReadyIsVerified'
    BY DEF TypeOK, CallInv, ReadyIsVerified
  <2>5. AccountsAreVerified'
    BY DEF TypeOK, CallInv, AccountsAreVerified
  <2>6. QED BY <2>1, <2>2, <2>3, <2>4, <2>5 DEF IInv
<1>3. CASE \E v \in {"approved", "declined"} : HandleDiditWebhook(v)
  <2> USE <1>3 DEF HandleDiditWebhook
  <2>1. TypeOK'
    <3>1. data' \in BOOLEAN /\ heard' \in BOOLEAN
      BY Zenon DEF TypeOK
    <3>2. QED BY <3>1 DEF TypeOK
  <2>2. CallInv'
    BY DEF TypeOK, CallInv
  <2>3. VerifiedIsVouched'
    BY DEF TypeOK, CallInv, VerifiedIsVouched
  <2>4. ReadyIsVerified'
    BY DEF TypeOK, CallInv, ReadyIsVerified
  <2>5. AccountsAreVerified'
    BY DEF TypeOK, CallInv, AccountsAreVerified
  <2>6. QED BY <2>1, <2>2, <2>3, <2>4, <2>5 DEF IInv
<1>4. CASE \E s \in {"VERIFIED", "REJECTED"} : HandleKyc(s)
  <2> USE <1>4 DEF HandleKyc
  <2>1. TypeOK'
    BY DEF TypeOK, CallInv
  <2>2. CallInv'
    BY DEF TypeOK, CallInv
  <2>3. VerifiedIsVouched'
    BY DEF TypeOK, CallInv, VerifiedIsVouched
  <2>4. ReadyIsVerified'
    BY DEF TypeOK, CallInv, ReadyIsVerified
  <2>5. AccountsAreVerified'
    BY DEF TypeOK, CallInv, AccountsAreVerified
  <2>6. QED BY <2>1, <2>2, <2>3, <2>4, <2>5 DEF IInv
<1>5. CASE ManualVerifyUser
  <2> USE <1>5 DEF ManualVerifyUser
  <2>1. TypeOK'
    BY DEF TypeOK, CallInv
  <2>2. CallInv'
    BY DEF TypeOK, CallInv
  <2>3. VerifiedIsVouched'
    BY DEF TypeOK, CallInv, VerifiedIsVouched
  <2>4. ReadyIsVerified'
    BY DEF TypeOK, CallInv, ReadyIsVerified
  <2>5. AccountsAreVerified'
    BY DEF TypeOK, CallInv, AccountsAreVerified
  <2>6. QED BY <2>1, <2>2, <2>3, <2>4, <2>5 DEF IInv
<1>6. CASE \E p \in Places : UpdateProfile(p)
  <2> USE <1>6 DEF UpdateProfile
  <2>1. TypeOK'
    BY DEF TypeOK, CallInv
  <2>2. CallInv'
    BY DEF TypeOK, CallInv
  <2>3. VerifiedIsVouched'
    BY DEF TypeOK, CallInv, VerifiedIsVouched
  <2>4. ReadyIsVerified'
    BY DEF TypeOK, CallInv, ReadyIsVerified
  <2>5. AccountsAreVerified'
    BY DEF TypeOK, CallInv, AccountsAreVerified
  <2>6. QED BY <2>1, <2>2, <2>3, <2>4, <2>5 DEF IInv
<1>7. QED BY <1>1, <1>2, <1>3, <1>4, <1>5, <1>6 DEF Others

LEMMA StutterInv == IInv /\ UNCHANGED vars => IInv'
  BY DEF IInv, vars, TypeOK, CallInv, VerifiedIsVouched, ReadyIsVerified, AccountsAreVerified

THEOREM Invariance == Spec => []IInv
<1>1. IInv /\ [Next]_vars => IInv'
  BY PartnaInv, DocumentsInv, OthersInv, StutterInv DEF Next
<1>2. QED BY InitInv, <1>1, PTL DEF Spec

(* Every variable stays in its type. *)
THEOREM TypeCorrect == Spec => []TypeOK
<1>1. IInv => TypeOK
  BY DEF IInv
<1>2. QED BY Invariance, <1>1, PTL

(* VERIFIED rests on a verification at Partna, a webhook that reported Didit's
   approval, whoever sent it, or an admin, in every interleaving of the calls
   with the webhooks and the admins. *)
THEOREM StatusIsVouched == Spec => []VerifiedIsVouched
<1>1. IInv => VerifiedIsVouched
  BY DEF IInv
<1>2. QED BY Invariance, <1>1, PTL

(* paymentAccountReady is written only for an identity verified at Partna. *)
THEOREM ReadyAccountsAreVerified == Spec => []ReadyIsVerified
<1>1. IInv => ReadyIsVerified
  BY DEF IInv
<1>2. QED BY Invariance, <1>1, PTL

(* No virtual account in a currency whose country was not verified. *)
THEOREM VirtualAccountsAreVerified == Spec => []AccountsAreVerified
<1>1. IInv => AccountsAreVerified
  BY DEF IInv
<1>2. QED BY Invariance, <1>1, PTL

===============================================================================
