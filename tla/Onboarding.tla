----------------------------- MODULE Onboarding -----------------------------
(***************************************************************************)
(* How one user becomes able to pay and be paid: the country and identity  *)
(* they submit, the account Partna opens for their e-mail after checking a *)
(* BVN (NG) or a phone (KE), often by a one-time password, and the status  *)
(* of their verification, which Partna's flow, Didit's webhooks, the user  *)
(* and the admins all write.  The role has been chosen before.             *)
(*                                                                         *)
(* A call reads the row once and goes on with what it read while it waits  *)
(* for Partna; no write of the row looks at the row again.                 *)
(***************************************************************************)
EXTENDS Naturals

CONSTANTS Calls,   \* requests of the user under way; a finished one may start again
          Faults,  \* which failures of the environment may happen
          NewName  \* the name Partna gives to an account it registers for us

Supported == {"NG", "KE"}
Places    == Supported \cup {"XX"}   \* XX: any other country
Names     == {"own", "other"}        \* Partna's names: derived from our user id, or not

ASSUME OnboardingConstants ==
    /\ Faults \subseteq {"partna",  \* a request to Partna fails
                         "db"}      \* a statement throws, or the process dies before it
    /\ NewName \in Names            \* the request carries the e-mail and no name

VARIABLES
    country,     \* User.country
    kyc,         \* User.kycStatus
    ready,       \* User.paymentAccountReady
    customer,    \* User.partnaCustomerId
    ref,         \* User.partnaAccountRef: a phone ID or an account number
    identified,  \* User.bvn or User.phoneNumber is set
    data,        \* a KycData row exists
    account,     \* Partna: the name of the account of the user's e-mail
    otp,         \* Partna: how far the one-time password of each country is
    verified,    \* Partna: countries in which the identity has been verified
    virtual,     \* Partna: countries in whose currency it holds a virtual account
    heard,       \* history: some webhook has reported an approval by Didit
    byAdmin,     \* some admin has declared the user VERIFIED
    call         \* where each call is, and what it goes by

row    == <<country, kyc, ready, customer, ref, identified, data>>
partna == <<account, otp, verified, virtual>>
vars   == <<row, partna, heard, byAdmin, call>>

Idle == [at |-> "idle", place |-> "none", name |-> "none"]

Init ==
    /\ country = "none" /\ kyc = "NONE"
    /\ ready = FALSE /\ customer = "none" /\ ref = "none"
    /\ identified = FALSE /\ data = FALSE
    /\ account \in {"none", "other"}      \* the e-mail may be known from before
    /\ otp = [p \in Supported |-> "none"]
    /\ verified = {} /\ virtual = {}
    /\ heard = FALSE /\ byAdmin = FALSE
    /\ call = [c \in Calls |-> Idle]

At(c, step) == call[c].at = step
Goto(c, step) == call' = [call EXCEPT ![c].at = step]
Return(c) == call' = [call EXCEPT ![c] = Idle]

-----------------------------------------------------------------------------
\* Partna looks the e-mail up; a lookup that fails finds nothing, and then the
\* registration it leads to is refused because there is an account already.
Missed == account # "none" /\ "partna" \in Faults

Register ==
    \/ account = "none" /\ account' = NewName
    \/ Missed /\ UNCHANGED account

\* POST /onboarding/initialize: the name found is kept, or else the one derived
\* from the user's id, whatever the registration answers.  The row is written
\* without having been read, so this is one step.
InitializePartnaAccount ==
    /\ \/ account # "none" /\ UNCHANGED account /\ customer' = account
       \/ Register /\ customer' = "own"
       \/ "db" \in Faults /\ (Register \/ UNCHANGED account) /\ UNCHANGED customer
    /\ UNCHANGED <<country, kyc, ready, ref, identified, data,
                   otp, verified, virtual, heard, byAdmin, call>>

\* POST /onboarding/identity, up to its own write.
SubmitIdentity(c, p) ==
    /\ At(c, "idle")
    /\ p \in Supported
    /\ country # "none" /\ country # p => kyc = "NONE"
    /\ call' = [call EXCEPT ![c] = [at |-> "entering", place |-> p, name |-> "none"]]
    /\ UNCHANGED <<row, partna, heard, byAdmin>>

EnterIdentity(c) ==
    /\ At(c, "entering")
    /\ country' = call[c].place
    /\ identified' = (identified \/ call[c].place = "KE")
    /\ Return(c)
    /\ UNCHANGED <<kyc, ready, customer, ref, data, partna, heard, byAdmin>>

\* In KE the answer of the registration is ignored.
RegisteredAs(p, n) == n = "own" \/ (p = "NG" /\ n = account')

\* verifyIdentity, which submitIdentity calls next and POST /onboarding/verify-identity
\* calls alone: it goes by the country it reads now.  An account that is found is
\* noted in the row; an error there is caught and the call goes on.
VerifyIdentity(c) ==
    /\ At(c, "idle")
    /\ ~ready /\ country \in Supported
    /\ \E n \in Names :
          /\ call' = [call EXCEPT ![c] = [at |-> "initiating", place |-> country, name |-> n]]
          /\ \/ /\ n = account /\ UNCHANGED account
                /\ customer' = n \/ ("db" \in Faults /\ UNCHANGED customer)
             \/ Register /\ RegisteredAs(country, n) /\ UNCHANGED customer
    /\ UNCHANGED <<country, kyc, ready, ref, identified, data,
                   otp, verified, virtual, heard, byAdmin>>

-----------------------------------------------------------------------------
\* PUT /v4/account: a virtual account in the currency of p.
\* Mutated: the currency is left to its default, NGN.
OpenForDefault(p) == virtual' = virtual \cup {"NG"}
OpenFor(p) == virtual' = virtual \cup {p}

\* Partna does not ask again for what it has verified.
MayAsk(p) == p \notin verified

\* Partna starts the verification of an account it knows and asks for a one-time
\* password.  In KE the same call has the password sent.
AskForOtp(c) ==
    /\ At(c, "initiating")
    /\ call[c].name = account
    /\ MayAsk(call[c].place)
    /\ otp' = [otp EXCEPT ![call[c].place] = IF call[c].place = "KE" THEN "sent" ELSE "open"]
    /\ Goto(c, "noting")
    /\ UNCHANGED <<row, account, verified, virtual, heard, byAdmin>>

\* Or it is satisfied, now or since an earlier time, and the virtual account is
\* opened; that it exists already is fine.
OpenAccount(c) ==
    /\ At(c, "initiating")
    /\ call[c].name = account
    /\ verified' = verified \cup {call[c].place}
    /\ \/ OpenFor(call[c].place) /\ Goto(c, "recording")
       \/ "partna" \in Faults /\ UNCHANGED virtual /\ Return(c)
    /\ UNCHANGED <<row, account, otp, heard, byAdmin>>

\* Mutated: the reference is taken from the wrong field.
NoteOtpName(c) ==
    /\ At(c, "noting")
    /\ identified' = TRUE
    /\ customer' = call[c].name
    /\ ref' = call[c].name
    /\ Return(c)
    /\ UNCHANGED <<country, kyc, ready, data, partna, heard, byAdmin>>

NoteOtp(c) ==
    /\ At(c, "noting")
    /\ identified' = TRUE
    /\ customer' = call[c].name
    /\ ref' = IF call[c].place = "KE" THEN "phone" ELSE ref
    /\ Return(c)
    /\ UNCHANGED <<country, kyc, ready, data, partna, heard, byAdmin>>

RecordReady(c) ==
    /\ At(c, "recording")
    /\ identified' = TRUE /\ ready' = TRUE /\ kyc' = "VERIFIED"
    /\ customer' = call[c].name
    /\ ref' = "account"
    /\ Return(c)
    /\ UNCHANGED <<country, data, partna, heard, byAdmin>>

\* POST /onboarding/kyc-method, and kyc-confirm-phone after it for a method that
\* asks for the phone: in NG the user chooses where the password goes.
SelectKycMethod ==
    /\ customer = account /\ country # "KE"
    /\ otp["NG"] = "open"
    /\ otp' = [otp EXCEPT !["NG"] = "sent"]
    /\ UNCHANGED <<row, account, verified, virtual, heard, byAdmin, call>>

\* POST /onboarding/kyc-otp.  The row is read once: every country but KE is
\* taken for NG, and KE goes by the phone ID it finds in the row.
OtpPlace == IF country = "KE" THEN "KE" ELSE "NG"

ConfirmOtp ==
    /\ customer # "none"
    /\ otp[OtpPlace] = "sent"
    /\ IF OtpPlace = "KE" THEN ref = "phone" ELSE customer = account
    /\ otp' = [otp EXCEPT ![OtpPlace] = "none"]
    /\ verified' = verified \cup {OtpPlace}

\* Then the virtual account is opened.  That it exists already is a failure here
\* in NG; in KE any failure is passed over.  Mutated: everywhere.
PassesOverAll(p) == TRUE
PassesOver(p) == p = "KE"

VerifyKycOtp(c) ==
    /\ At(c, "idle")
    /\ ConfirmOtp
    /\ \/ /\ customer = account /\ OtpPlace \notin virtual
          /\ OpenFor(OtpPlace)
          /\ call' = [call EXCEPT ![c].at = "recordingAfterOtp", ![c].place = OtpPlace]
       \/ /\ customer # account \/ OtpPlace \in virtual \/ "partna" \in Faults
          /\ UNCHANGED virtual
          /\ call' = IF PassesOver(OtpPlace)
                     THEN [call EXCEPT ![c].at = "recordingAfterOtp", ![c].place = OtpPlace]
                     ELSE call
    /\ UNCHANGED <<row, account, heard, byAdmin>>

RecordReadyAfterOtp(c) ==
    /\ At(c, "recordingAfterOtp")
    /\ ready' = TRUE /\ kyc' = "VERIFIED"
    /\ ref' = IF call[c].place = "KE" THEN "phone" ELSE "account"
    /\ Return(c)
    /\ UNCHANGED <<country, customer, identified, data, partna, heard, byAdmin>>

\* A request to Partna is refused or lost, or a write is: the call throws.
CallFails(c) ==
    /\ \/ At(c, "initiating") /\ (call[c].name # account \/ "partna" \in Faults)
       \/ "db" \in Faults /\ ~At(c, "idle")
    /\ Return(c)
    /\ UNCHANGED <<row, partna, heard, byAdmin>>

-----------------------------------------------------------------------------
\* POST /onboarding/kyc: documents sent by the user.
SubmitKyc(c) ==
    /\ At(c, "idle")
    /\ kyc # "VERIFIED"
    /\ call' = [call EXCEPT ![c].at = "submitting"]
    /\ UNCHANGED <<row, partna, heard, byAdmin>>

RecordKyc(c) ==
    /\ At(c, "submitting")
    /\ kyc' = "PENDING" /\ data' = TRUE
    /\ Return(c)
    /\ UNCHANGED <<country, ready, customer, ref, identified, partna, heard, byAdmin>>

\* GET /onboarding/didit/session: a session is opened and the status follows.
GetDiditSession(c) ==
    /\ At(c, "idle")
    /\ country # "none" /\ identified
    /\ call' = [call EXCEPT ![c].at = "pending"]
    /\ UNCHANGED <<row, partna, heard, byAdmin>>

RecordPending(c) ==
    /\ At(c, "pending")
    /\ kyc' = "PENDING"
    /\ Return(c)
    /\ UNCHANGED <<country, ready, customer, ref, identified, data, partna, heard, byAdmin>>

\* POST /webhooks/didit: at any time, again, and in any order.  A report needs
\* no session of ours, and one whose signature is invalid is handled all the same.
\* Mutated: whatever is reported is a verification.
HandleDiditWebhookAny(v) ==
    /\ kyc' = "VERIFIED" /\ data' = TRUE
    /\ heard' = (heard \/ v = "approved")
    /\ UNCHANGED <<country, ready, customer, ref, identified, partna, byAdmin, call>>

HandleDiditWebhook(v) ==
    /\ \/ v = "approved" /\ kyc' = "VERIFIED" /\ data' = TRUE /\ heard' = TRUE
       \/ v = "declined" /\ kyc' = "REJECTED" /\ UNCHANGED <<data, heard>>
    /\ UNCHANGED <<country, ready, customer, ref, identified, partna, byAdmin, call>>

\* An admin's decision needs the KycData row it annotates.
HandleKyc(status) ==
    /\ data
    /\ kyc' = status
    /\ byAdmin' = (byAdmin \/ status = "VERIFIED")
    /\ UNCHANGED <<country, ready, customer, ref, identified, data, partna, heard, call>>

ManualVerifyUser ==
    /\ kyc' = "VERIFIED"
    /\ byAdmin' = TRUE
    /\ UNCHANGED <<country, ready, customer, ref, identified, data, partna, heard, call>>

\* An admin's reset: the data first, the status after it.
ResetKyc(c) ==
    /\ At(c, "idle")
    /\ data' = FALSE
    /\ call' = [call EXCEPT ![c].at = "resetting"]
    /\ UNCHANGED <<country, kyc, ready, customer, ref, identified, partna, heard, byAdmin>>

RecordReset(c) ==
    /\ At(c, "resetting")
    /\ kyc' = "NONE"
    /\ Return(c)
    /\ UNCHANGED <<country, ready, customer, ref, identified, data, partna, heard, byAdmin>>

\* PATCH /auth/profile.
UpdateProfile(p) ==
    /\ country' = p
    /\ UNCHANGED <<kyc, ready, customer, ref, identified, data, partna, heard, byAdmin, call>>

-----------------------------------------------------------------------------
Partna(c) ==
    \/ \E p \in Places : SubmitIdentity(c, p)
    \/ EnterIdentity(c) \/ VerifyIdentity(c)
    \/ AskForOtp(c) \/ NoteOtp(c) \/ OpenAccount(c) \/ RecordReady(c)
    \/ VerifyKycOtp(c) \/ RecordReadyAfterOtp(c)
    \/ CallFails(c)

Documents(c) ==
    \/ SubmitKyc(c) \/ RecordKyc(c)
    \/ GetDiditSession(c) \/ RecordPending(c)
    \/ ResetKyc(c) \/ RecordReset(c)

Others ==
    \/ InitializePartnaAccount \/ SelectKycMethod
    \/ \E v \in {"approved", "declined"} : HandleDiditWebhook(v)
    \/ \E s \in {"VERIFIED", "REJECTED"} : HandleKyc(s)
    \/ ManualVerifyUser
    \/ \E p \in Places : UpdateProfile(p)

Next == Others \/ \E c \in Calls : Partna(c) \/ Documents(c)

Spec == Init /\ [][Next]_vars

TypeOK ==
    /\ ready \in BOOLEAN /\ identified \in BOOLEAN /\ data \in BOOLEAN
    /\ country \in {"none"} \cup Places
    /\ kyc \in {"NONE", "PENDING", "VERIFIED", "REJECTED"}
    /\ customer \in {"none"} \cup Names /\ ref \in {"none", "phone", "account"}
    /\ account \in {"none"} \cup Names
    /\ otp \in [Supported -> {"none", "open", "sent"}]
    /\ verified \subseteq Supported /\ virtual \subseteq Supported
    /\ heard \in BOOLEAN /\ byAdmin \in BOOLEAN
    /\ call \in [Calls -> [at : {"idle", "entering", "initiating", "noting", "recording",
                                 "recordingAfterOtp", "submitting", "pending", "resetting"},
                           place : {"none"} \cup Supported, name : {"none"} \cup Names]]

-----------------------------------------------------------------------------
\* The user counts as verified only if Partna has verified an identity of
\* theirs, a report of Didit's approval was received, or an admin has said so:
\* none of the stale and racing writes of the status turns a mere submission into
\* a verification.  Who sent the report is another matter: the code logs an
\* invalid signature and goes on, and this says nothing of it.
VerifiedIsVouched ==
    kyc = "VERIFIED" => verified # {} \/ heard \/ byAdmin

\* An account that is shown as ready for payments has a customer and a reference,
\* belongs to an identity that Partna has verified, and has its virtual account,
\* unless the identity is Kenyan (verifyKycOtp goes on without one there).
ReadyIsVerified ==
    ready => /\ customer # "none" /\ ref # "none"
             /\ verified # {}
             /\ "KE" \in verified \/ virtual # {}

\* A virtual account is opened only in the currency of a country in which the
\* identity has been verified, even when the user's country changes under a call.
AccountsAreVerified == virtual \subseteq verified
=============================================================================
