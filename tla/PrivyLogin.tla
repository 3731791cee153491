------------------------------ MODULE PrivyLogin ------------------------------
(***************************************************************************)
(* AuthService.privyLogin: how a login with Privy finds or creates the     *)
(* user and links a wallet to it.  The user is known by email, the wallet  *)
(* by Privy's id of the person (DID), and both sides can change: one email *)
(* may stand for several DIDs, and a DID may get another email or, later,  *)
(* an embedded wallet.                                                     *)
(*                                                                         *)
(* "Sequential operations": nothing is in a transaction, so every await is *)
(* a step of its own, another login may come in between, and a login may   *)
(* end after any of them.  What protects the rows are the unique keys.     *)
(***************************************************************************)
CONSTANTS Dids,    \* persons as Privy knows them
          Emails,  \* email addresses; a user is named by the one it was created with
          Logins,  \* calls of privyLogin under way at a time
          None     \* no row

VARIABLES
    email,     \* Privy: the email of each DID
    embedded,  \* Privy: the DIDs with an embedded wallet
    users,     \* emails with a User row
    wallet,    \* the Wallet row of each DID: its user and its address
    call,      \* each call: how far it is and what it has read
    logins,    \* history: the user and DID of every login that has ended well
    moved      \* history: the users whose wallet was given to another user

vars == <<email, embedded, users, wallet, call, logins, moved>>

Real(d)    == [kind |-> "real", of |-> d]     \* the address of the embedded wallet
Pending(d) == [kind |-> "pending", of |-> d]  \* `pending_<did>`
Addresses  == {Real(d) : d \in Dids} \cup {Pending(d) : d \in Dids}

WalletRows == [user : Emails, address : Addresses]

ASSUME LoginConstants == None \notin Dids \cup Emails \cup WalletRows

Rows == {d \in Dids : wallet[d] # None}
WalletsOf(u) == {d \in Rows : wallet[d].user = u}

\* The columns privyDid, userId and address of Wallet are unique.
Unique(d, u, a) == \A x \in Rows \ {d} : wallet[x].user # u /\ wallet[x].address # a

Idle == [pc |-> "idle"]

Init ==
    /\ email \in [Dids -> Emails]
    /\ embedded = {}
    /\ users = {}
    /\ wallet = [d \in Dids |-> None]
    /\ call = [l \in Logins |-> Idle]
    /\ logins = {} /\ moved = {}
-----------------------------------------------------------------------------
PrivyChangesEmail ==
    /\ \E d \in Dids, e \in Emails : e # email[d] /\ email' = [email EXCEPT ![d] = e]
    /\ UNCHANGED <<embedded, users, wallet, call, logins, moved>>

PrivyCreatesWallet ==
    /\ \E d \in Dids \ embedded : embedded' = embedded \cup {d}
    /\ UNCHANGED <<email, users, wallet, call, logins, moved>>

Advance(l, to) ==
    /\ call' = [call EXCEPT ![l] = to]
    /\ UNCHANGED <<email, embedded, logins>>

\* verifyToken and getUser; the embedded wallet is looked up in this answer later.
GetUser(l) ==
    /\ call[l].pc = "idle"
    /\ \E d \in Dids : Advance(l, [pc |-> "claimed", did |-> d, email |-> email[d],
                                   real |-> d \in embedded])
    /\ UNCHANGED <<users, wallet, moved>>

\* A call that has found its user, with the wallet the answer included.
Found(c, u, own) ==
    [pc |-> "found", did |-> c.did, real |-> c.real, user |-> u, own |-> own]

At(c, pc) == [pc |-> pc, did |-> c.did, email |-> c.email, real |-> c.real]
Making(c) == [pc |-> "making", did |-> c.did, real |-> c.real, user |-> c.user]
Linked(c) == [pc |-> "linked", did |-> c.did, user |-> c.user]

\* The wallet that comes with a user.
Included(u) ==
    IF WalletsOf(u) = {} THEN None
    ELSE LET d == CHOOSE x \in WalletsOf(u) : TRUE
         IN  [row |-> d, pending |-> wallet[d].address.kind = "pending"]

FindByEmail(l) ==
    /\ call[l].pc = "claimed"
    /\ LET c == call[l] IN
       Advance(l, IF c.email \in users THEN Found(c, c.email, Included(c.email))
                  ELSE At(c, "unknown"))
    /\ UNCHANGED <<users, wallet, moved>>

\* Found by the wallet, the user comes without its wallet.
FindByDid(l) ==
    /\ call[l].pc = "unknown"
    /\ LET c == call[l] IN
       Advance(l, IF wallet[c.did] # None THEN Found(c, wallet[c.did].user, None)
                  ELSE At(c, "new"))
    /\ UNCHANGED <<users, wallet, moved>>

\* Mutation: the user is created under its DID.
CreateUserByDid(l) ==
    /\ call[l].pc = "new" /\ call[l].did \notin users
    /\ users' = users \cup {call[l].did}
    /\ LET c == call[l] IN
       Advance(l, [pc |-> "created", did |-> c.did, real |-> c.real, user |-> c.did])
    /\ UNCHANGED <<wallet, moved>>

CreateUser(l) ==
    /\ call[l].pc = "new" /\ call[l].email \notin users
    /\ users' = users \cup {call[l].email}
    /\ LET c == call[l] IN
       Advance(l, [pc |-> "created", did |-> c.did, real |-> c.real, user |-> c.email])
    /\ UNCHANGED <<wallet, moved>>

FindOrphan(l) ==
    /\ call[l].pc = "created"
    /\ LET c == call[l] IN
       Advance(l, IF wallet[c.did] # None
                  THEN [pc |-> "adopting", did |-> c.did, user |-> c.user,
                        address |-> IF c.real THEN Real(c.did) ELSE wallet[c.did].address]
                  ELSE Making(c))
    /\ UNCHANGED <<users, wallet, moved>>

\* The DID's wallet, which another login has created since, is given to the new
\* user, with the address it had then when Privy has reported none.
AdoptWallet(l) ==
    /\ call[l].pc = "adopting"
    /\ LET c == call[l] IN
          /\ Unique(c.did, c.user, c.address)
          /\ wallet' = [wallet EXCEPT ![c.did] = [user |-> c.user, address |-> c.address]]
          /\ moved' = moved \cup ({wallet[c.did].user} \ {c.user})
          /\ Advance(l, Linked(c))
    /\ UNCHANGED users

\* wallet.create, for a new user and for one that has none.
CreateWallet(l) ==
    /\ call[l].pc = "making"
    /\ LET c == call[l]
           a == IF c.real THEN Real(c.did) ELSE Pending(c.did)
       IN  /\ c.did \notin Rows /\ Unique(c.did, c.user, a)
           /\ wallet' = [wallet EXCEPT ![c.did] = [user |-> c.user, address |-> a]]
           /\ Advance(l, Linked(c))
    /\ UNCHANGED <<users, moved>>

\* A missing name or country is filled in, and the user read again.
CompleteProfile(l) ==
    /\ call[l].pc = "found"
    /\ Advance(l, Found(call[l], call[l].user, Included(call[l].user)))
    /\ UNCHANGED <<users, wallet, moved>>

\* Mutation: a user that exists is taken to have its wallet.
LinkMissingNever(l) ==
    /\ call[l].pc = "found" /\ call[l].own = None
    /\ Advance(l, Linked(call[l]))
    /\ UNCHANGED <<users, wallet, moved>>

\* A user without a wallet, as a login that was cut off has left it.
LinkMissing(l) ==
    /\ call[l].pc = "found" /\ call[l].own = None
    /\ Advance(l, IF wallet[call[l].did] # None THEN Linked(call[l])
                  ELSE Making(call[l]))
    /\ UNCHANGED <<users, wallet, moved>>

\* The address that was pending is replaced by the one of this login's DID.
ReplacePending(l) ==
    /\ call[l].pc = "found" /\ call[l].own # None
    /\ call[l].own.pending /\ call[l].real
    /\ LET c == call[l]
           d == c.own.row
       IN  /\ \A x \in Rows \ {d} : wallet[x].address # Real(c.did)
           /\ wallet' = [wallet EXCEPT ![d] = [user |-> @.user, address |-> Real(c.did)]]
           /\ Advance(l, Linked(c))
    /\ UNCHANGED <<users, moved>>

KeepWallet(l) ==
    /\ call[l].pc = "found" /\ call[l].own # None
    /\ ~(call[l].own.pending /\ call[l].real)
    /\ Advance(l, Linked(call[l]))
    /\ UNCHANGED <<users, wallet, moved>>

\* The tokens are signed and the session is stored.
CreateSession(l) ==
    /\ call[l].pc = "linked"
    /\ logins' = logins \cup {[user |-> call[l].user, did |-> call[l].did]}
    /\ call' = [call EXCEPT ![l] = Idle]
    /\ UNCHANGED <<email, embedded, users, wallet, moved>>

\* A unique key refuses the row, the database fails, or the process dies.
Fail(l) ==
    /\ call[l].pc # "idle"
    /\ Advance(l, Idle)
    /\ UNCHANGED <<users, wallet, moved>>

Step(l) ==
    \/ GetUser(l) \/ FindByEmail(l) \/ FindByDid(l)
    \/ CreateUser(l) \/ FindOrphan(l) \/ AdoptWallet(l) \/ CreateWallet(l)
    \/ CompleteProfile(l) \/ LinkMissing(l) \/ ReplacePending(l) \/ KeepWallet(l)
    \/ CreateSession(l) \/ Fail(l)

Next == PrivyChangesEmail \/ PrivyCreatesWallet \/ \E l \in Logins : Step(l)

Spec == Init /\ [][Next]_vars
-----------------------------------------------------------------------------
CallTypes ==
    {Idle}
      \cup [pc : {"claimed", "unknown", "new"}, did : Dids, email : Emails, real : BOOLEAN]
      \cup [pc : {"created", "making"}, did : Dids, real : BOOLEAN, user : Emails]
      \cup [pc : {"adopting"}, did : Dids, user : Emails, address : Addresses]
      \cup [pc : {"linked"}, did : Dids, user : Emails]
      \cup [pc : {"found"}, did : Dids, real : BOOLEAN, user : Emails,
            own : {None} \cup [row : Dids, pending : BOOLEAN]]

TypeOK ==
    /\ email \in [Dids -> Emails]
    /\ embedded \subseteq Dids
    /\ users \subseteq Emails
    /\ wallet \in [Dids -> {None} \cup WalletRows]
    /\ call \in [Logins -> CallTypes]
    /\ logins \subseteq [user : Emails, did : Dids]
    /\ moved \subseteq Emails

\* Whoever is logged in has a wallet, although logins are cut off between the
\* user's row and the wallet's: the exceptions are that the DID's wallet is
\* already another user's, and that the user's wallet was given away.
LoginHasWallet ==
    \A x \in logins : \/ WalletsOf(x.user) # {}
                      \/ wallet[x.did] # None
                      \/ x.user \in moved
=============================================================================
