--------------------------- MODULE PrivyLoginProofs ---------------------------
(***************************************************************************)
(* Whoever is logged in has a wallet, for any number of concurrent logins, *)
(* of DIDs and of emails.                                                  *)
(***************************************************************************)
EXTENDS PrivyLogin, TLAPS

LEMMA IdleIsACall == Idle \in CallTypes
BY DEF Idle, CallTypes

\* What a call has read, by how far it is.
LEMMA CallShapes ==
    ASSUME TypeOK, NEW l \in Logins
    PROVE  /\ call[l].pc \in {"claimed", "unknown", "new"}
                => /\ call[l].did \in Dids /\ call[l].email \in Emails
                   /\ call[l].real \in BOOLEAN
           /\ call[l].pc \in {"created", "making"}
                => call[l].did \in Dids /\ call[l].real \in BOOLEAN /\ call[l].user \in Emails
           /\ call[l].pc = "adopting"
                => call[l].did \in Dids /\ call[l].user \in Emails /\ call[l].address \in Addresses
           /\ call[l].pc = "linked" => call[l].did \in Dids /\ call[l].user \in Emails
           /\ call[l].pc = "found"
                => /\ call[l].did \in Dids /\ call[l].real \in BOOLEAN /\ call[l].user \in Emails
                   /\ call[l].own \in {None} \cup [row : Dids, pending : BOOLEAN]
<1>1. call[l] \in CallTypes
    BY DEF TypeOK
<1> QED
    BY <1>1 DEF CallTypes, Idle

\* The calls that the steps store are well typed.
LEMMA StoredCalls ==
    ASSUME NEW d \in Dids, NEW e \in Emails, NEW r \in BOOLEAN, NEW a \in Addresses,
           NEW own \in {None} \cup [row : Dids, pending : BOOLEAN]
    PROVE  /\ \A pc \in {"claimed", "unknown", "new"} :
                 [pc |-> pc, did |-> d, email |-> e, real |-> r] \in CallTypes
           /\ \A pc \in {"created", "making"} :
                 [pc |-> pc, did |-> d, real |-> r, user |-> e] \in CallTypes
           /\ [pc |-> "adopting", did |-> d, user |-> e, address |-> a] \in CallTypes
           /\ [pc |-> "linked", did |-> d, user |-> e] \in CallTypes
           /\ [pc |-> "found", did |-> d, real |-> r, user |-> e, own |-> own] \in CallTypes
BY DEF CallTypes

LEMMA AddressTypes ==
    ASSUME NEW d \in Dids
    PROVE  Real(d) \in Addresses /\ Pending(d) \in Addresses
BY DEF Addresses

\* The user and the address in a row, and the wallet included with a user.
LEMMA RowTypes ==
    ASSUME TypeOK
    PROVE  /\ \A d \in Rows : d \in Dids /\ wallet[d].user \in Emails
                              /\ wallet[d].address \in Addresses
           /\ \A u \in Emails : Included(u) \in {None} \cup [row : Dids, pending : BOOLEAN]
<1>1. \A d \in Rows : d \in Dids /\ wallet[d].user \in Emails /\ wallet[d].address \in Addresses
    BY DEF TypeOK, Rows, WalletRows
<1>2. ASSUME NEW u \in Emails
      PROVE  Included(u) \in {None} \cup [row : Dids, pending : BOOLEAN]
    <2>1. CASE WalletsOf(u) = {}
        BY <2>1 DEF Included
    <2>2. CASE WalletsOf(u) # {}
        <3> DEFINE d == CHOOSE x \in WalletsOf(u) : TRUE
        <3>1. d \in WalletsOf(u)
            BY <2>2
        <3>2. d \in Dids
            BY <3>1 DEF WalletsOf, Rows
        <3>3. Included(u) = [row |-> d, pending |-> (wallet[d].address.kind = "pending")]
            BY <2>2 DEF Included
        <3> HIDE DEF d
        <3>4. (wallet[d].address.kind = "pending") \in BOOLEAN
            BY Zenon
        <3> QED
            BY <3>2, <3>3, <3>4
    <2> QED
        BY <2>1, <2>2
<1> QED
    BY <1>1, <1>2

\* A step that stores a well-typed call keeps the types of all that Advance covers.
LEMMA Advanced ==
    ASSUME TypeOK, NEW l \in Logins, NEW to \in CallTypes, Advance(l, to)
    PROVE  /\ call' \in [Logins -> CallTypes]
           /\ email' \in [Dids -> Emails]
           /\ embedded' \subseteq Dids
           /\ logins' \subseteq [user : Emails, did : Dids]
BY DEF TypeOK, Advance

\* A user and a DID that have logged in have a wallet between them, unless the
\* user's was given away.
Linkable(u, d) == WalletsOf(u) # {} \/ wallet[d] # None \/ u \in moved

\* What a call on its way to a session knows: a row it has read is still there
\* when it comes to write it, since no wallet is ever deleted.
Knows(l) ==
    /\ call[l].pc = "adopting" => call[l].did \in Rows
    /\ call[l].pc = "found" /\ call[l].own # None =>
          call[l].own.row \in Rows /\ Linkable(call[l].user, call[l].did)
    /\ call[l].pc = "linked" => Linkable(call[l].user, call[l].did)

\* Every step of a login keeps the types.
LEMMA StepTyped ==
    ASSUME TypeOK, NEW l \in Logins, Knows(l), Step(l)
    PROVE  TypeOK'
<1> DEFINE c == call[l]
<1>1. CASE GetUser(l)
    <2>1. PICK d \in Dids : Advance(l, [pc |-> "claimed", did |-> d, email |-> email[d],
                                        real |-> d \in embedded])
        BY <1>1 DEF GetUser
    <2>2. email[d] \in Emails
        BY DEF TypeOK
    <2>3. (d \in embedded) = TRUE \/ (d \in embedded) = FALSE
        OBVIOUS
    <2> DEFINE r == d \in embedded
    <2>4. r \in BOOLEAN
        BY <2>3
    <2> HIDE DEF r
    <2>6. [pc |-> "claimed", did |-> d, email |-> email[d], real |-> r] \in CallTypes
        BY <2>2, <2>4 DEF CallTypes
    <2>5. Advance(l, [pc |-> "claimed", did |-> d, email |-> email[d], real |-> r])
        BY <2>1 DEF r
    <2> QED
        BY <1>1, <2>5, <2>6, Advanced DEF GetUser, TypeOK
<1>2. CASE FindByEmail(l)
    <2>1. c.did \in Dids /\ c.email \in Emails /\ c.real \in BOOLEAN
        BY <1>2, CallShapes DEF FindByEmail
    <2>2. Found(c, c.email, Included(c.email)) \in CallTypes
        BY <2>1, RowTypes DEF Found, CallTypes
    <2>3. At(c, "unknown") \in CallTypes
        BY <2>1 DEF At, CallTypes
    <2>4. \E to \in CallTypes : Advance(l, to)
        BY <1>2, <2>2, <2>3 DEF FindByEmail
    <2> QED
        BY <1>2, <2>4, Advanced DEF FindByEmail, TypeOK
<1>3. CASE FindByDid(l)
    <2>1. c.did \in Dids /\ c.email \in Emails /\ c.real \in BOOLEAN
        BY <1>3, CallShapes DEF FindByDid
    <2>2. wallet[c.did] # None => Found(c, wallet[c.did].user, None) \in CallTypes
        BY <2>1, RowTypes DEF Found, CallTypes, Rows
    <2>3. At(c, "new") \in CallTypes
        BY <2>1 DEF At, CallTypes
    <2>4. \E to \in CallTypes : Advance(l, to)
        BY <1>3, <2>2, <2>3 DEF FindByDid
    <2> QED
        BY <1>3, <2>4, Advanced DEF FindByDid, TypeOK
<1>4. CASE CreateUser(l)
    <2>1. c.did \in Dids /\ c.email \in Emails /\ c.real \in BOOLEAN
        BY <1>4, CallShapes DEF CreateUser
    <2>2. [pc |-> "created", did |-> c.did, real |-> c.real, user |-> c.email] \in CallTypes
        BY <2>1 DEF CallTypes
    <2> QED
        BY <1>4, <2>1, <2>2, Advanced DEF CreateUser, TypeOK
<1>5. CASE FindOrphan(l)
    <2>1. c.did \in Dids /\ c.user \in Emails /\ c.real \in BOOLEAN
        BY <1>5, CallShapes DEF FindOrphan
    <2>2. ASSUME wallet[c.did] # None
          PROVE  (IF c.real THEN Real(c.did) ELSE wallet[c.did].address) \in Addresses
        BY <2>1, <2>2, RowTypes, AddressTypes DEF Rows
    <2>3. wallet[c.did] # None =>
             [pc |-> "adopting", did |-> c.did, user |-> c.user,
              address |-> IF c.real THEN Real(c.did) ELSE wallet[c.did].address] \in CallTypes
        BY <2>1, <2>2 DEF CallTypes
    <2>4. Making(c) \in CallTypes
        BY <2>1 DEF Making, CallTypes
    <2>5. \E to \in CallTypes : Advance(l, to)
        BY <1>5, <2>3, <2>4 DEF FindOrphan
    <2> QED
        BY <1>5, <2>5, Advanced DEF FindOrphan, TypeOK
<1>6. CASE AdoptWallet(l)
    <2>1. c.did \in Dids /\ c.user \in Emails /\ c.address \in Addresses
        BY <1>6, CallShapes DEF AdoptWallet
    <2>2. Linked(c) \in CallTypes
        BY <2>1 DEF Linked, CallTypes
    <2>3. wallet' \in [Dids -> {None} \cup WalletRows]
        BY <1>6, <2>1 DEF AdoptWallet, TypeOK, WalletRows
    <2>4. wallet[c.did].user \in Emails
        BY <1>6, RowTypes DEF AdoptWallet, Knows
    <2>5. moved' \subseteq Emails
        BY <1>6, <2>4 DEF AdoptWallet, TypeOK
    <2> QED
        BY <1>6, <2>2, <2>3, <2>5, Advanced DEF AdoptWallet, TypeOK
<1>7. CASE CreateWallet(l)
    <2>1. c.did \in Dids /\ c.user \in Emails
        BY <1>7, CallShapes DEF CreateWallet
    <2>2. Linked(c) \in CallTypes
        BY <2>1 DEF Linked, CallTypes
    <2>3. (IF c.real THEN Real(c.did) ELSE Pending(c.did)) \in Addresses
        BY <2>1, AddressTypes
    <2>4. wallet' \in [Dids -> {None} \cup WalletRows]
        BY <1>7, <2>1, <2>3 DEF CreateWallet, TypeOK, WalletRows
    <2> QED
        BY <1>7, <2>2, <2>4, Advanced DEF CreateWallet, TypeOK
<1>8. CASE CompleteProfile(l)
    <2>1. c.did \in Dids /\ c.user \in Emails /\ c.real \in BOOLEAN
        BY <1>8, CallShapes DEF CompleteProfile
    <2>2. Found(c, c.user, Included(c.user)) \in CallTypes
        BY <2>1, RowTypes DEF Found, CallTypes
    <2> QED
        BY <1>8, <2>2, Advanced DEF CompleteProfile, TypeOK
<1>9. CASE LinkMissing(l)
    <2>1. c.did \in Dids /\ c.user \in Emails /\ c.real \in BOOLEAN
        BY <1>9, CallShapes DEF LinkMissing
    <2>2. Linked(c) \in CallTypes /\ Making(c) \in CallTypes
        BY <2>1 DEF Linked, Making, CallTypes
    <2>3. \E to \in CallTypes : Advance(l, to)
        BY <1>9, <2>2 DEF LinkMissing
    <2> QED
        BY <1>9, <2>3, Advanced DEF LinkMissing, TypeOK
<1>10. CASE ReplacePending(l)
    <2>1. c.did \in Dids /\ c.user \in Emails
        BY <1>10, CallShapes DEF ReplacePending
    <2>2. Linked(c) \in CallTypes
        BY <2>1 DEF Linked, CallTypes
    <2>3. c.own.row \in Rows
        BY <1>10 DEF ReplacePending, Knows
    <2>4. [user |-> wallet[c.own.row].user, address |-> Real(c.did)] \in WalletRows
        BY <2>1, <2>3, AddressTypes, RowTypes DEF WalletRows
    <2>5. wallet' = [wallet EXCEPT ![c.own.row] = [user |-> wallet[c.own.row].user,
                                                   address |-> Real(c.did)]]
        BY <1>10 DEF ReplacePending
    <2>6. wallet' \in [Dids -> {None} \cup WalletRows]
        BY <2>4, <2>5 DEF TypeOK
    <2> QED
        BY <1>10, <2>2, <2>6, Advanced DEF ReplacePending, TypeOK
<1>11. CASE KeepWallet(l)
    <2>1. Linked(c) \in CallTypes
        BY <1>11, CallShapes DEF KeepWallet, Linked, CallTypes
    <2> QED
        BY <1>11, <2>1, Advanced DEF KeepWallet, TypeOK
<1>12. CASE CreateSession(l)
    <2>1. [user |-> c.user, did |-> c.did] \in [user : Emails, did : Dids]
        BY <1>12, CallShapes DEF CreateSession
    <2> QED
        BY <1>12, <2>1, IdleIsACall DEF CreateSession, TypeOK
<1>13. CASE Fail(l)
    BY <1>13, IdleIsACall, Advanced DEF Fail, TypeOK
<1> QED
    BY <1>1, <1>2, <1>3, <1>4, <1>5, <1>6, <1>7, <1>8, <1>9, <1>10, <1>11, <1>12, <1>13 DEF Step
-----------------------------------------------------------------------------
IInv ==
    /\ TypeOK
    /\ \A l \in Logins : Knows(l)
    /\ LoginHasWallet

\* What every step does to the wallets: no row goes away, and a row that changes
\* its user is noted.
Grows ==
    /\ moved \subseteq moved'
    /\ \A d \in Rows : /\ wallet'[d] # None
                       /\ wallet'[d].user = wallet[d].user \/ wallet[d].user \in moved'

\* A row that is written well stays a row.
LEMMA WrittenRow ==
    ASSUME TypeOK, LoginConstants, NEW d \in Dids, NEW row \in WalletRows,
           wallet' = [wallet EXCEPT ![d] = row],
           moved \subseteq moved',
           d \in Rows => row.user = wallet[d].user \/ wallet[d].user \in moved'
    PROVE  Grows /\ wallet'[d] = row /\ row # None
<1>1. row # None
    BY DEF LoginConstants
<1>2. wallet'[d] = row
    BY DEF TypeOK
<1>3. \A x \in Rows \ {d} : wallet'[x] = wallet[x] /\ wallet[x] # None
    BY DEF TypeOK, Rows
<1> QED
    BY <1>1, <1>2, <1>3 DEF Grows

LEMMA StepGrows ==
    ASSUME TypeOK, LoginConstants, NEW l \in Logins, Knows(l), Step(l)
    PROVE  Grows
<1> DEFINE c == call[l]
<1>1. CASE AdoptWallet(l)
    <2>1. c.did \in Dids /\ [user |-> c.user, address |-> c.address] \in WalletRows
        BY <1>1, CallShapes DEF AdoptWallet, WalletRows
    <2>2. wallet' = [wallet EXCEPT ![c.did] = [user |-> c.user, address |-> c.address]]
        BY <1>1 DEF AdoptWallet
    <2>3. moved \subseteq moved' /\ (wallet[c.did].user = c.user \/ wallet[c.did].user \in moved')
        BY <1>1 DEF AdoptWallet
    <2> QED
        BY <2>1, <2>2, <2>3, WrittenRow
<1>2. CASE CreateWallet(l)
    <2> DEFINE a == IF c.real THEN Real(c.did) ELSE Pending(c.did)
    <2>1. c.did \in Dids /\ [user |-> c.user, address |-> a] \in WalletRows
        BY <1>2, CallShapes, AddressTypes DEF CreateWallet, WalletRows
    <2>2. wallet' = [wallet EXCEPT ![c.did] = [user |-> c.user, address |-> a]]
        BY <1>2 DEF CreateWallet
    <2>3. moved' = moved /\ c.did \notin Rows
        BY <1>2 DEF CreateWallet
    <2> HIDE DEF a
    <2> QED
        BY <2>1, <2>2, <2>3, WrittenRow
<1>3. CASE ReplacePending(l)
    <2> DEFINE row == [user |-> wallet[c.own.row].user, address |-> Real(c.did)]
    <2>1. c.own.row \in Rows
        BY <1>3 DEF ReplacePending, Knows
    <2>2. row \in WalletRows
        BY <1>3, <2>1, CallShapes, AddressTypes, RowTypes DEF ReplacePending, WalletRows
    <2>3. wallet' = [wallet EXCEPT ![c.own.row] = row] /\ moved' = moved
        BY <1>3 DEF ReplacePending
    <2>4. row.user = wallet[c.own.row].user /\ c.own.row \in Dids
        BY <2>1, RowTypes
    <2> HIDE DEF row
    <2> QED
        BY <2>2, <2>3, <2>4, WrittenRow
<1>4. CASE UNCHANGED <<wallet, moved>>
    BY <1>4 DEF Grows, Rows
<1>5. ~(AdoptWallet(l) \/ CreateWallet(l) \/ ReplacePending(l)) => UNCHANGED <<wallet, moved>>
    BY DEF Step, GetUser, FindByEmail, FindByDid, CreateUser, FindOrphan, CompleteProfile,
           LinkMissing, KeepWallet, CreateSession, Fail
<1> QED
    BY <1>1, <1>2, <1>3, <1>4, <1>5

\* What Grows keeps.
LEMMA GrowsKeeps ==
    ASSUME TypeOK, Grows
    PROVE  /\ Rows \subseteq Rows'
           /\ \A u \in Emails, d \in Dids : Linkable(u, d) => Linkable(u, d)'
<1>1. Rows \subseteq Rows'
    BY DEF Grows, Rows
<1>2. ASSUME NEW u \in Emails, NEW d \in Dids, Linkable(u, d)
      PROVE  Linkable(u, d)'
    <2>1. CASE WalletsOf(u) # {}
        <3>1. PICK x \in Rows : wallet[x].user = u
            BY <2>1 DEF WalletsOf
        <3>2. x \in Rows' /\ (wallet'[x].user = u \/ u \in moved')
            BY <1>1, <3>1 DEF Grows
        <3> QED
            BY <3>2 DEF Linkable, WalletsOf
    <2>2. CASE wallet[d] # None
        BY <2>2 DEF Grows, Rows, Linkable
    <2>3. CASE u \in moved
        BY <2>3 DEF Grows, Linkable
    <2> QED
        BY <1>2, <2>1, <2>2, <2>3 DEF Linkable
<1> QED
    BY <1>1, <1>2

\* The wallet included with a user is one of its own.
LEMMA IncludedIsOwn ==
    ASSUME NEW u, Included(u) # None
    PROVE  WalletsOf(u) # {} /\ Included(u).row \in Rows
<1>1. WalletsOf(u) # {}
    BY DEF Included
<1> DEFINE d == CHOOSE x \in WalletsOf(u) : TRUE
<1>2. d \in WalletsOf(u)
    BY <1>1
<1>3. Included(u).row = d
    BY <1>1 DEF Included
<1> HIDE DEF d
<1> QED
    BY <1>1, <1>2, <1>3 DEF WalletsOf

\* The steps that write a row for their own DID leave one there.
LEMMA RowWritten ==
    ASSUME TypeOK, LoginConstants, NEW l \in Logins, Knows(l), AdoptWallet(l) \/ CreateWallet(l)
    PROVE  wallet'[call[l].did] # None
<1> DEFINE c == call[l]
<1>1. CASE AdoptWallet(l)
    <2>1. c.did \in Dids /\ [user |-> c.user, address |-> c.address] \in WalletRows
        BY <1>1, CallShapes DEF AdoptWallet, WalletRows
    <2>2. wallet'[c.did] = [user |-> c.user, address |-> c.address]
        BY <1>1, <2>1 DEF AdoptWallet, TypeOK
    <2> QED
        BY <2>1, <2>2 DEF LoginConstants
<1>2. CASE CreateWallet(l)
    <2> DEFINE a == IF c.real THEN Real(c.did) ELSE Pending(c.did)
    <2>1. c.did \in Dids /\ [user |-> c.user, address |-> a] \in WalletRows
        BY <1>2, CallShapes, AddressTypes DEF CreateWallet, WalletRows
    <2>2. wallet'[c.did] = [user |-> c.user, address |-> a]
        BY <1>2, <2>1 DEF CreateWallet, TypeOK
    <2> HIDE DEF a
    <2> QED
        BY <2>1, <2>2 DEF LoginConstants
<1> QED
    BY <1>1, <1>2

\* A call that has come to be linked, or has read a wallet, for which its user
\* and DID are linkable.
LEMMA NowLinked ==
    ASSUME NEW l \in Logins, NEW u, NEW d, Linkable(u, d)', call'[l] = [pc |-> "linked", did |-> d, user |-> u]
    PROVE  Knows(l)'
BY DEF Knows, Linkable, WalletsOf, Rows

LEMMA NowFound ==
    ASSUME NEW l \in Logins, NEW u, NEW d, NEW r, NEW own,
           own # None => own.row \in Rows' /\ Linkable(u, d)',
           call'[l] = [pc |-> "found", did |-> d, real |-> r, user |-> u, own |-> own]
    PROVE  Knows(l)'
BY DEF Knows, Linkable, WalletsOf, Rows

\* What a call knows at the stage that its step has brought it to.
LEMMA StepKnows ==
    ASSUME TypeOK, LoginConstants, NEW l \in Logins, Knows(l), Step(l),
           Rows \subseteq Rows',
           \A u \in Emails, d \in Dids : Linkable(u, d) => Linkable(u, d)'
    PROVE  Knows(l)'
<1> DEFINE c == call[l]
<1>1. CASE GetUser(l) \/ CreateUser(l) \/ CreateSession(l) \/ Fail(l)
    <2>1. call'[l].pc \in {"claimed", "created", "idle"}
        BY <1>1 DEF GetUser, CreateUser, CreateSession, Fail, Advance, Idle, TypeOK
    <2> QED
        BY <2>1 DEF Knows
<1>2. CASE FindByEmail(l)
    <2>1. CASE c.email \notin users
        BY <1>2, <2>1 DEF FindByEmail, Advance, At, Knows, TypeOK
    <2>2. CASE c.email \in users
        <3>1. PICK u \in Emails, d \in Dids, r \in BOOLEAN, own \in {None} \cup [row : Dids, pending : BOOLEAN] :
                  u = c.email /\ d = c.did /\ r = c.real /\ own = Included(u)
            BY <1>2, CallShapes, RowTypes DEF FindByEmail
        <3>2. call'[l] = [pc |-> "found", did |-> d, real |-> r, user |-> u, own |-> own]
            BY <1>2, <2>2, <3>1 DEF FindByEmail, Advance, Found, TypeOK
        <3>3. own # None => own.row \in Rows /\ Linkable(u, d)
            BY <3>1, IncludedIsOwn DEF Linkable
        <3> QED
            BY <3>2, <3>3, NowFound
    <2> QED
        BY <2>1, <2>2
<1>3. CASE FindByDid(l)
    <2>1. CASE wallet[c.did] = None
        BY <1>3, <2>1 DEF FindByDid, Advance, At, Knows, TypeOK
    <2>2. CASE wallet[c.did] # None
        BY <1>3, <2>2 DEF FindByDid, Advance, Found, Knows, TypeOK
    <2> QED
        BY <2>1, <2>2
<1>4. CASE FindOrphan(l)
    <2>1. CASE wallet[c.did] = None
        BY <1>4, <2>1 DEF FindOrphan, Advance, Making, Knows, TypeOK
    <2>2. CASE wallet[c.did] # None
        <3>1. c.did \in Dids
            BY <1>4, CallShapes DEF FindOrphan
        <3>2. call'[l].pc = "adopting" /\ call'[l].did = c.did
            BY <1>4, <2>2 DEF FindOrphan, Advance, TypeOK
        <3>3. c.did \in Rows'
            BY <2>2, <3>1 DEF Rows
        <3> QED
            BY <3>2, <3>3 DEF Knows
    <2> QED
        BY <2>1, <2>2
<1>5. CASE AdoptWallet(l) \/ CreateWallet(l)
    <2>1. PICK u \in Emails, d \in Dids : u = c.user /\ d = c.did
        BY <1>5, CallShapes DEF AdoptWallet, CreateWallet
    <2>2. PICK a : wallet' = [wallet EXCEPT ![d] = [user |-> u, address |-> a]]
        BY <1>5, <2>1 DEF AdoptWallet, CreateWallet
    <2>3. Linkable(u, d)'
        <3>1. d \in Rows' => d \in WalletsOf(u)'
            BY <2>2 DEF WalletsOf, TypeOK
        <3>2. d \in Rows' \/ wallet'[d] = None
            BY DEF Rows
        <3>3. wallet'[d] # None
            BY <1>5, <2>1, RowWritten
        <3> QED
            BY <3>1, <3>2, <3>3 DEF Linkable
    <2>4. call'[l] = [pc |-> "linked", did |-> d, user |-> u]
        BY <1>5, <2>1 DEF AdoptWallet, CreateWallet, Advance, Linked, TypeOK
    <2> QED
        BY <2>3, <2>4, NowLinked
<1>6. CASE CompleteProfile(l)
    <2>1. PICK u \in Emails, d \in Dids, r \in BOOLEAN, own \in {None} \cup [row : Dids, pending : BOOLEAN] :
              u = c.user /\ d = c.did /\ r = c.real /\ own = Included(u)
        BY <1>6, CallShapes, RowTypes DEF CompleteProfile
    <2>2. call'[l] = [pc |-> "found", did |-> d, real |-> r, user |-> u, own |-> own]
        BY <1>6, <2>1 DEF CompleteProfile, Advance, Found, TypeOK
    <2>3. own # None => own.row \in Rows /\ Linkable(u, d)
        BY <2>1, IncludedIsOwn DEF Linkable
    <2> QED
        BY <2>2, <2>3, NowFound
<1>7. CASE LinkMissing(l)
    <2>1. CASE wallet[c.did] = None
        BY <1>7, <2>1 DEF LinkMissing, Advance, Making, Knows, TypeOK
    <2>2. CASE wallet[c.did] # None
        <3>1. PICK u \in Emails, d \in Dids : u = c.user /\ d = c.did
            BY <1>7, CallShapes DEF LinkMissing
        <3>2. Linkable(u, d)'
            BY <2>2, <3>1 DEF Linkable
        <3>3. call'[l] = [pc |-> "linked", did |-> d, user |-> u]
            BY <1>7, <2>2, <3>1 DEF LinkMissing, Advance, Linked, TypeOK
        <3> QED
            BY <3>2, <3>3, NowLinked
    <2> QED
        BY <2>1, <2>2
<1>8. CASE ReplacePending(l) \/ KeepWallet(l)
    <2>1. PICK u \in Emails, d \in Dids : u = c.user /\ d = c.did
        BY <1>8, CallShapes DEF ReplacePending, KeepWallet
    <2>2. Linkable(u, d)'
        BY <1>8, <2>1 DEF ReplacePending, KeepWallet, Knows
    <2>3. call'[l] = [pc |-> "linked", did |-> d, user |-> u]
        BY <1>8, <2>1 DEF ReplacePending, KeepWallet, Advance, Linked, TypeOK
    <2> QED
        BY <2>2, <2>3, NowLinked
<1> QED
    BY <1>1, <1>2, <1>3, <1>4, <1>5, <1>6, <1>7, <1>8 DEF Step

LEMMA StepKeeps ==
    ASSUME IInv, LoginConstants, NEW l \in Logins, Step(l)
    PROVE  IInv'
<1> DEFINE c == call[l]
<1> USE DEF IInv
<1>1. TypeOK'
    BY StepTyped
<1>2. Grows
    BY StepGrows
<1>3. /\ Rows \subseteq Rows'
      /\ \A u \in Emails, d \in Dids : Linkable(u, d) => Linkable(u, d)'
    BY <1>2, GrowsKeeps
\* The other calls keep what they know.
<1>4. ASSUME NEW k \in Logins \ {l}
      PROVE  Knows(k)'
    <2>1. call'[k] = call[k]
        BY DEF Step, GetUser, FindByEmail, FindByDid, CreateUser, FindOrphan, AdoptWallet,
               CreateWallet, CompleteProfile, LinkMissing, ReplacePending, KeepWallet,
               CreateSession, Fail, Advance, TypeOK
    <2>2. call[k].pc \in {"found", "linked"} => call[k].user \in Emails /\ call[k].did \in Dids
        BY CallShapes
    <2>3. Knows(k)
        OBVIOUS
    <2>4. call[k].pc \in {"found", "linked"} =>
             (Linkable(call[k].user, call[k].did) => Linkable(call[k].user, call[k].did)')
        <3> DEFINE u == call[k].user
                   d == call[k].did
        <3> QED
            BY <1>3, <2>1, <2>2 DEF Linkable, WalletsOf
    <2> QED
        BY <1>3, <2>1, <2>3, <2>4 DEF Knows
<1>5. Knows(l)'
    BY <1>3, StepKnows
\* The logins that have ended, with the one that ends now.
<1>6. \A x \in logins : Linkable(x.user, x.did)'
    BY <1>3 DEF LoginHasWallet, Linkable, TypeOK
<1>7. \A x \in logins' : Linkable(x.user, x.did)'
    <2>1. CASE CreateSession(l)
        <3>1. PICK u \in Emails, d \in Dids : u = c.user /\ d = c.did
            BY <2>1, CallShapes DEF CreateSession
        <3>2. Linkable(u, d)'
            BY <1>3, <2>1, <3>1 DEF CreateSession, Knows
        <3>3. logins' = logins \cup {[user |-> u, did |-> d]}
            BY <2>1, <3>1 DEF CreateSession
        <3> QED
            BY <1>6, <3>2, <3>3
    <2>2. CASE ~CreateSession(l)
        <3>1. logins' = logins
            BY <2>2 DEF Step, GetUser, FindByEmail, FindByDid, CreateUser, FindOrphan, AdoptWallet,
                        CreateWallet, CompleteProfile, LinkMissing, ReplacePending, KeepWallet,
                        Fail, Advance
        <3> QED
            BY <1>6, <3>1
    <2> QED
        BY <2>1, <2>2
<1> QED
    <2>1. \A k \in Logins : Knows(k)'
        BY <1>4, <1>5
    <2>2. LoginHasWallet'
        BY <1>7 DEF LoginHasWallet, Linkable
    <2> QED
        BY <1>1, <2>1, <2>2
-----------------------------------------------------------------------------
\* What Privy does reaches no row.
LEMMA PrivyKeeps ==
    ASSUME IInv, PrivyChangesEmail \/ PrivyCreatesWallet \/ UNCHANGED vars
    PROVE  IInv'
<1>1. UNCHANGED <<users, wallet, call, logins, moved>>
    BY DEF PrivyChangesEmail, PrivyCreatesWallet, vars
<1>2. TypeOK'
    BY DEF IInv, TypeOK, PrivyChangesEmail, PrivyCreatesWallet, vars
<1>3. (\A l \in Logins : Knows(l)') /\ LoginHasWallet'
    BY <1>1 DEF IInv, Knows, LoginHasWallet, Linkable, WalletsOf, Rows
<1> QED
    BY <1>2, <1>3 DEF IInv

LEMMA Invariance == Spec => []IInv
<1> USE LoginConstants
<1>1. Init => IInv
    BY IdleIsACall DEF Init, IInv, TypeOK, Knows, LoginHasWallet, Idle
<1>2. IInv /\ [Next]_vars => IInv'
    BY StepKeeps, PrivyKeeps DEF Next
<1> QED
    BY <1>1, <1>2, PTL DEF Spec

\* Every variable of PrivyLogin keeps its type.
THEOREM TypeCorrect == Spec => []TypeOK
<1>1. IInv => TypeOK
    BY DEF IInv
<1> QED
    BY <1>1, Invariance, PTL

\* Whoever is logged in has a wallet, wherever earlier logins were cut off, unless
\* the wallet is another user's or was given away.
THEOREM LoggedInHasWallet == Spec => []LoginHasWallet
<1>1. IInv => LoginHasWallet
    BY DEF IInv
<1> QED
    BY <1>1, Invariance, PTL
=============================================================================
