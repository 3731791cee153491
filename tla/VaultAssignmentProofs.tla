------------------------ MODULE VaultAssignmentProofs ------------------------
(***************************************************************************)
(* For any number of users, invitations and concurrent calls: row and      *)
(* contract name the same freelancer except for the named reasons, and the *)
(* treasury deposits only what was paid for.                               *)
(*                                                                         *)
(* PaysLinked is not inductive.  Agreement adds what holds while calls are *)
(* between row and contract: they all carry the row's freelancer, a        *)
(* contract waiting to be placed pays it, and a contract that does not yet *)
(* is about to be handed over.  Knows says what a call may rely on of what *)
(* it read: rows and contracts are not removed, and a contract that a call *)
(* holds is the vault's own.                                               *)
(***************************************************************************)
EXTENDS VaultAssignment, TLAPS

Statuses == {"PENDING", "ACCEPTED", "DECLINED", "EXPIRED"}

\* What a call may rely on.
Knows(c) ==
    /\ call[c].pc \in {"inviting", "unassigned", "reassigning", "expiring", "handing",
                       "deploying", "placing", "depositing"} => vault[call[c].vault] # None
    /\ call[c].pc = "responding" => invite[call[c].invite] # None
    /\ call[c].pc \in {"handing", "deploying", "placing"} => vault[call[c].vault].freelancer # None
    /\ call[c].pc \in {"inserting", "reassigning", "handing", "placing"}
         => /\ contract[call[c].address] # None
            /\ contract[call[c].address].for = call[c].vault
    /\ call[c].pc = "inserting" => vault[call[c].vault] = None
    /\ call[c].pc \in {"deploying", "placing"} /\ call[c].funded => call[c].vault \in paid
    /\ call[c].pc = "depositing" => call[c].vault \in paid

\* Creations write different rows.
Distinct == \A c, d \in Calls :
    c # d /\ call[c].pc = "inserting" /\ call[d].pc = "inserting" => call[c].vault # call[d].vault

\* A vault's contract is its own, and one that is FUNDED without a contract was paid.
RowOK(v) == vault[v] # None =>
    /\ vault[v].address # None => /\ contract[vault[v].address] # None
                                  /\ contract[vault[v].address].for = v
    /\ vault[v].address = None /\ vault[v].funded => v \in paid

InvitesOK == \A i \in Invites : invite[i] # None => vault[invite[i].vault] # None

Handing(c, v) == call[c].pc = "handing" /\ call[c].vault = v /\ call[c].address = vault[v].address

\* Row and contract agree, or a call that is under way will see to it.
Agreement(v) == vault[v] # None /\ v \notin doubt /\ vault[v].freelancer # None =>
    /\ \A c \in HandingOver(v) : call[c].user = vault[v].freelancer
    /\ \A c \in HandingOver(v) : call[c].pc = "placing"
                                 => contract[call[c].address].pays = vault[v].freelancer
    /\ vault[v].address # None => \/ contract[vault[v].address].pays = vault[v].freelancer
                                 \/ \E c \in Calls : Handing(c, v)

Structure == /\ TypeOK
             /\ \A c \in Calls : Knows(c)
             /\ Distinct
             /\ \A v \in Vaults : RowOK(v)
             /\ InvitesOK
IInv == Structure /\ (\A v \in Vaults : Agreement(v)) /\ DepositsArePaid

\* What no step undoes.
Grows ==
    /\ \A v \in Vaults : vault[v] # None
         => /\ vault'[v] # None
            /\ vault[v].freelancer # None => vault'[v].freelancer # None
    /\ \A i \in Invites : invite[i] # None => invite'[i] # None /\ invite'[i].vault = invite[i].vault
    /\ \A a \in Contracts : contract[a] # None => /\ contract'[a] # None
                                                 /\ contract'[a].for = contract[a].for
    /\ paid \subseteq paid'

\* None is not a row.
LEMMA NoneIsNoRow ==
    /\ \A x \in VaultRows : x # None
    /\ \A x \in ContractRows : x # None
    /\ \A x \in InviteRows : x # None
    /\ \A x \in Contracts \cup Vaults \cup Users \cup Payees : x # None
BY AssignmentConstants DEF Payees

\* The rows that exist have their columns.
LEMMA RowTypes ==
    ASSUME TypeOK
    PROVE  /\ \A v \in Vaults : vault[v] # None => vault[v] \in VaultRows
           /\ \A a \in Contracts : contract[a] # None => contract[a] \in ContractRows
           /\ \A i \in Invites : invite[i] # None => invite[i] \in InviteRows
BY DEF TypeOK

\* The shape of a call, by how far it is.
LEMMA CallShapes ==
    ASSUME TypeOK, NEW c \in Calls
    PROVE  /\ call[c].pc \in {"idle", "creating", "inserting", "inviting", "unassigned",
                 "reassigning", "expiring", "responding", "handing", "deploying", "placing", "depositing"}
           /\ call[c].pc = "creating" => /\ call[c].user \in Users \cup {None}
                                         /\ call[c].pays \in Payees
           /\ call[c].pc = "inserting" => /\ call[c].user \in Users \cup {None}
                                          /\ call[c].vault \in Vaults /\ call[c].address \in Contracts
           /\ call[c].pc \in {"inviting", "unassigned"} => call[c].user \in Users /\ call[c].vault \in Vaults
           /\ call[c].pc = "reassigning" => /\ call[c].user \in Users /\ call[c].vault \in Vaults
                                            /\ call[c].pays \in Payees \cup {None}
                                            /\ call[c].address \in Contracts
           /\ call[c].pc = "expiring" => call[c].user \in Users /\ call[c].vault \in Vaults
           /\ call[c].pc = "responding" => call[c].invite \in Invites
           /\ call[c].pc \in {"handing", "deploying", "placing"} => call[c].user \in Users
           /\ call[c].pc \in {"handing", "deploying", "placing", "depositing"} => call[c].vault \in Vaults
           /\ call[c].pc \in {"handing", "placing", "depositing"} => call[c].address \in Contracts
           /\ call[c].pc \in {"deploying", "placing"} => call[c].funded \in BOOLEAN
<1>1. call[c] \in CallTypes
    BY DEF TypeOK
<1> QED
    BY <1>1 DEF CallTypes, Idle

\* Storing a well-typed call leaves all calls well typed.
LEMMA StoredCall ==
    ASSUME TypeOK, NEW c \in Calls, NEW to \in CallTypes, Go(c, to)
    PROVE  call' \in [Calls -> CallTypes] /\ call'[c] = to /\ \A d \in Calls \ {c} : call'[d] = call[d]
BY DEF TypeOK, Go

LEMMA PayeeTyped == \A u \in Users \cup {None} : PayeeFor(u) \in Payees \cup {None}
BY DEF PayeeFor, Payees

\* Every step of a call moves that call to another well-typed one.
LEMMA StepMoves ==
    ASSUME TypeOK, NEW c \in Calls, Knows(c), \A v \in Vaults : RowOK(v), InvitesOK, Step(c)
    PROVE  \E to \in CallTypes : Go(c, to)
<1>0. Idle \in CallTypes
    BY DEF Idle, CallTypes
<1>1. CASE BeginCreate(c)
    <2>1. PICK u \in Users \cup {None} :
              /\ PayeeFor(u) # None
              /\ Go(c, [pc |-> "creating", user |-> u, pays |-> PayeeFor(u)])
        BY <1>1 DEF BeginCreate
    <2> DEFINE p == PayeeFor(u)
    <2>2. p \in Payees
        BY <2>1, PayeeTyped
    <2> HIDE DEF p
    <2>3. [pc |-> "creating", user |-> u, pays |-> p] \in CallTypes
        BY <2>2 DEF CallTypes
    <2> QED
        BY <2>1, <2>3 DEF p
<1>2. CASE DeployFirst(c)
    <2>1. PICK a \in Contracts, v \in Vaults :
              Go(c, [pc |-> "inserting", user |-> call[c].user,
                     vault |-> v, address |-> a])
        BY <1>2 DEF DeployFirst
    <2>2. call[c].user \in Users \cup {None}
        BY <1>2, CallShapes DEF DeployFirst
    <2>3. [pc |-> "inserting", user |-> call[c].user,
           vault |-> v, address |-> a] \in CallTypes
        BY <2>2 DEF CallTypes
    <2> QED
        BY <2>1, <2>3
<1>3. CASE InsertVault(c)
    <2>1. call[c].user \in Users \cup {None} /\ call[c].vault \in Vaults
        BY <1>3, CallShapes DEF InsertVault
    <2>2. CASE call[c].user = None
        BY <1>0, <1>3, <2>2 DEF InsertVault
    <2>3. CASE call[c].user # None
        <3>1. Inviting(call[c].vault, call[c].user) \in CallTypes
            BY <2>1, <2>3 DEF Inviting, CallTypes
        <3> QED
            BY <1>3, <2>3, <3>1 DEF InsertVault
    <2> QED
        BY <2>2, <2>3
<1>4. CASE BeginInvite(c)
    <2>1. PICK v \in Existing, u \in Users : Go(c, Inviting(v, u))
        BY <1>4 DEF BeginInvite
    <2>2. Inviting(v, u) \in CallTypes
        BY DEF Inviting, CallTypes, Existing
    <2> QED
        BY <2>1, <2>2
<1>5. CASE call[c].pc \in {"inviting", "unassigned"}
    <2>1. call[c].user \in Users /\ call[c].vault \in Vaults
        BY <1>5, CallShapes
    <2>2. [pc |-> "unassigned", vault |-> call[c].vault, user |-> call[c].user] \in CallTypes
        BY <2>1 DEF CallTypes
    <2>3. CheckUnassigned(c) \/ InsertInvite(c) \/ Fail(c)
        BY <1>5 DEF Step, BeginCreate, DeployFirst, InsertVault, BeginInvite,
             BeginReassign, ReassignOnChain, ExpireInvites, BeginRespond, Decline, Accept, HandOver,
             DeployOnAcceptance, PlaceContract, DepositToVault
    <2> QED
        BY <1>0, <2>2, <2>3 DEF CheckUnassigned, InsertInvite, Fail
<1>6. CASE CheckUnassigned(c) \/ InsertInvite(c)
    BY <1>5, <1>6 DEF CheckUnassigned, InsertInvite
<1>7. CASE BeginReassign(c)
    <2>1. PICK v \in Existing, u \in Users :
              Go(c, [pc |-> IF vault[v].address = None THEN "expiring" ELSE "reassigning",
                     vault |-> v, user |-> u, address |-> vault[v].address, pays |-> PayeeFor(u)])
        BY <1>7 DEF BeginReassign
    <2> DEFINE p == PayeeFor(u)
               a == vault[v].address
               pc == IF a = None THEN "expiring" ELSE "reassigning"
    <2>2. v \in Vaults /\ a \in Contracts \cup {None} /\ p \in Payees \cup {None}
        BY <2>1, RowTypes, PayeeTyped DEF Existing, VaultRows
    <2> HIDE DEF p, a
    <2>3. [pc |-> pc, vault |-> v, user |-> u, address |-> a, pays |-> p] \in CallTypes
        BY <2>2 DEF CallTypes
    <2> QED
        BY <2>1, <2>3 DEF p, a
<1>8. CASE ReassignOnChain(c)
    <2>1. /\ call[c].user \in Users /\ call[c].vault \in Vaults /\ call[c].address \in Contracts
          /\ call[c].pays \in Payees \cup {None}
        BY <1>8, CallShapes DEF ReassignOnChain
    <2>2. Expiring(c) \in CallTypes
        BY <2>1 DEF Expiring, CallTypes
    <2> QED
        BY <1>8, <2>2 DEF ReassignOnChain
<1>9. CASE ExpireInvites(c)
    <2>1. call[c].user \in Users /\ call[c].vault \in Vaults
        BY <1>9, CallShapes DEF ExpireInvites
    <2>2. Inviting(call[c].vault, call[c].user) \in CallTypes
        BY <2>1 DEF Inviting, CallTypes
    <2> QED
        BY <1>9, <2>2 DEF ExpireInvites
<1>10. CASE BeginRespond(c)
    <2>1. PICK i \in Invites : Go(c, [pc |-> "responding", invite |-> i])
        BY <1>10 DEF BeginRespond
    <2>2. [pc |-> "responding", invite |-> i] \in CallTypes
        BY DEF CallTypes
    <2> QED
        BY <2>1, <2>2
<1>11. CASE Decline(c)
    BY <1>0, <1>11 DEF Decline
<1>12. CASE Accept(c)
    <2> DEFINE v == invite[call[c].invite].vault
               u == invite[call[c].invite].user
    <2>1. v \in Vaults /\ u \in Users /\ vault[v] \in VaultRows
        BY <1>12, CallShapes, RowTypes DEF Accept, Knows, InvitesOK, InviteRows
    <2>2. Go(c, AfterAccept(v, u))
        BY <1>12 DEF Accept
    <2> HIDE DEF v, u
    <2>3. AfterAccept(v, u) \in CallTypes
        BY <1>0, <2>1 DEF AfterAccept, VaultRows, CallTypes
    <2> QED
        BY <2>2, <2>3
<1>13. CASE HandOver(c)
    BY <1>0, <1>13 DEF HandOver
<1>14. CASE DeployOnAcceptance(c)
    <2>1. PICK a \in Contracts :
              Go(c, [pc |-> "placing", vault |-> call[c].vault, user |-> call[c].user,
                     funded |-> call[c].funded, address |-> a])
        BY <1>14 DEF DeployOnAcceptance
    <2>2. call[c].vault \in Vaults /\ call[c].user \in Users /\ call[c].funded \in BOOLEAN
        BY <1>14, CallShapes DEF DeployOnAcceptance
    <2>3. [pc |-> "placing", vault |-> call[c].vault, user |-> call[c].user,
           funded |-> call[c].funded, address |-> a] \in CallTypes
        BY <2>2 DEF CallTypes
    <2> QED
        BY <2>1, <2>3
<1>15. CASE PlaceContract(c)
    <2>1. call[c].vault \in Vaults /\ call[c].address \in Contracts
        BY <1>15, CallShapes DEF PlaceContract
    <2>2. Depositing(c) \in CallTypes
        BY <2>1 DEF Depositing, CallTypes
    <2> QED
        BY <1>0, <1>15, <2>2 DEF PlaceContract
<1>16. CASE DepositToVault(c) \/ Fail(c)
    BY <1>0, <1>16 DEF DepositToVault, Fail
<1> QED
    BY <1>1, <1>2, <1>3, <1>4, <1>6, <1>7, <1>8, <1>9, <1>10, <1>11, <1>12, <1>13,
       <1>14, <1>15, <1>16 DEF Step

\* The steps that change no row.
Reads(c) == BeginCreate(c) \/ BeginInvite(c) \/ CheckUnassigned(c) \/ BeginReassign(c) \/ BeginRespond(c)

\* Every step of a call keeps the types of the rows, and removes none.
LEMMA StepTyped ==
    ASSUME TypeOK, NEW c \in Calls, Knows(c), InvitesOK, Step(c)
    PROVE  /\ wallet' = wallet
           /\ role' \in [Users -> {"NONE", "FREELANCER"}]
           /\ vault' \in [Vaults -> {None} \cup VaultRows]
           /\ contract' \in [Contracts -> {None} \cup ContractRows]
           /\ held' \subseteq [vault : Vaults, address : Contracts]
           /\ invite' \in [Invites -> {None} \cup InviteRows]
           /\ paid' = paid /\ doubt' \subseteq Vaults
           /\ Grows
<1> USE DEF TypeOK, Grows
<1>1. CASE Reads(c)
    BY <1>1 DEF Reads, BeginCreate, BeginInvite, CheckUnassigned, BeginReassign, BeginRespond, rows
<1>2. CASE DeployFirst(c)
    <2>1. PICK a \in Contracts, v \in Vaults :
              contract[a] = None /\ contract' = [contract EXCEPT ![a] = [for |-> v, pays |-> call[c].pays]]
        BY <1>2 DEF DeployFirst
    <2>2. [for |-> v, pays |-> call[c].pays] \in ContractRows
        BY <1>2, CallShapes DEF DeployFirst, ContractRows
    <2>3. contract' \in [Contracts -> {None} \cup ContractRows]
        BY <2>1, <2>2
    <2>4. \A b \in Contracts : contract[b] # None => contract'[b] = contract[b]
        BY <2>1
    <2> QED
        BY <1>2, <2>3, <2>4 DEF DeployFirst
<1>3. CASE InsertVault(c)
    <2> DEFINE r == [address |-> call[c].address, freelancer |-> None, funded |-> FALSE]
    <2>1. r \in VaultRows /\ call[c].vault \in Vaults
        BY <1>3, CallShapes DEF InsertVault, VaultRows
    <2>2. vault' = [vault EXCEPT ![call[c].vault] = r]
        BY <1>3 DEF InsertVault
    <2>3. vault[call[c].vault] = None
        BY <1>3 DEF InsertVault, Knows
    <2> HIDE DEF r
    <2>4. vault' \in [Vaults -> {None} \cup VaultRows]
        BY <2>1, <2>2
    <2>5. \A v \in Vaults : vault[v] # None => vault'[v] = vault[v]
        BY <2>2, <2>3
    <2> QED
        BY <1>3, <2>4, <2>5 DEF InsertVault
<1>4. CASE InsertInvite(c)
    <2> DEFINE r == [vault |-> call[c].vault, user |-> call[c].user, status |-> "PENDING"]
    <2>1. PICK i \in Invites : invite[i] = None /\ invite' = [invite EXCEPT ![i] = r]
        BY <1>4 DEF InsertInvite
    <2>2. r \in InviteRows
        BY <1>4, CallShapes DEF InsertInvite, InviteRows
    <2> HIDE DEF r
    <2>3. invite' \in [Invites -> {None} \cup InviteRows]
        BY <2>1, <2>2
    <2>4. \A j \in Invites : invite[j] # None => invite'[j] = invite[j]
        BY <2>1
    <2> QED
        BY <1>4, <2>3, <2>4 DEF InsertInvite
<1>5. CASE ReassignOnChain(c)
    <2>1. CASE UNCHANGED <<contract, doubt>>
        BY <1>5, <2>1 DEF ReassignOnChain
    <2>2. CASE /\ call[c].pays # None
               /\ contract' = [contract EXCEPT ![call[c].address] = [for |-> @.for, pays |-> call[c].pays]]
               /\ doubt' = doubt \cup {v \in {call[c].vault} : vault[v].freelancer # None}
        <3> DEFINE a == call[c].address
                   r == [for |-> contract[a].for, pays |-> call[c].pays]
        <3>1. a \in Contracts /\ contract[a] # None /\ call[c].pays \in Payees /\ call[c].vault \in Vaults
            BY <1>5, <2>2, CallShapes DEF ReassignOnChain, Knows
        <3>2. r \in ContractRows /\ r.for = contract[a].for
            BY <3>1, RowTypes DEF ContractRows
        <3>3. contract' = [contract EXCEPT ![a] = r]
            BY <2>2
        <3>4. doubt' \subseteq Vaults
            BY <2>2, <3>1
        <3> HIDE DEF a, r
        <3>5. contract' \in [Contracts -> {None} \cup ContractRows]
            BY <3>2, <3>3
        <3>6. \A b \in Contracts : contract[b] # None => /\ contract'[b] # None
                                                      /\ contract'[b].for = contract[b].for
            BY <3>1, <3>2, <3>3, NoneIsNoRow
        <3> QED
            BY <1>5, <3>4, <3>5, <3>6 DEF ReassignOnChain
    <2> QED
        BY <1>5, <2>1, <2>2 DEF ReassignOnChain
<1>6. CASE ExpireInvites(c)
    <2> DEFINE E(i) == [vault |-> invite[i].vault, user |-> invite[i].user, status |-> "EXPIRED"]
    <2>1. \A i \in Invites : invite[i] # None => E(i) \in InviteRows /\ E(i) # None
        BY RowTypes, NoneIsNoRow DEF InviteRows
    <2>2. /\ invite' \in [Invites -> {None} \cup InviteRows]
          /\ \A i \in Invites : invite[i] # None => invite'[i] # None /\ invite'[i].vault = invite[i].vault
        BY <1>6, <2>1 DEF ExpireInvites
    <2> QED
        BY <1>6, <2>2 DEF ExpireInvites
<1>7. ASSUME NEW s \in Statuses, NEW i \in Invites, invite[i] # None, Answered(i, s)
      PROVE  /\ invite' \in [Invites -> {None} \cup InviteRows]
             /\ \A j \in Invites : invite[j] # None => invite'[j] # None /\ invite'[j].vault = invite[j].vault
    <2> DEFINE r == [vault |-> invite[i].vault, user |-> invite[i].user, status |-> s]
    <2>1. r \in InviteRows /\ r # None /\ r.vault = invite[i].vault
        BY <1>7, RowTypes, NoneIsNoRow DEF InviteRows, Statuses
    <2>2. invite' = [invite EXCEPT ![i] = r]
        BY <1>7 DEF Answered
    <2> HIDE DEF r
    <2> QED
        BY <1>7, <2>1, <2>2
<1>8. CASE Decline(c)
    <2>1. call[c].invite \in Invites /\ invite[call[c].invite] # None
        BY <1>8, CallShapes DEF Decline, Knows
    <2> QED
        BY <1>7, <1>8, <2>1 DEF Decline, Statuses
<1>9. CASE Accept(c)
    <2> DEFINE v == invite[call[c].invite].vault
               u == invite[call[c].invite].user
               r == [address |-> vault[v].address, freelancer |-> u, funded |-> vault[v].funded]
    <2>1. call[c].invite \in Invites /\ invite[call[c].invite] # None
        BY <1>9, CallShapes DEF Accept, Knows
    <2>2. v \in Vaults /\ u \in Users /\ vault[v] # None
        BY <2>1, RowTypes DEF InvitesOK, InviteRows
    <2>3. r \in VaultRows /\ r # None /\ r.freelancer # None
        BY <2>2, RowTypes, NoneIsNoRow DEF VaultRows
    <2>4. /\ vault' = [vault EXCEPT ![v] = r]
          /\ role' = [role EXCEPT ![u] = "FREELANCER"]
          /\ doubt' \subseteq doubt \cup {v}
          /\ Answered(call[c].invite, "ACCEPTED")
          /\ UNCHANGED <<wallet, contract, held, paid>>
        BY <1>9 DEF Accept
    <2> HIDE DEF u, v, r
    <2>5. /\ vault' \in [Vaults -> {None} \cup VaultRows]
          /\ \A w \in Vaults : vault[w] # None
               => vault'[w] # None /\ (vault[w].freelancer # None => vault'[w].freelancer # None)
        BY <2>2, <2>3, <2>4
    <2> QED
        BY <1>7, <2>1, <2>2, <2>4, <2>5 DEF Statuses
<1>10. CASE HandOver(c)
    <2> DEFINE a == call[c].address
               r == [for |-> contract[a].for, pays |-> call[c].user]
    <2>1. a \in Contracts /\ contract[a] # None /\ call[c].user \in Payees
        BY <1>10, CallShapes DEF HandOver, Knows, Payees
    <2>2. r \in ContractRows /\ r.for = contract[a].for
        BY <2>1, RowTypes DEF ContractRows
    <2>3. contract' = [contract EXCEPT ![a] = r]
        BY <1>10 DEF HandOver
    <2> HIDE DEF a, r
    <2>4. /\ contract' \in [Contracts -> {None} \cup ContractRows]
          /\ \A b \in Contracts : contract[b] # None => /\ contract'[b] # None
                                                    /\ contract'[b].for = contract[b].for
        BY <2>1, <2>2, <2>3, NoneIsNoRow
    <2> QED
        BY <1>10, <2>4 DEF HandOver
<1>11. CASE DeployOnAcceptance(c)
    <2> DEFINE r == [for |-> call[c].vault, pays |-> call[c].user]
    <2>1. PICK a \in Contracts : contract[a] = None /\ contract' = [contract EXCEPT ![a] = r]
        BY <1>11 DEF DeployOnAcceptance
    <2>2. r \in ContractRows
        BY <1>11, CallShapes DEF DeployOnAcceptance, ContractRows, Payees
    <2> HIDE DEF r
    <2>3. /\ contract' \in [Contracts -> {None} \cup ContractRows]
          /\ \A b \in Contracts : contract[b] # None => contract'[b] = contract[b]
        BY <2>1, <2>2
    <2> QED
        BY <1>11, <2>3 DEF DeployOnAcceptance
<1>12. CASE PlaceContract(c)
    <2> DEFINE v == call[c].vault
               r == [address |-> call[c].address, freelancer |-> vault[v].freelancer, funded |-> TRUE]
    <2>1. v \in Vaults /\ vault[v] # None /\ call[c].address \in Contracts
        BY <1>12, CallShapes DEF PlaceContract, Knows
    <2>2. r \in VaultRows /\ r # None /\ r.freelancer = vault[v].freelancer
        BY <2>1, RowTypes, NoneIsNoRow DEF VaultRows
    <2>3. vault' = [vault EXCEPT ![v] = r]
        BY <1>12 DEF PlaceContract
    <2> HIDE DEF v, r
    <2>4. /\ vault' \in [Vaults -> {None} \cup VaultRows]
          /\ \A w \in Vaults : vault[w] # None
               => vault'[w] # None /\ (vault[w].freelancer # None => vault'[w].freelancer # None)
        BY <2>1, <2>2, <2>3
    <2> QED
        BY <1>12, <2>4 DEF PlaceContract
<1>13. CASE DepositToVault(c)
    BY <1>13, CallShapes DEF DepositToVault
<1>14. CASE Fail(c)
    BY <1>14 DEF Fail
<1> QED
    BY <1>1, <1>2, <1>3, <1>4, <1>5, <1>6, <1>8, <1>9, <1>10, <1>11, <1>12, <1>13, <1>14
    DEF Step, Reads

\* What another call relies on stays true.
LEMMA GrownKnows ==
    ASSUME TypeOK, NEW d \in Calls, Knows(d), Grows, call'[d] = call[d],
           call[d].pc = "inserting" => vault'[call[d].vault] = vault[call[d].vault]
    PROVE  Knows(d)'
BY CallShapes DEF Knows, Grows

\* What the stepping call relies on next is true.
LEMMA StepKnows ==
    ASSUME TypeOK, NEW c \in Calls, Knows(c), \A v \in Vaults : RowOK(v), InvitesOK, Step(c)
    PROVE  Knows(c)'
<1>0. /\ Grows
      /\ vault' \in [Vaults -> {None} \cup VaultRows] /\ contract' \in [Contracts -> {None} \cup ContractRows]
    BY StepTyped
<1>1. CASE call'[c] = Idle
    BY <1>1 DEF Knows, Idle
<1>2. CASE BeginCreate(c)
    <2>1. PICK u \in Users \cup {None} :
              call' = [call EXCEPT ![c] = [pc |-> "creating", user |-> u, pays |-> PayeeFor(u)]]
        BY <1>2 DEF BeginCreate, Go
    <2>2. call'[c].pc = "creating"
        BY <2>1 DEF TypeOK
    <2> QED
        BY <2>2 DEF Knows
<1>3. CASE DeployFirst(c)
    <2>1. PICK a \in Contracts, v \in Vaults \ Existing :
              /\ contract' = [contract EXCEPT ![a] = [for |-> v, pays |-> call[c].pays]]
              /\ call' = [call EXCEPT ![c] = [pc |-> "inserting", user |-> call[c].user,
                                             vault |-> v, address |-> a]]
              /\ vault' = vault
        BY <1>3 DEF DeployFirst, Go
    <2>2. [for |-> v, pays |-> call[c].pays] \in ContractRows
        BY <1>3, CallShapes DEF DeployFirst, ContractRows
    <2>3. /\ call'[c].pc = "inserting" /\ call'[c].vault = v /\ call'[c].address = a
          /\ contract'[a].for = v /\ contract'[a] # None /\ vault'[v] = None
        BY <2>1, <2>2, NoneIsNoRow DEF TypeOK, Existing
    <2> QED
        BY <2>3 DEF Knows
<1>4. CASE InsertVault(c)
    <2> DEFINE v == call[c].vault
               r == [address |-> call[c].address, freelancer |-> None, funded |-> FALSE]
    <2>1. v \in Vaults /\ r \in VaultRows
        BY <1>4, CallShapes DEF InsertVault, VaultRows
    <2>2. vault' = [vault EXCEPT ![v] = r]
        BY <1>4 DEF InsertVault
    <2> HIDE DEF r
    <2>3. vault'[v] # None
        BY <2>1, <2>2, NoneIsNoRow DEF TypeOK
    <2>4. call'[c] \in {Idle, Inviting(v, call[c].user)}
        BY <1>4 DEF InsertVault, Go, TypeOK
    <2> QED
        BY <2>3, <2>4 DEF Knows, Idle, Inviting
<1>5. CASE BeginInvite(c)
    <2>1. PICK v \in Existing, u \in Users : call' = [call EXCEPT ![c] = Inviting(v, u)]
        BY <1>5 DEF BeginInvite, Go
    <2>2. call'[c] = Inviting(v, u) /\ vault'[v] # None
        BY <1>5, <2>1 DEF TypeOK, Existing, BeginInvite, rows
    <2> QED
        BY <2>2 DEF Knows, Inviting
<1>6. CASE CheckUnassigned(c) \/ InsertInvite(c)
    <2> DEFINE v == call[c].vault
    <2>1. v \in Vaults /\ vault[v] # None
        BY <1>6, CallShapes DEF CheckUnassigned, InsertInvite, Knows
    <2>2. vault'[v] # None
        BY <2>1, <1>0 DEF Grows
    <2>3. call'[c] \in {Idle, [pc |-> "unassigned", vault |-> v, user |-> call[c].user]}
        BY <1>6 DEF CheckUnassigned, InsertInvite, Go, TypeOK
    <2> QED
        BY <2>2, <2>3 DEF Knows, Idle
<1>7. CASE BeginReassign(c)
    <2>1. PICK v \in Existing, u \in Users :
              call' = [call EXCEPT ![c] = [pc |-> IF vault[v].address = None THEN "expiring" ELSE "reassigning",
                                           vault |-> v, user |-> u, address |-> vault[v].address,
                                           pays |-> PayeeFor(u)]]
        BY <1>7 DEF BeginReassign, Go
    <2>2. /\ call'[c].pc \in {"expiring", "reassigning"}
          /\ call'[c].pc = "reassigning" => vault[v].address # None
          /\ call'[c].vault = v /\ call'[c].address = vault[v].address
        BY <2>1 DEF TypeOK
    <2>3. v \in Vaults /\ vault[v] # None /\ UNCHANGED <<vault, contract>>
        BY <1>7 DEF Existing, BeginReassign, rows
    <2>4. vault[v].address # None => /\ contract[vault[v].address] # None
                                     /\ contract[vault[v].address].for = v
        BY <2>3 DEF RowOK
    <2> QED
        BY <2>2, <2>3, <2>4 DEF Knows
<1>8. CASE ReassignOnChain(c)
    <2>1. call'[c] = Expiring(c) /\ vault' = vault /\ vault[call[c].vault] # None
        BY <1>8 DEF ReassignOnChain, Go, TypeOK, Knows
    <2> QED
        BY <2>1 DEF Knows, Expiring
<1>9. CASE ExpireInvites(c)
    <2>1. call'[c] = Inviting(call[c].vault, call[c].user) /\ vault' = vault /\ vault[call[c].vault] # None
        BY <1>9 DEF ExpireInvites, Go, TypeOK, Knows
    <2> QED
        BY <2>1 DEF Knows, Inviting
<1>10. CASE BeginRespond(c)
    <2>1. PICK i \in Invites : /\ invite[i] # None /\ invite' = invite
                               /\ call' = [call EXCEPT ![c] = [pc |-> "responding", invite |-> i]]
        BY <1>10 DEF BeginRespond, Go, rows
    <2>2. call'[c] = [pc |-> "responding", invite |-> i]
        BY <2>1 DEF TypeOK
    <2> QED
        BY <2>1, <2>2 DEF Knows
<1>11. CASE Accept(c)
    <2> DEFINE v == invite[call[c].invite].vault
               u == invite[call[c].invite].user
               r == [address |-> vault[v].address, freelancer |-> u, funded |-> vault[v].funded]
    <2>1. v \in Vaults /\ u \in Users /\ vault[v] # None
        BY <1>11, CallShapes, RowTypes DEF Accept, Knows, InvitesOK, InviteRows
    <2>2. vault' = [vault EXCEPT ![v] = r] /\ call' = [call EXCEPT ![c] = AfterAccept(v, u)]
          /\ UNCHANGED <<contract, paid>>
        BY <1>11 DEF Accept, Go
    <2>3. call'[c] = AfterAccept(v, u) /\ vault'[v] # None /\ vault'[v].freelancer # None
        <3>1. r \in VaultRows /\ r.freelancer = u
            BY <2>1, RowTypes DEF VaultRows
        <3> HIDE DEF r, u
        <3> QED
            BY <2>1, <2>2, <3>1, NoneIsNoRow DEF TypeOK
    <2>4. /\ vault[v].address # None => /\ contract[vault[v].address] # None
                                       /\ contract[vault[v].address].for = v
          /\ vault[v].address = None /\ vault[v].funded => v \in paid
        BY <2>1 DEF RowOK
    <2> HIDE DEF v, u, r
    <2>5. CASE AfterAccept(v, u) = Idle
        BY <1>1, <2>3, <2>5
    <2>6. CASE AfterAccept(v, u) = [pc |-> "handing", vault |-> v, user |-> u, address |-> vault[v].address]
               /\ vault[v].address # None
        BY <2>2, <2>3, <2>4, <2>6 DEF Knows
    <2>7. CASE AfterAccept(v, u) = [pc |-> "deploying", vault |-> v, user |-> u, funded |-> vault[v].funded]
               /\ vault[v].address = None
        BY <2>2, <2>3, <2>4, <2>7 DEF Knows
    <2> QED
        BY <2>5, <2>6, <2>7 DEF AfterAccept
<1>12. CASE DeployOnAcceptance(c)
    <2> DEFINE v == call[c].vault
               r == [for |-> v, pays |-> call[c].user]
    <2>1. PICK a \in Contracts :
              /\ contract' = [contract EXCEPT ![a] = r]
              /\ call' = [call EXCEPT ![c] = [pc |-> "placing", vault |-> v, user |-> call[c].user,
                                             funded |-> call[c].funded, address |-> a]]
              /\ UNCHANGED <<vault, paid>>
        BY <1>12 DEF DeployOnAcceptance, Go
    <2>2. r \in ContractRows /\ r.for = v
        BY <1>12, CallShapes DEF DeployOnAcceptance, ContractRows, Payees
    <2> HIDE DEF r
    <2>3. contract'[a] # None /\ contract'[a].for = v
        BY <2>1, <2>2, NoneIsNoRow DEF TypeOK
    <2>4. call'[c] = [pc |-> "placing", vault |-> v, user |-> call[c].user,
                      funded |-> call[c].funded, address |-> a]
        BY <2>1 DEF TypeOK
    <2> QED
        BY <1>12, <2>1, <2>3, <2>4 DEF DeployOnAcceptance, Knows
<1>13. CASE PlaceContract(c)
    <2>1. call'[c] = IF call[c].funded THEN Depositing(c) ELSE Idle
        BY <1>13 DEF PlaceContract, Go, TypeOK
    <2>2. call[c].vault \in Vaults /\ vault[call[c].vault] # None /\ (call[c].funded => call[c].vault \in paid)
        BY <1>13, CallShapes DEF PlaceContract, Knows
    <2>3. vault'[call[c].vault] # None /\ paid \subseteq paid'
        BY <1>0, <2>2 DEF Grows
    <2> QED
        BY <1>1, <2>1, <2>2, <2>3 DEF Knows, Depositing
<1>14. CASE Decline(c) \/ HandOver(c) \/ DepositToVault(c) \/ Fail(c)
    BY <1>1, <1>14 DEF Decline, HandOver, DepositToVault, Fail, Go, TypeOK
<1> QED
    BY <1>2, <1>3, <1>4, <1>5, <1>6, <1>7, <1>8, <1>9, <1>10, <1>11, <1>12, <1>13, <1>14 DEF Step

\* The other calls keep theirs: no two creations write the same row.
LEMMA OthersKnow ==
    ASSUME Structure, NEW c \in Calls, Step(c)
    PROVE  (\A d \in Calls : Knows(d)') /\ Distinct'
<1>1. PICK to \in CallTypes : Go(c, to)
    BY StepMoves DEF Structure
<1>2. call' \in [Calls -> CallTypes] /\ call'[c] = to /\ \A d \in Calls \ {c} : call'[d] = call[d]
    BY <1>1, StoredCall DEF Structure
<1>3. \A d \in Calls \ {c} : call[d].pc = "inserting" => vault'[call[d].vault] = vault[call[d].vault]
    <2> SUFFICES ASSUME NEW d \in Calls \ {c}, call[d].pc = "inserting"
                 PROVE  vault'[call[d].vault] = vault[call[d].vault]
        OBVIOUS
    <2>1. call[d].vault \in Vaults /\ vault[call[d].vault] = None
        BY CallShapes DEF Structure, Knows
    <2>2. CASE InsertVault(c)
        <3>1. call[c].vault # call[d].vault
            BY <2>2 DEF Structure, Distinct, InsertVault
        <3> QED
            BY <2>1, <2>2, <3>1 DEF InsertVault, Structure, TypeOK
    <2>3. CASE Accept(c)
        <3> DEFINE v == invite[call[c].invite].vault
        <3>1. vault[v] # None
            BY <2>3, CallShapes DEF Accept, Structure, Knows, InvitesOK
        <3>2. \A w \in Vaults : w # v => vault'[w] = vault[w]
            BY <2>3 DEF Accept, Structure, TypeOK
        <3> QED
            BY <2>1, <3>1, <3>2
    <2>4. CASE PlaceContract(c)
        <3>1. vault[call[c].vault] # None
            BY <2>4 DEF PlaceContract, Structure, Knows
        <3>2. \A w \in Vaults : w # call[c].vault => vault'[w] = vault[w]
            BY <2>4 DEF PlaceContract, Structure, TypeOK
        <3> QED
            BY <2>1, <3>1, <3>2
    <2> QED
        BY <2>2, <2>3, <2>4 DEF Step, BeginCreate, DeployFirst, BeginInvite, CheckUnassigned,
           InsertInvite, BeginReassign, ReassignOnChain, ExpireInvites, BeginRespond, Decline, HandOver,
           DeployOnAcceptance, DepositToVault, Fail, rows
<1>4. \A d \in Calls : Knows(d)'
    <2>1. Grows
        BY StepTyped DEF Structure
    <2>2. Knows(c)'
        BY StepKnows DEF Structure
    <2>3. ASSUME NEW d \in Calls \ {c} PROVE Knows(d)'
        BY <1>2, <1>3, <2>1, GrownKnows DEF Structure
    <2> QED
        BY <2>2, <2>3
<1>5. Distinct'
    <2> SUFFICES ASSUME NEW d \in Calls \ {c}, call[d].pc = "inserting", call'[c].pc = "inserting"
                 PROVE  call'[c].vault # call[d].vault
        BY <1>2 DEF Distinct, Structure
    <2>1. DeployFirst(c)
        <3>1. CASE InsertVault(c) \/ CheckUnassigned(c) \/ InsertInvite(c)
            <4>1. call'[c].pc \in {"idle", "inviting", "unassigned"}
                BY <3>1 DEF InsertVault, CheckUnassigned, InsertInvite,
                   Inviting, Idle, Go, Structure, TypeOK
            <4> QED
                BY <4>1
        <3>2. CASE BeginCreate(c) \/ BeginInvite(c) \/ BeginReassign(c) \/ BeginRespond(c)
            <4>1. call'[c].pc # "inserting"
                BY <3>2 DEF BeginCreate, BeginInvite, BeginReassign, BeginRespond, Inviting, Go,
                   Structure, TypeOK
            <4> QED
                BY <4>1
        <3>3. CASE ReassignOnChain(c) \/ ExpireInvites(c) \/ Decline(c) \/ HandOver(c)
            <4>1. call'[c].pc \in {"expiring", "inviting", "idle"}
                BY <3>3 DEF ReassignOnChain, ExpireInvites, Decline, HandOver, Expiring, Inviting, Idle,
                   Go, Structure, TypeOK
            <4> QED
                BY <4>1
        <3>4. CASE Accept(c)
            <4>1. call'[c].pc \in {"handing", "deploying", "idle"}
                BY <3>4 DEF Accept, AfterAccept, Idle, Go, Structure, TypeOK
            <4> QED
                BY <4>1
        <3>5. CASE DeployOnAcceptance(c) \/ PlaceContract(c) \/ DepositToVault(c) \/ Fail(c)
            <4>1. call'[c].pc \in {"placing", "depositing", "idle"}
                BY <3>5 DEF DeployOnAcceptance, PlaceContract, DepositToVault, Fail, Depositing, Idle,
                   Go, Structure, TypeOK
            <4> QED
                BY <4>1
        <3> QED
            BY <3>1, <3>2, <3>3, <3>4, <3>5 DEF Step
    <2>2. PICK a \in Contracts, v \in Vaults :
              /\ \A b \in Contracts : contract[b] # None => contract[b].for # v
              /\ call' = [call EXCEPT ![c] = [pc |-> "inserting", user |-> call[c].user,
                                             vault |-> v, address |-> a]]
        BY <2>1 DEF DeployFirst, Go
    <2>3. call'[c].vault = v
        BY <2>2 DEF Structure, TypeOK
    <2>4. call[d].address \in Contracts /\ contract[call[d].address] # None
          /\ contract[call[d].address].for = call[d].vault
        BY CallShapes DEF Structure, Knows
    <2> QED
        BY <2>2, <2>3, <2>4
<1> QED
    BY <1>4, <1>5

\* Contracts and invitations stay with existing vaults.
LEMMA StepRows ==
    ASSUME Structure, NEW c \in Calls, Step(c)
    PROVE  (\A v \in Vaults : RowOK(v)') /\ InvitesOK'
<1>0. Grows /\ invite' \in [Invites -> {None} \cup InviteRows] /\ vault' \in [Vaults -> {None} \cup VaultRows]
    BY StepTyped DEF Structure
<1>1. ASSUME NEW v \in Vaults, vault'[v] = vault[v] PROVE RowOK(v)'
    <2>1. RowOK(v) /\ vault[v] # None => vault[v].address \in Contracts \cup {None}
        BY RowTypes DEF Structure, VaultRows
    <2> QED
        BY <1>0, <1>1, <2>1 DEF Structure, RowOK, Grows
<1>2. ASSUME NEW v \in Vaults PROVE RowOK(v)'
    <2>1. CASE InsertVault(c)
        <3> DEFINE r == [address |-> call[c].address, freelancer |-> None, funded |-> FALSE]
        <3>1. vault' = [vault EXCEPT ![call[c].vault] = r] /\ UNCHANGED contract
            BY <2>1 DEF InsertVault
        <3>2. /\ call[c].address \in Contracts /\ contract[call[c].address] # None
              /\ contract[call[c].address].for = call[c].vault
            BY <2>1, CallShapes DEF InsertVault, Structure, Knows
        <3>3. CASE v = call[c].vault
            <4>1. vault'[v] = r
                BY <3>1, <3>3 DEF Structure, TypeOK
            <4>2. call[c].address # None
                BY <3>2, NoneIsNoRow
            <4> QED
                BY <3>1, <3>2, <3>3, <4>1, <4>2 DEF RowOK
        <3>4. CASE v # call[c].vault
            BY <1>1, <3>1, <3>4 DEF Structure, TypeOK
        <3> QED
            BY <3>3, <3>4
    <2>2. CASE Accept(c)
        <3> DEFINE w == invite[call[c].invite].vault
                   r == [address |-> vault[w].address, freelancer |-> invite[call[c].invite].user,
                         funded |-> vault[w].funded]
        <3>1. vault' = [vault EXCEPT ![w] = r] /\ UNCHANGED <<contract, paid>>
            BY <2>2 DEF Accept
        <3>2. CASE v = w
            <4>1. vault[v] # None
                BY <2>2, <3>2, CallShapes DEF Accept, Structure, Knows, InvitesOK
            <4>2. vault'[v] = r
                BY <3>1, <3>2 DEF Structure, TypeOK
            <4>3. vault'[v].address = vault[v].address /\ vault'[v].funded = vault[v].funded
                BY <4>2, <3>2
            <4> QED
                BY <3>1, <4>1, <4>3 DEF Structure, RowOK
        <3>3. CASE v # w
            <4>1. vault'[v] = vault[v]
                BY <3>1, <3>3 DEF Structure, TypeOK
            <4> QED
                BY <1>1, <4>1
        <3> QED
            BY <3>2, <3>3
    <2>3. CASE PlaceContract(c)
        <3> DEFINE w == call[c].vault
                   r == [address |-> call[c].address, freelancer |-> vault[w].freelancer, funded |-> TRUE]
        <3>1. vault' = [vault EXCEPT ![w] = r] /\ UNCHANGED contract
            BY <2>3 DEF PlaceContract
        <3>2. /\ call[c].address \in Contracts /\ contract[call[c].address] # None
              /\ contract[call[c].address].for = w /\ call[c].address # None
            BY <2>3, CallShapes, NoneIsNoRow DEF PlaceContract, Structure, Knows
        <3>3. CASE v = w
            <4>1. vault'[v] = r
                BY <3>1, <3>3 DEF Structure, TypeOK
            <4> QED
                BY <3>1, <3>2, <3>3, <4>1 DEF RowOK
        <3>4. CASE v # w
            <4>1. vault'[v] = vault[v]
                BY <3>1, <3>4 DEF Structure, TypeOK
            <4> QED
                BY <1>1, <4>1
        <3> QED
            BY <3>3, <3>4
    <2>4. CASE vault' = vault
        BY <1>1, <2>4
    <2> QED
        BY <2>1, <2>2, <2>3, <2>4 DEF Step, BeginCreate, DeployFirst, BeginInvite,
           CheckUnassigned, InsertInvite, BeginReassign, ReassignOnChain, ExpireInvites, BeginRespond, Decline,
           HandOver, DeployOnAcceptance, DepositToVault, Fail, rows
<1>3. InvitesOK'
    <2> SUFFICES ASSUME NEW i \in Invites, invite'[i] # None PROVE vault'[invite'[i].vault] # None
        BY DEF InvitesOK
    <2>1. CASE invite[i] # None
        <3>1. invite'[i].vault = invite[i].vault /\ vault[invite[i].vault] # None
            BY <1>0, <2>1 DEF Grows, Structure, InvitesOK
        <3>2. invite[i].vault \in Vaults
            BY <2>1, RowTypes DEF Structure, InviteRows
        <3> QED
            BY <1>0, <3>1, <3>2 DEF Grows
    <2>2. CASE invite[i] = None
        <3>1. InsertInvite(c)
            <4>1. invite' # invite
                BY <2>2
            <4>2. CASE Accept(c) \/ Decline(c)
                <5>1. invite[call[c].invite] # None
                    BY <4>2 DEF Accept, Decline, Structure, Knows
                <5> QED
                    BY <2>2, <4>2, <5>1 DEF Accept, Decline, Answered, Structure, TypeOK
            <4>3. CASE ExpireInvites(c)
                BY <2>2, <4>3 DEF ExpireInvites
            <4> QED
                BY <4>1, <4>2, <4>3 DEF Step, BeginCreate, DeployFirst, InsertVault, BeginInvite,
                   CheckUnassigned, BeginReassign, ReassignOnChain, BeginRespond, HandOver, DeployOnAcceptance,
                   PlaceContract, DepositToVault, Fail, rows
        <3>2. call[c].vault \in Vaults /\ vault[call[c].vault] # None
            BY <3>1, CallShapes DEF InsertInvite, Structure, Knows
        <3> DEFINE r == [vault |-> call[c].vault, user |-> call[c].user, status |-> "PENDING"]
        <3>3. PICK j \in Invites : invite' = [invite EXCEPT ![j] = r]
            BY <3>1 DEF InsertInvite
        <3>4. invite'[i] = r
            BY <2>2, <3>3 DEF Structure, TypeOK
        <3> QED
            BY <1>0, <3>2, <3>4 DEF Grows
    <2> QED
        BY <2>1, <2>2
<1> QED
    BY <1>2, <1>3

\* A vault whose row, contract and pending hand-overs a step leaves alone.
LEMMA Undisturbed ==
    ASSUME Structure, NEW c \in Calls, NEW v \in Vaults, Agreement(v),
           vault'[v] = vault[v], v \in doubt => v \in doubt',
           \A d \in Calls \ {c} : call'[d] = call[d],
           call[c].pc \in {"handing", "deploying", "placing"} => call[c].vault # v,
           call'[c].pc \in {"handing", "deploying", "placing"} => call'[c].vault # v,
           \A a \in Contracts : contract[a] # None /\ contract[a].for = v => contract'[a] = contract[a]
    PROVE  Agreement(v)'
<1> SUFFICES ASSUME vault[v] # None, v \notin doubt, vault[v].freelancer # None
             PROVE  /\ \A d \in HandingOver(v)' : call'[d].user = vault[v].freelancer
                    /\ \A d \in HandingOver(v)' : call'[d].pc = "placing"
                          => contract'[call'[d].address].pays = vault[v].freelancer
                    /\ vault[v].address # None => \/ contract'[vault[v].address].pays = vault[v].freelancer
                                                 \/ \E d \in Calls : Handing(d, v)'
    BY DEF Agreement
<1>1. HandingOver(v)' = HandingOver(v) /\ \A d \in HandingOver(v) : call'[d] = call[d]
    BY DEF HandingOver
<1>2. \A d \in HandingOver(v) : call[d].pc = "placing"
         => /\ call[d].address \in Contracts
            /\ contract[call[d].address] # None /\ contract[call[d].address].for = v
    BY CallShapes DEF HandingOver, Structure, Knows
<1>3. vault[v].address # None => /\ vault[v].address \in Contracts
                                 /\ contract[vault[v].address] # None /\ contract[vault[v].address].for = v
    BY RowTypes DEF Structure, RowOK, VaultRows
<1>4. \A d \in Calls : Handing(d, v) => Handing(d, v)'
    BY DEF Handing
<1> QED
    BY <1>1, <1>2, <1>3, <1>4 DEF Agreement

\* Every step keeps row and contract in agreement, or on the way to it.
LEMMA StepAgrees ==
    ASSUME Structure, NEW c \in Calls, Step(c), NEW v \in Vaults, Agreement(v)
    PROVE  Agreement(v)'
<1>0. PICK to \in CallTypes : Go(c, to)
    BY StepMoves DEF Structure
<1>1. call' \in [Calls -> CallTypes] /\ call'[c] = to /\ \A d \in Calls \ {c} : call'[d] = call[d]
    BY <1>0, StoredCall DEF Structure
<1>a. HandingOver(v) \subseteq Calls
    BY DEF HandingOver
<1>2. ASSUME UNCHANGED <<vault, contract, doubt>>,
             call[c].pc \notin {"handing", "deploying", "placing"},
             call'[c].pc \notin {"handing", "deploying", "placing"}
      PROVE  Agreement(v)'
    BY <1>1, <1>2, Undisturbed
<1>3. CASE BeginCreate(c) \/ BeginInvite(c) \/ BeginReassign(c) \/ BeginRespond(c)
    <2>1. /\ call[c].pc = "idle" /\ UNCHANGED <<vault, contract, doubt>>
          /\ call'[c].pc \notin {"handing", "deploying", "placing"}
        BY <1>3 DEF BeginCreate, BeginInvite, BeginReassign, BeginRespond, rows, Go, Inviting, Structure, TypeOK
    <2> QED
        BY <1>2, <2>1
<1>4. CASE CheckUnassigned(c) \/ InsertInvite(c) \/ ExpireInvites(c)
    <2>1. /\ call[c].pc \notin {"handing", "deploying", "placing"} /\ UNCHANGED <<vault, contract, doubt>>
          /\ call'[c].pc \notin {"handing", "deploying", "placing"}
        BY <1>4 DEF CheckUnassigned, InsertInvite, ExpireInvites, rows, Go,
           Inviting, Idle, Structure, TypeOK
    <2> QED
        BY <1>2, <2>1
<1>5. CASE Decline(c) \/ DepositToVault(c)
    <2>1. /\ call[c].pc \notin {"handing", "deploying", "placing"} /\ UNCHANGED <<vault, contract, doubt>>
          /\ call'[c].pc \notin {"handing", "deploying", "placing"}
        BY <1>5 DEF Decline, DepositToVault, Go, Idle, Structure, TypeOK
    <2> QED
        BY <1>2, <2>1
<1>6. CASE DeployFirst(c)
    <2>1. PICK a \in Contracts, w \in Vaults :
              /\ contract[a] = None
              /\ contract' = [contract EXCEPT ![a] = [for |-> w, pays |-> call[c].pays]]
              /\ call' = [call EXCEPT ![c] = [pc |-> "inserting", user |-> call[c].user,
                                             vault |-> w, address |-> a]]
        BY <1>6 DEF DeployFirst, Go
    <2>2. call'[c].pc = "inserting" /\ call[c].pc = "creating" /\ UNCHANGED <<vault, doubt>>
        BY <1>6, <2>1 DEF DeployFirst, Structure, TypeOK
    <2>3. \A b \in Contracts : contract[b] # None => contract'[b] = contract[b]
        BY <2>1 DEF Structure, TypeOK
    <2> QED
        BY <1>1, <2>2, <2>3, Undisturbed
<1>7. CASE InsertVault(c)
    <2> DEFINE w == call[c].vault
               r == [address |-> call[c].address, freelancer |-> None, funded |-> FALSE]
    <2>1. vault' = [vault EXCEPT ![w] = r] /\ UNCHANGED <<contract, doubt>> /\ call[c].pc = "inserting"
        BY <1>7 DEF InsertVault
    <2>2. call'[c].pc \notin {"handing", "deploying", "placing"}
        BY <1>7 DEF InsertVault, Go, Inviting, Idle, Structure, TypeOK
    <2>3. CASE v = w
        <3>1. vault'[v].freelancer = None
            BY <2>1, <2>3 DEF Structure, TypeOK
        <3> QED
            BY <3>1 DEF Agreement
    <2>4. CASE v # w
        <3>1. vault'[v] = vault[v]
            BY <2>1, <2>4 DEF Structure, TypeOK
        <3> QED
            BY <1>1, <2>1, <2>2, <3>1, Undisturbed
    <2> QED
        BY <2>3, <2>4
<1>8. CASE ReassignOnChain(c)
    <2>1. /\ call[c].pc = "reassigning" /\ call'[c].pc = "expiring" /\ UNCHANGED vault
          /\ call[c].address \in Contracts /\ contract[call[c].address].for = call[c].vault
        BY <1>8, CallShapes DEF ReassignOnChain, Go, Expiring, Structure, TypeOK, Knows
    <2>2. CASE UNCHANGED <<contract, doubt>>
        BY <1>2, <2>1, <2>2
    <2>3. CASE /\ contract' = [contract EXCEPT ![call[c].address] = [for |-> @.for, pays |-> call[c].pays]]
               /\ doubt' = doubt \cup {w \in {call[c].vault} : vault[w].freelancer # None}
        <3>1. CASE v = call[c].vault
            BY <2>1, <2>3, <3>1 DEF Agreement
        <3>2. CASE v # call[c].vault
            <4>1. \A a \in Contracts : contract[a].for = v => contract'[a] = contract[a]
                BY <2>1, <2>3, <3>2 DEF Structure, TypeOK
            <4>2. v \in doubt => v \in doubt'
                BY <2>3
            <4> QED
                BY <1>1, <2>1, <4>1, <4>2, Undisturbed
        <3> QED
            BY <3>1, <3>2
    <2> QED
        BY <1>8, <2>2, <2>3 DEF ReassignOnChain
<1>9. CASE Accept(c)
    <2> DEFINE w == invite[call[c].invite].vault
               u == invite[call[c].invite].user
               r == [address |-> vault[w].address, freelancer |-> u, funded |-> vault[w].funded]
    <2>1. /\ call[c].pc = "responding" /\ UNCHANGED contract /\ vault' = [vault EXCEPT ![w] = r]
          /\ doubt' = doubt \cup {x \in {w} : \/ wallet[u] # "real"
                                            \/ \E d \in HandingOver(x) : call[d].user # u}
          /\ call' = [call EXCEPT ![c] = AfterAccept(w, u)]
        BY <1>9 DEF Accept, Go
    <2>2. w \in Vaults /\ u \in Users /\ vault[w] # None /\ call'[c] = AfterAccept(w, u)
        BY <2>1, CallShapes, RowTypes DEF Structure, Knows, InvitesOK, InviteRows, TypeOK
    <2>3. CASE v # w
        <3>1. vault'[v] = vault[v]
            BY <2>1, <2>3 DEF Structure, TypeOK
        <3>2. call'[c].pc \in {"handing", "deploying", "placing"} => call'[c].vault # v
            BY <2>2, <2>3 DEF AfterAccept, Idle
        <3> QED
            BY <1>1, <2>1, <3>1, <3>2, Undisturbed
    <2>4. CASE v = w
        <3> HIDE DEF u
        <3>1. SUFFICES ASSUME v \notin doubt'
                       PROVE  Agreement(v)'
            BY DEF Agreement
        <3>2. wallet[u] = "real" /\ v \notin doubt /\ \A d \in HandingOver(v) : call[d].user = u
            BY <2>1, <2>4, <3>1
        <3>3. vault'[v] = r
            BY <2>1, <2>2, <2>4 DEF Structure, TypeOK
        <3>4. vault'[v].address = vault[v].address /\ vault'[v].freelancer = u
            BY <3>3, <2>4
        <3>5. c \notin HandingOver(v)
            BY <2>1 DEF HandingOver
        <3>6. CASE vault[v].address # None
            <4>1. call'[c] = [pc |-> "handing", vault |-> v, user |-> u, address |-> vault[v].address]
                BY <2>2, <2>4, <3>2, <3>6 DEF AfterAccept
            <4>2. HandingOver(v)' = HandingOver(v) \cup {c}
                BY <1>1, <4>1 DEF HandingOver
            <4>3. Handing(c, v)'
                BY <3>4, <4>1 DEF Handing
            <4>4. \A d \in HandingOver(v)' : call'[d].user = u
                BY <1>1, <1>a, <3>2, <3>5, <4>1, <4>2
            <4>5. \A d \in HandingOver(v)' : call'[d].pc = "placing"
                     => contract'[call'[d].address].pays = u
                <5> SUFFICES ASSUME NEW d \in HandingOver(v), d # c, call[d].pc = "placing"
                             PROVE  contract[call[d].address].pays = u
                    BY <1>1, <2>1, <4>1, <4>2 DEF HandingOver
                <5>1. vault[v].freelancer # None /\ call[d].user = u
                    BY <3>2 DEF HandingOver, Structure, Knows
                <5>2. Agreement(v) /\ vault[v] # None /\ v \notin doubt
                    BY <2>2, <2>4, <3>2
                <5>3. vault[v].freelancer = u
                    BY <5>1, <5>2 DEF Agreement
                <5> QED
                    BY <5>1, <5>2, <5>3 DEF Agreement
            <4> QED
                BY <3>4, <4>3, <4>4, <4>5 DEF Agreement
        <3>7. CASE vault[v].address = None
            <4>1. call'[c] = [pc |-> "deploying", vault |-> v, user |-> u, funded |-> vault[v].funded]
                BY <2>2, <2>4, <3>2, <3>7 DEF AfterAccept
            <4>2. HandingOver(v)' = HandingOver(v) \cup {c}
                BY <1>1, <4>1 DEF HandingOver
            <4>4. \A d \in HandingOver(v)' : call'[d].user = u
                BY <1>1, <1>a, <3>2, <3>5, <4>1, <4>2
            <4>5. \A d \in HandingOver(v)' : call'[d].pc = "placing"
                     => contract'[call'[d].address].pays = u
                <5> SUFFICES ASSUME NEW d \in HandingOver(v), d # c, call[d].pc = "placing"
                             PROVE  contract[call[d].address].pays = u
                    BY <1>1, <2>1, <4>1, <4>2 DEF HandingOver
                <5>1. vault[v].freelancer # None /\ call[d].user = u
                    BY <3>2 DEF HandingOver, Structure, Knows
                <5>2. Agreement(v) /\ vault[v] # None /\ v \notin doubt
                    BY <2>2, <2>4, <3>2
                <5>3. vault[v].freelancer = u
                    BY <5>1, <5>2 DEF Agreement
                <5> QED
                    BY <5>1, <5>2, <5>3 DEF Agreement
            <4> QED
                BY <3>4, <3>7, <4>4, <4>5 DEF Agreement
        <3> QED
            BY <3>6, <3>7
    <2> QED
        BY <2>3, <2>4
<1>10. CASE HandOver(c)
    <2> DEFINE a == call[c].address
               r == [for |-> contract[a].for, pays |-> call[c].user]
    <2>1. /\ call[c].pc = "handing" /\ call'[c] = Idle /\ UNCHANGED <<vault, doubt>>
          /\ contract' = [contract EXCEPT ![a] = r]
        BY <1>10 DEF HandOver, Go, Structure, TypeOK
    <2>2. a \in Contracts /\ contract[a] # None /\ contract[a].for = call[c].vault /\ call[c].vault \in Vaults
        BY <2>1, CallShapes DEF Structure, Knows
    <2>3. contract'[a] = r /\ \A b \in Contracts : b # a => contract'[b] = contract[b]
        BY <2>1, <2>2 DEF Structure, TypeOK
    <2>4. CASE v # call[c].vault
        <3>1. \A b \in Contracts : contract[b].for = v => contract'[b] = contract[b]
            BY <2>2, <2>3, <2>4
        <3> QED
            BY <1>1, <2>1, <2>4, <3>1, Undisturbed DEF Idle
    <2>5. CASE v = call[c].vault
        <3>1. SUFFICES ASSUME vault[v] # None, v \notin doubt, vault[v].freelancer # None
                       PROVE  Agreement(v)'
            BY <2>1 DEF Agreement
        <3>2. c \in HandingOver(v) /\ HandingOver(v)' = HandingOver(v) \ {c}
            BY <1>1, <2>1, <2>5 DEF HandingOver, Idle
        <3>3. contract'[a].pays = vault[v].freelancer
            BY <2>3, <3>1, <3>2 DEF Agreement
        <3>4. \A b \in Contracts : contract[b].pays = vault[v].freelancer
                  => contract'[b].pays = vault[v].freelancer
            BY <2>3, <3>3
        <3>5. \A d \in HandingOver(v)' : call'[d].user = vault[v].freelancer
            BY <1>1, <1>a, <3>1, <3>2 DEF Agreement
        <3>6. \A d \in HandingOver(v)' : call'[d].pc = "placing"
                 => contract'[call'[d].address].pays = vault[v].freelancer
            <4> SUFFICES ASSUME NEW d \in HandingOver(v), d # c, call[d].pc = "placing"
                         PROVE  contract'[call[d].address].pays = vault[v].freelancer
                BY <1>1, <3>2 DEF HandingOver
            <4>1. call[d].address \in Contracts
                BY CallShapes DEF HandingOver, Structure
            <4> QED
                BY <3>1, <3>4, <4>1 DEF Agreement
        <3>7. vault[v].address # None => \/ contract'[vault[v].address].pays = vault[v].freelancer
                                        \/ \E d \in Calls : Handing(d, v)'
            <4> SUFFICES ASSUME vault[v].address # None
                         PROVE  \/ contract'[vault[v].address].pays = vault[v].freelancer
                                \/ \E d \in Calls : Handing(d, v)'
                OBVIOUS
            <4>1. vault[v].address \in Contracts
                BY <3>1, RowTypes DEF Structure, VaultRows
            <4>2. CASE contract[vault[v].address].pays = vault[v].freelancer
                BY <3>4, <4>1, <4>2
            <4>3. CASE \E d \in Calls : Handing(d, v)
                <5>1. PICK d \in Calls : Handing(d, v)
                    BY <4>3
                <5>2. CASE d = c
                    BY <3>3, <5>1, <5>2 DEF Handing
                <5>3. CASE d # c
                    <6>1. Handing(d, v)'
                        BY <1>1, <2>1, <5>1, <5>3 DEF Handing
                    <6> QED
                        BY <6>1
                <5> QED
                    BY <5>2, <5>3
            <4> QED
                BY <3>1, <4>2, <4>3 DEF Agreement
        <3> QED
            BY <2>1, <3>5, <3>6, <3>7 DEF Agreement
    <2> QED
        BY <2>4, <2>5
<1>11. CASE DeployOnAcceptance(c)
    <2> DEFINE w == call[c].vault
               r == [for |-> w, pays |-> call[c].user]
    <2>1. PICK a \in Contracts :
              /\ contract[a] = None /\ contract' = [contract EXCEPT ![a] = r]
              /\ call' = [call EXCEPT ![c] = [pc |-> "placing", vault |-> w, user |-> call[c].user,
                                             funded |-> call[c].funded, address |-> a]]
        BY <1>11 DEF DeployOnAcceptance, Go
    <2>2. /\ call[c].pc = "deploying" /\ UNCHANGED <<vault, doubt>>
          /\ call'[c] = [pc |-> "placing", vault |-> w, user |-> call[c].user,
                         funded |-> call[c].funded, address |-> a]
        BY <1>11, <2>1 DEF DeployOnAcceptance, Structure, TypeOK
    <2>3. contract'[a] = r /\ \A b \in Contracts : contract[b] # None => contract'[b] = contract[b]
        BY <2>1 DEF Structure, TypeOK
    <2>4. CASE v # w
        BY <1>1, <2>2, <2>3, <2>4, Undisturbed
    <2>5. CASE v = w
        <3>1. SUFFICES ASSUME vault[v] # None, v \notin doubt, vault[v].freelancer # None
                       PROVE  Agreement(v)'
            BY <2>2 DEF Agreement
        <3>2. c \in HandingOver(v) /\ HandingOver(v)' = HandingOver(v)
            BY <1>1, <2>2, <2>5 DEF HandingOver
        <3>3. \A d \in HandingOver(v)' : call'[d].user = vault[v].freelancer
            BY <1>1, <1>a, <2>2, <3>1, <3>2 DEF Agreement
        <3>4. \A d \in HandingOver(v)' : call'[d].pc = "placing"
                 => contract'[call'[d].address].pays = vault[v].freelancer
            <4> SUFFICES ASSUME NEW d \in HandingOver(v), call'[d].pc = "placing"
                         PROVE  contract'[call'[d].address].pays = vault[v].freelancer
                BY <3>2
            <4>1. CASE d = c
                BY <2>2, <2>3, <3>1, <3>2, <4>1 DEF Agreement
            <4>2. CASE d # c
                <5>1. call'[d] = call[d] /\ call[d].pc = "placing"
                    BY <1>1, <4>2 DEF HandingOver
                <5>2. call[d].address \in Contracts /\ contract[call[d].address] # None
                    BY <5>1, CallShapes DEF HandingOver, Structure, Knows
                <5> QED
                    BY <2>3, <3>1, <5>1, <5>2 DEF Agreement
            <4> QED
                BY <4>1, <4>2
        <3>5. \A d \in Calls : Handing(d, v) => Handing(d, v)'
            BY <1>1, <2>2 DEF Handing
        <3>6. vault[v].address # None => /\ vault[v].address \in Contracts
                                         /\ contract[vault[v].address] # None
            BY <3>1, RowTypes DEF Structure, RowOK, VaultRows
        <3>7. vault[v].address # None => \/ contract'[vault[v].address].pays = vault[v].freelancer
                                        \/ \E d \in Calls : Handing(d, v)'
            BY <2>3, <3>1, <3>5, <3>6 DEF Agreement
        <3> QED
            BY <2>2, <3>3, <3>4, <3>7 DEF Agreement
    <2> QED
        BY <2>4, <2>5
<1>12. CASE PlaceContract(c)
    <2> DEFINE w == call[c].vault
               r == [address |-> call[c].address, freelancer |-> vault[w].freelancer, funded |-> TRUE]
    <2>1. /\ call[c].pc = "placing" /\ UNCHANGED <<contract, doubt>> /\ vault' = [vault EXCEPT ![w] = r]
          /\ call'[c].pc \in {"idle", "depositing"}
        BY <1>12 DEF PlaceContract, Go, Depositing, Idle, Structure, TypeOK
    <2>2. w \in Vaults /\ vault[w] # None
        BY <2>1, CallShapes DEF Structure, Knows
    <2>3. CASE v # w
        <3>1. vault'[v] = vault[v]
            BY <2>1, <2>3 DEF Structure, TypeOK
        <3> QED
            BY <1>1, <2>1, <2>3, <3>1, Undisturbed
    <2>4. CASE v = w
        <3>1. vault'[v] = r
            BY <2>1, <2>2, <2>4 DEF Structure, TypeOK
        <3>2. vault'[v].address = call[c].address /\ vault'[v].freelancer = vault[v].freelancer
            BY <2>4, <3>1
        <3>3. SUFFICES ASSUME v \notin doubt, vault[v].freelancer # None
                       PROVE  Agreement(v)'
            BY <2>1, <3>2 DEF Agreement
        <3>4. c \in HandingOver(v) /\ HandingOver(v)' = HandingOver(v) \ {c}
            BY <1>1, <2>1, <2>4 DEF HandingOver
        <3>5. contract'[call[c].address].pays = vault[v].freelancer
            BY <2>1, <2>2, <2>4, <3>3, <3>4 DEF Agreement
        <3>6. \A d \in HandingOver(v)' :
                  /\ call'[d].user = vault[v].freelancer
                  /\ call'[d].pc = "placing" => contract'[call'[d].address].pays = vault[v].freelancer
            BY <1>1, <2>1, <2>2, <2>4, <3>3, <3>4 DEF Agreement, HandingOver
        <3> QED
            BY <3>2, <3>5, <3>6 DEF Agreement
    <2> QED
        BY <2>3, <2>4
<1>13. CASE Fail(c)
    <2>1. /\ UNCHANGED <<vault, contract>> /\ doubt' = doubt \cup {x \in Vaults : c \in HandingOver(x)}
          /\ call'[c].pc = "idle"
        BY <1>13 DEF Fail, Go, Idle, Structure, TypeOK
    <2>2. CASE c \in HandingOver(v)
        BY <2>1, <2>2 DEF Agreement
    <2>3. CASE c \notin HandingOver(v)
        <3>1. call[c].pc \in {"handing", "deploying", "placing"} => call[c].vault # v
            BY <2>3 DEF HandingOver
        <3> QED
            BY <1>1, <2>1, <3>1, Undisturbed
    <2> QED
        BY <2>2, <2>3
<1> QED
    BY <1>3, <1>4, <1>5, <1>6, <1>7, <1>8, <1>9, <1>10, <1>11, <1>12, <1>13 DEF Step

\* The steps of the environment.
LEMMA EnvironmentKeeps ==
    ASSUME IInv, WalletLinked \/ PaymentReported
    PROVE  IInv'
<1> USE DEF IInv, Structure
<1>1. CASE WalletLinked
    <2>1. TypeOK'
        BY <1>1 DEF WalletLinked, TypeOK
    <2>2. UNCHANGED <<vault, contract, held, invite, call, paid, doubt>>
        BY <1>1 DEF WalletLinked
    <2> QED
        BY <2>1, <2>2 DEF Knows, Distinct, RowOK, InvitesOK, Agreement, HandingOver, Handing, DepositsArePaid
<1>2. CASE PaymentReported
    <2>1. PICK w \in Existing :
              /\ vault' = [vault EXCEPT ![w] = [address |-> @.address, freelancer |-> @.freelancer,
                                               funded |-> TRUE]]
              /\ paid' = paid \cup {w}
        BY <1>2 DEF PaymentReported
    <2> DEFINE r == [address |-> vault[w].address, freelancer |-> vault[w].freelancer, funded |-> TRUE]
    <2>2. w \in Vaults /\ vault[w] # None /\ vault[w] \in VaultRows
        BY RowTypes DEF Existing
    <2>3. r \in VaultRows /\ r # None
        BY <2>2, NoneIsNoRow DEF VaultRows
    <2>4. vault' = [vault EXCEPT ![w] = r]
        BY <2>1
    <2>5. r.address = vault[w].address /\ r.freelancer = vault[w].freelancer
        OBVIOUS
    <2> HIDE DEF r
    <2>6. \A v \in Vaults : /\ vault'[v] = None <=> vault[v] = None
                            /\ vault[v] # None => /\ vault'[v].address = vault[v].address
                                                 /\ vault'[v].freelancer = vault[v].freelancer
                            /\ v # w => vault'[v] = vault[v]
        BY <2>2, <2>3, <2>4, <2>5 DEF TypeOK
    <2>7. UNCHANGED <<wallet, role, contract, held, invite, call, doubt>>
        BY <1>2 DEF PaymentReported
    <2>8. TypeOK'
        BY <2>1, <2>2, <2>3, <2>4, <2>7 DEF TypeOK
    <2>9. \A c \in Calls : Knows(c)'
        <3> SUFFICES ASSUME NEW c \in Calls PROVE Knows(c)'
            OBVIOUS
        <3>1. /\ call[c].pc \in {"inviting", "unassigned", "reassigning", "expiring", "handing",
                                 "deploying", "placing", "depositing", "inserting"}
                 => call[c].vault \in Vaults
            BY CallShapes
        <3>2. Knows(c)
            OBVIOUS
        <3> QED
            BY <2>1, <2>6, <2>7, <3>1, <3>2 DEF Knows
    <2>10. Distinct'
        BY <2>7 DEF Distinct
    <2>11. \A v \in Vaults : RowOK(v)'
        BY <2>1, <2>6, <2>7 DEF RowOK
    <2>12. InvitesOK'
        BY <2>6, <2>7, RowTypes DEF InvitesOK, InviteRows
    <2>13. \A v \in Vaults : Agreement(v)'
        <3> SUFFICES ASSUME NEW v \in Vaults, vault[v] # None, v \notin doubt,
                            vault[v].freelancer # None
                     PROVE  Agreement(v)'
            BY <2>6, <2>7 DEF Agreement
        <3>1. HandingOver(v)' = HandingOver(v)
            BY <2>7 DEF HandingOver
        <3>2. \A c \in Calls : Handing(c, v) => Handing(c, v)'
            BY <2>6, <2>7 DEF Handing
        <3> QED
            BY <2>6, <2>7, <3>1, <3>2 DEF Agreement
    <2>14. DepositsArePaid'
        BY <2>1, <2>7 DEF DepositsArePaid
    <2> QED
        BY <2>8, <2>9, <2>10, <2>11, <2>12, <2>13, <2>14
<1> QED
    BY <1>1, <1>2

\* A deposit is made only by a call that has found the vault paid.
LEMMA StepDeposits ==
    ASSUME Structure, DepositsArePaid, NEW c \in Calls, Step(c)
    PROVE  DepositsArePaid'
<1>1. CASE DepositToVault(c)
    <2>1. call[c].vault \in paid /\ held' = held \cup {[vault |-> call[c].vault, address |-> call[c].address]}
          /\ UNCHANGED paid
        BY <1>1 DEF DepositToVault, Structure, Knows
    <2> QED
        BY <2>1 DEF DepositsArePaid
<1>2. CASE UNCHANGED <<held, paid>>
    BY <1>2 DEF DepositsArePaid
<1> QED
    BY <1>1, <1>2 DEF Step, BeginCreate, DeployFirst, InsertVault, BeginInvite, CheckUnassigned,
       InsertInvite, BeginReassign, ReassignOnChain, ExpireInvites, BeginRespond, Decline, Accept, HandOver,
       DeployOnAcceptance, PlaceContract, Fail, rows

LEMMA InitHolds == Init => IInv
<1> SUFFICES ASSUME Init PROVE IInv
    OBVIOUS
<1>1. \A c \in Calls : call[c].pc = "idle"
    BY DEF Init, Idle
<1>2. TypeOK
    BY DEF Init, TypeOK, Idle, CallTypes, VaultRows, Existing
<1>3. \A v \in Vaults : vault[v] # None => /\ vault[v].address = None /\ vault[v].freelancer = None
                                           /\ vault[v].funded => v \in paid
    BY DEF Init, Existing
<1>4. held = {} /\ \A i \in Invites : invite[i] = None
    BY DEF Init
<1> QED
    BY <1>1, <1>2, <1>3, <1>4
    DEF IInv, Structure, Knows, Distinct, RowOK, InvitesOK, Agreement, DepositsArePaid

LEMMA NextHolds == IInv /\ [Next]_vars => IInv'
<1> SUFFICES ASSUME IInv, [Next]_vars PROVE IInv'
    OBVIOUS
<1>1. ASSUME NEW c \in Calls, Step(c) PROVE IInv'
    <2>1. Structure'
        <3>1. PICK to \in CallTypes : Go(c, to)
            BY <1>1, StepMoves DEF IInv, Structure
        <3>2. call' \in [Calls -> CallTypes]
            BY <3>1, StoredCall DEF IInv, Structure
        <3>3. TypeOK'
            BY <1>1, <3>2, StepTyped DEF IInv, Structure, TypeOK
        <3> QED
            BY <1>1, <3>3, OthersKnow, StepRows DEF IInv, Structure
    <2>2. \A v \in Vaults : Agreement(v)'
        BY <1>1, StepAgrees DEF IInv
    <2>3. DepositsArePaid'
        BY <1>1, StepDeposits DEF IInv
    <2> QED
        BY <2>1, <2>2, <2>3 DEF IInv
<1>2. CASE UNCHANGED vars
    BY <1>2 DEF vars, IInv, Structure, TypeOK, Knows, Distinct, RowOK, InvitesOK, Agreement, HandingOver,
       Handing, DepositsArePaid
<1> QED
    BY <1>1, <1>2, EnvironmentKeeps DEF Next

\* The invariant holds of every behaviour: each step of a call and of the
\* environment keeps it.
THEOREM Invariance == Spec => []IInv
BY InitHolds, NextHolds, PTL DEF Spec

\* Every variable stays in its type.
THEOREM TypeCorrect == Spec => []TypeOK
<1>1. IInv => TypeOK
    BY DEF IInv, Structure
<1> QED
    BY <1>1, Invariance, PTL

\* Row and contract name the same freelancer, for any number of invitations
\* and concurrent acceptances, unless the agreement was put in doubt.
THEOREM LinkedIsPaid == Spec => []PaysLinked
<1>1. IInv => PaysLinked
    <2> SUFFICES ASSUME IInv, NEW v \in Existing \ doubt, vault[v].freelancer # None,
                        vault[v].address # None, HandingOver(v) = {}
                 PROVE  contract[vault[v].address].pays = vault[v].freelancer
        BY DEF PaysLinked
    <2>1. \A c \in Calls : ~Handing(c, v)
        BY DEF Handing, HandingOver
    <2> QED
        BY <2>1 DEF IInv, Agreement, Existing
<1> QED
    BY <1>1, Invariance, PTL

\* The treasury deposits only for a vault whose client has paid.
THEOREM OnlyPaidIsDeposited == Spec => []DepositsArePaid
<1>1. IInv => DepositsArePaid
    BY DEF IInv
<1> QED
    BY <1>1, Invariance, PTL
=============================================================================
