---------------------------- MODULE VaultAssignment ----------------------------
(***************************************************************************)
(* Whom a vault is for.  VaultsService.create deploys the escrow contract, *)
(* writes the row and sends the first invitation; InvitesService.create    *)
(* sends more, updateFreelancer replaces them, and the freelancer who      *)
(* accepts one is written into the row and then into the contract.         *)
(*                                                                         *)
(* The row says who is credited in the ledger, the contract who is paid in *)
(* tokens.  No transaction spans both, so they differ while a call is      *)
(* between them and after some that never get there.                       *)
(*                                                                         *)
(* The LOCK entry that accepting writes is in VaultFunding, the wallets'   *)
(* addresses are in PrivyLogin.  Nothing compares expiresAt with the time. *)
(***************************************************************************)
CONSTANTS Users,      \* freelancers, by email
          Vaults,     \* ids of vaults that are or will be
          Contracts,  \* addresses of deployed contracts
          Invites,    \* tokens
          Calls,      \* calls of a handler under way at a time
          Arbiter,    \* ARBITER_ADDRESS, the placeholder payee
          None

Payees       == Users \cup {Arbiter}
VaultRows    == [address : Contracts \cup {None}, freelancer : Users \cup {None}, funded : BOOLEAN]
ContractRows == [for : Vaults, pays : Payees]
InviteRows   == [vault : Vaults, user : Users,
                 status : {"PENDING", "ACCEPTED", "DECLINED", "EXPIRED"}]

ASSUME AssignmentConstants ==
    /\ Arbiter \notin Users
    /\ None \notin Payees \cup Vaults \cup Contracts \cup VaultRows \cup ContractRows \cup InviteRows

VARIABLES
    wallet,    \* Wallet.address of each user: "none", "pending" (not an address) or "real"
    role,      \* User.role is "NONE" or another
    vault,     \* Vault rows: address, freelancerId and whether the status is FUNDED
    contract,  \* deployed contracts: the vault they are for (history) and whom they pay
    held,      \* vault and contract of each deposit the treasury made on an acceptance
    invite,    \* Invite rows
    call,      \* each call: how far it is and what it has read
    paid,      \* history: vaults whose client has paid
    doubt      \* history: vaults for which a hand-over was skipped, lost, overtaken or undone

vars == <<wallet, role, vault, contract, held, invite, call, paid, doubt>>
rows == <<wallet, role, vault, contract, held, invite, paid, doubt>>

Existing == {v \in Vaults : vault[v] # None}
Idle == [pc |-> "idle"]
Go(c, to) == call' = [call EXCEPT ![c] = to]

\* Vaults from before contracts were deployed at creation have none.
Init ==
    /\ wallet \in [Users -> {"none", "pending", "real"}]
    /\ role = [u \in Users |-> "NONE"]
    /\ vault \in [Vaults -> {None} \cup [address : {None}, freelancer : {None}, funded : BOOLEAN]]
    /\ contract = [a \in Contracts |-> None]
    /\ held = {}
    /\ invite = [i \in Invites |-> None]
    /\ call = [c \in Calls |-> Idle]
    /\ paid = {v \in Existing : vault[v].funded}
    /\ doubt = {}
-----------------------------------------------------------------------------
\* A login links a wallet, at first perhaps under a placeholder address.
WalletLinked ==
    /\ \E u \in Users, w \in {"pending", "real"} :
          wallet[u] # "real" /\ wallet[u] # w /\ wallet' = [wallet EXCEPT ![u] = w]
    /\ UNCHANGED <<role, vault, contract, held, invite, call, paid, doubt>>

\* A webhook reports the client's payment.
PaymentReported ==
    /\ \E v \in Existing :
          /\ ~vault[v].funded
          /\ vault' = [vault EXCEPT ![v] = [address |-> @.address, freelancer |-> @.freelancer,
                                            funded |-> TRUE]]
          /\ paid' = paid \cup {v}
    /\ UNCHANGED <<wallet, role, contract, held, invite, call, doubt>>
-----------------------------------------------------------------------------
\* Whom a contract is to pay for the invited user, None for an address that no
\* transaction can be built from.
PayeeFor(u) ==
    IF u = None \/ wallet[u] = "none" THEN Arbiter
    ELSE IF wallet[u] = "pending" THEN None ELSE u

\* Mutation: the placeholder address of an unfinished wallet is passed on.
BeginCreateAnyAddress(c) ==
    /\ call[c].pc = "idle"
    /\ \E u \in Users \cup {None} : Go(c, [pc |-> "creating", user |-> u, pays |-> PayeeFor(u)])
    /\ UNCHANGED rows

\* VaultsService.create, unless Redis has an answer for the idempotency key:
\* then the call ends at once, and that is all such an answer is for.
BeginCreate(c) ==
    /\ call[c].pc = "idle"
    /\ \E u \in Users \cup {None} :
          PayeeFor(u) # None /\ Go(c, [pc |-> "creating", user |-> u, pays |-> PayeeFor(u)])
    /\ UNCHANGED rows

\* The contract is deployed before there is a row; the id is the row's to be.
DeployFirst(c) ==
    /\ call[c].pc = "creating"
    /\ \E a \in Contracts, v \in Vaults \ Existing :
          /\ contract[a] = None /\ \A b \in Contracts : contract[b] # None => contract[b].for # v
          /\ contract' = [contract EXCEPT ![a] = [for |-> v, pays |-> call[c].pays]]
          /\ Go(c, [pc |-> "inserting", user |-> call[c].user, vault |-> v, address |-> a])
    /\ UNCHANGED <<wallet, role, vault, held, invite, paid, doubt>>

Inviting(v, u) == [pc |-> "inviting", vault |-> v, user |-> u]

InsertVault(c) ==
    /\ call[c].pc = "inserting"
    /\ vault' = [vault EXCEPT ![call[c].vault] = [address |-> call[c].address, freelancer |-> None,
                                                  funded |-> FALSE]]
    /\ Go(c, IF call[c].user = None THEN Idle ELSE Inviting(call[c].vault, call[c].user))
    /\ UNCHANGED <<wallet, role, contract, held, invite, paid, doubt>>
-----------------------------------------------------------------------------
\* InvitesService.create, from its own route.
BeginInvite(c) ==
    /\ call[c].pc = "idle"
    /\ \E v \in Existing, u \in Users : Go(c, Inviting(v, u))
    /\ UNCHANGED rows

CheckUnassigned(c) ==
    /\ call[c].pc = "inviting"
    /\ Go(c, IF vault[call[c].vault].freelancer # None THEN Idle
             ELSE [pc |-> "unassigned", vault |-> call[c].vault, user |-> call[c].user])
    /\ UNCHANGED rows

InsertInvite(c) ==
    /\ call[c].pc = "unassigned"
    /\ \E i \in Invites :
          /\ invite[i] = None
          /\ invite' = [invite EXCEPT ![i] = [vault |-> call[c].vault, user |-> call[c].user,
                                              status |-> "PENDING"]]
    /\ Go(c, Idle)
    /\ UNCHANGED <<wallet, role, vault, contract, held, paid, doubt>>
-----------------------------------------------------------------------------
\* VaultsService.updateFreelancer: the vault and the user's wallet are read.  The
\* update of the row that follows sets nothing.
BeginReassign(c) ==
    /\ call[c].pc = "idle"
    /\ \E v \in Existing, u \in Users :
          Go(c, [pc |-> IF vault[v].address = None THEN "expiring" ELSE "reassigning",
                 vault |-> v, user |-> u, address |-> vault[v].address, pays |-> PayeeFor(u)])
    /\ UNCHANGED rows

Expiring(c) == [pc |-> "expiring", vault |-> call[c].vault, user |-> call[c].user,
                address |-> call[c].address, pays |-> call[c].pays]

\* The contract is handed over at once, although nobody has accepted; a failure
\* is logged and the call goes on.
ReassignOnChain(c) ==
    /\ call[c].pc = "reassigning"
    /\ \/ UNCHANGED <<contract, doubt>>
       \/ /\ call[c].pays # None
          /\ contract' = [contract EXCEPT ![call[c].address] = [for |-> @.for, pays |-> call[c].pays]]
          /\ doubt' = doubt \cup {v \in {call[c].vault} : vault[v].freelancer # None}
    /\ Go(c, Expiring(c))
    /\ UNCHANGED <<wallet, role, vault, held, invite, paid>>

\* Older invitations are called in, then InvitesService.create sends the new one.
ExpireInvites(c) ==
    /\ call[c].pc = "expiring"
    /\ invite' = [i \in Invites |->
                    IF invite[i] # None /\ invite[i].vault = call[c].vault /\ invite[i].status = "PENDING"
                    THEN [vault |-> invite[i].vault, user |-> invite[i].user, status |-> "EXPIRED"]
                    ELSE invite[i]]
    /\ Go(c, Inviting(call[c].vault, call[c].user))
    /\ UNCHANGED <<wallet, role, vault, contract, held, paid, doubt>>
-----------------------------------------------------------------------------
\* InvitesService.respond: the invitation is read before the transaction.
BeginRespond(c) ==
    /\ call[c].pc = "idle"
    /\ \E i \in Invites :
          /\ invite[i] # None /\ invite[i].status = "PENDING"
          /\ Go(c, [pc |-> "responding", invite |-> i])
    /\ UNCHANGED rows

Answered(i, status) ==
    invite' = [invite EXCEPT ![i] = [vault |-> @.vault, user |-> @.user, status |-> status]]

Decline(c) ==
    /\ call[c].pc = "responding"
    /\ Answered(call[c].invite, "DECLINED")
    /\ Go(c, Idle)
    /\ UNCHANGED <<wallet, role, vault, contract, held, paid, doubt>>

\* Calls that have written a vault's row and not yet its contract.
HandingOver(v) == {c \in Calls : /\ call[c].pc \in {"handing", "deploying", "placing"}
                                 /\ call[c].vault = v}

\* What is left to do once the row is written: the existing contract is handed
\* over, or one is deployed, or, without a proper address, neither.
AfterAccept(v, u) ==
    IF wallet[u] # "real" THEN Idle
    ELSE IF vault[v].address # None
         THEN [pc |-> "handing", vault |-> v, user |-> u, address |-> vault[v].address]
         ELSE [pc |-> "deploying", vault |-> v, user |-> u, funded |-> vault[v].funded]

\* Mutation: only a contract made for a guest is handed over.
AcceptGuest(c) ==
    /\ call[c].pc = "responding"
    /\ LET i == call[c].invite
           v == invite[i].vault
           u == invite[i].user
       IN  /\ Answered(i, "ACCEPTED")
           /\ role' = [role EXCEPT ![u] = "FREELANCER"]
           /\ vault' = [vault EXCEPT ![v] = [address |-> @.address, freelancer |-> u,
                                             funded |-> @.funded]]
           /\ doubt' = doubt \cup {w \in {v} : \/ wallet[u] # "real"
                                               \/ \E d \in HandingOver(w) : call[d].user # u}
           /\ Go(c, IF /\ vault[v].address # None
                       /\ contract[vault[v].address].pays # Arbiter
                    THEN Idle ELSE AfterAccept(v, u))
    /\ UNCHANGED <<wallet, contract, held, paid>>

\* The transaction, in which the row is written whoever is in it.
Accept(c) ==
    /\ call[c].pc = "responding"
    /\ LET i == call[c].invite
           v == invite[i].vault
           u == invite[i].user
       IN  /\ Answered(i, "ACCEPTED")
           /\ role' = [role EXCEPT ![u] = "FREELANCER"]
           /\ vault' = [vault EXCEPT ![v] = [address |-> @.address, freelancer |-> u,
                                             funded |-> @.funded]]
           /\ doubt' = doubt \cup {w \in {v} : \/ wallet[u] # "real"
                                               \/ \E d \in HandingOver(w) : call[d].user # u}
           /\ Go(c, AfterAccept(v, u))
    /\ UNCHANGED <<wallet, contract, held, paid>>

HandOver(c) ==
    /\ call[c].pc = "handing"
    /\ contract' = [contract EXCEPT ![call[c].address] = [for |-> @.for, pays |-> call[c].user]]
    /\ Go(c, Idle)
    /\ UNCHANGED <<wallet, role, vault, held, invite, paid, doubt>>

DeployOnAcceptance(c) ==
    /\ call[c].pc = "deploying"
    /\ \E a \in Contracts :
          /\ contract[a] = None
          /\ contract' = [contract EXCEPT ![a] = [for |-> call[c].vault, pays |-> call[c].user]]
          /\ Go(c, [pc |-> "placing", vault |-> call[c].vault, user |-> call[c].user,
                    funded |-> call[c].funded, address |-> a])
    /\ UNCHANGED <<wallet, role, vault, held, invite, paid, doubt>>

Depositing(c) == [pc |-> "depositing", vault |-> call[c].vault, address |-> call[c].address]

\* Mutation: a deposit follows when the status, read again, is FUNDED.
PlaceContractReread(c) ==
    /\ call[c].pc = "placing"
    /\ vault' = [vault EXCEPT ![call[c].vault] = [address |-> call[c].address,
                                                  freelancer |-> @.freelancer, funded |-> TRUE]]
    /\ Go(c, IF vault'[call[c].vault].funded THEN Depositing(c) ELSE Idle)
    /\ UNCHANGED <<wallet, role, contract, held, invite, paid, doubt>>

\* The status becomes FUNDED, paid or not; a deposit follows if it already was
\* when the transaction read it.
PlaceContract(c) ==
    /\ call[c].pc = "placing"
    /\ vault' = [vault EXCEPT ![call[c].vault] = [address |-> call[c].address,
                                                  freelancer |-> @.freelancer, funded |-> TRUE]]
    /\ Go(c, IF call[c].funded THEN Depositing(c) ELSE Idle)
    /\ UNCHANGED <<wallet, role, contract, held, invite, paid, doubt>>

DepositToVault(c) ==
    /\ call[c].pc = "depositing"
    /\ held' = held \cup {[vault |-> call[c].vault, address |-> call[c].address]}
    /\ Go(c, Idle)
    /\ UNCHANGED <<wallet, role, vault, contract, invite, paid, doubt>>

\* The call ends early: a statement or a contract call fails, which respond only
\* logs, or the process dies.
Fail(c) ==
    /\ call[c].pc # "idle"
    /\ doubt' = doubt \cup {v \in Vaults : c \in HandingOver(v)}
    /\ Go(c, Idle)
    /\ UNCHANGED <<wallet, role, vault, contract, held, invite, paid>>

Step(c) ==
    \/ BeginCreate(c) \/ DeployFirst(c) \/ InsertVault(c)
    \/ BeginInvite(c) \/ CheckUnassigned(c) \/ InsertInvite(c)
    \/ BeginReassign(c) \/ ReassignOnChain(c) \/ ExpireInvites(c)
    \/ BeginRespond(c) \/ Decline(c) \/ Accept(c) \/ HandOver(c)
    \/ DeployOnAcceptance(c) \/ PlaceContract(c) \/ DepositToVault(c) \/ Fail(c)

Next == WalletLinked \/ PaymentReported \/ \E c \in Calls : Step(c)

Spec == Init /\ [][Next]_vars
-----------------------------------------------------------------------------
CallTypes ==
    {Idle}
      \cup [pc : {"creating"}, user : Users \cup {None}, pays : Payees]
      \cup [pc : {"inserting"}, user : Users \cup {None}, vault : Vaults, address : Contracts]
      \cup [pc : {"inviting", "unassigned"}, vault : Vaults, user : Users]
      \cup [pc : {"reassigning"}, vault : Vaults, user : Users, address : Contracts,
            pays : Payees \cup {None}]
      \cup [pc : {"expiring"}, vault : Vaults, user : Users, address : Contracts \cup {None},
            pays : Payees \cup {None}]
      \cup [pc : {"responding"}, invite : Invites]
      \cup [pc : {"handing"}, vault : Vaults, user : Users, address : Contracts]
      \cup [pc : {"deploying"}, vault : Vaults, user : Users, funded : BOOLEAN]
      \cup [pc : {"placing"}, vault : Vaults, user : Users, funded : BOOLEAN, address : Contracts]
      \cup [pc : {"depositing"}, vault : Vaults, address : Contracts]

TypeOK ==
    /\ wallet \in [Users -> {"none", "pending", "real"}]
    /\ role \in [Users -> {"NONE", "FREELANCER"}]
    /\ vault \in [Vaults -> {None} \cup VaultRows]
    /\ contract \in [Contracts -> {None} \cup ContractRows]
    /\ held \subseteq [vault : Vaults, address : Contracts]
    /\ invite \in [Invites -> {None} \cup InviteRows]
    /\ call \in [Calls -> CallTypes]
    /\ paid \subseteq Vaults /\ doubt \subseteq Vaults

\* Row and contract name the same freelancer once every acceptance of the vault
\* has reached the contract, whoever took the vault over from whom, unless a
\* hand-over was skipped or lost, two users' acceptances overlapped, or the
\* client reassigned a vault that had its freelancer.
PaysLinked ==
    \A v \in Existing \ doubt :
        (/\ vault[v].freelancer # None /\ vault[v].address # None
         /\ HandingOver(v) = {})
        => contract[vault[v].address].pays = vault[v].freelancer

\* On an acceptance the treasury deposits only for a vault whose client has
\* paid, although deploying its contract makes any vault FUNDED.
DepositsArePaid == \A x \in held : x.vault \in paid
=============================================================================
