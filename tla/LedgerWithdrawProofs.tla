------------------------- MODULE LedgerWithdrawProofs -------------------------
(***************************************************************************)
(* One idempotency key debits the ledger at most once, for any number of   *)
(* concurrent calls, keys, amounts and rates: the entries of a key and its *)
(* record are written by one transaction, and the record's key is unique.  *)
(*                                                                         *)
(* The balance may be overdrawn, for it is read before the transaction     *)
(* that takes from it; by how much is proved here, with what sums over     *)
(* finite sets are worth by induction, and so that the ledger implements   *)
(* OverdraftAccount.                                                       *)
(***************************************************************************)
EXTENDS LedgerWithdraw, FiniteSetTheorems, WellFoundedInduction, TLAPS

\* The references and ids in use.
References == {Reference(n) : n \in 1 .. MaxTries}
OrderIds == {OrderId(n) : n \in 1 .. MaxTries}

\* The shape of a call, by how far it is.
LEMMA CallShapes ==
    ASSUME TypeOK, NEW c \in Calls
    PROVE  /\ call[c].pc = "idle" => call[c] = Idle
           /\ call[c].pc = "verified" => call[c].key \in Keys /\ call[c].local \in Locals
           /\ call[c].pc \in {"rated", "covered", "ordered"}
                => call[c].key \in Keys /\ call[c].usd \in Dollars
           /\ call[c].pc = "ordered" => call[c].ref \in References
<1>1. call[c] \in CallTypes
    BY DEF TypeOK
<1> QED
    BY <1>1 DEF CallTypes, Idle, References

\* Storing a well-typed call leaves all calls well typed.
LEMMA StoredCall ==
    ASSUME TypeOK, NEW c \in Calls, NEW to \in CallTypes, call' = [call EXCEPT ![c] = to]
    PROVE  call' \in [Calls -> CallTypes]
BY DEF TypeOK

\* The parts of TypeOK that a call's own steps leave alone.
LEMMA IdleIsACall == Idle \in CallTypes
BY DEF Idle, CallTypes

\* An amount converted at a rate that withdraw may use.
LEMMA Conversion ==
    ASSUME NEW l \in Locals, NEW r \in UsableRates
    PROVE  l \div r \in Dollars
<1> DEFINE At(q) == l \div q
<1>1. At(r) \in {At(q) : q \in UsableRates}
    OBVIOUS
<1>2. {At(q) : q \in UsableRates} \in {{k \div q : q \in UsableRates} : k \in Locals}
    OBVIOUS
<1> QED
    BY <1>1, <1>2 DEF Dollars

\* Every step of a call keeps the types.
LEMMA CallTyped ==
    ASSUME TypeOK, NEW c \in Calls, Step(c)
    PROVE  TypeOK'
<1> USE LedgerConstants
<1>1. CASE CheckKyc(c)
    <2>1. PICK k \in Keys, l \in Locals : Advance(c, [pc |-> "verified", key |-> k, local |-> l])
        BY <1>1 DEF CheckKyc
    <2>2. [pc |-> "verified", key |-> k, local |-> l] \in CallTypes
        BY DEF CallTypes
    <2> QED
        BY <1>1, <2>1, <2>2, StoredCall DEF CheckKyc, Advance, TypeOK
<1>2. CASE FindRecord(c)
    <2>1. call[c].key \in Keys /\ call[c].local \in Locals
        BY <1>2, CallShapes DEF FindRecord
    <2>2. \E to \in CallTypes : Advance(c, to)
        <3>1. CASE Advance(c, Idle)
            BY <3>1, IdleIsACall
        <3>2. CASE \E r \in UsableRates :
                      Advance(c, [pc |-> "rated", key |-> call[c].key,
                                  usd |-> call[c].local \div r])
            <4>1. PICK r \in UsableRates :
                      Advance(c, [pc |-> "rated", key |-> call[c].key,
                                  usd |-> call[c].local \div r])
                BY <3>2
            <4>2. call[c].local \div r \in Dollars
                BY <2>1, <4>1, Conversion
            <4>3. [pc |-> "rated", key |-> call[c].key,
                   usd |-> call[c].local \div r] \in CallTypes
                <5> DEFINE usd == call[c].local \div r
                <5>1. usd \in Dollars
                    BY <4>2
                <5> HIDE DEF usd
                <5>2. [pc |-> "rated", key |-> call[c].key, usd |-> usd] \in CallTypes
                    BY <2>1, <5>1 DEF CallTypes
                <5> QED
                    BY <5>2 DEF usd
            <4> QED
                BY <4>1, <4>3
        <3> QED
            BY <1>2, <3>1, <3>2 DEF FindRecord
    <2> QED
        BY <1>2, <2>2, StoredCall DEF FindRecord, Advance, TypeOK
<1>3. CASE CheckBalance(c)
    <2>1. Covered(c) \in CallTypes
        <3>1. call[c].key \in Keys /\ call[c].usd \in Dollars
            BY <1>3, CallShapes DEF CheckBalance
        <3> QED
            BY <3>1 DEF Covered, CallTypes
    <2>2. \E to \in {Idle, Covered(c)} : Advance(c, to)
        BY <1>3 DEF CheckBalance
    <2> QED
        BY <1>3, <2>1, <2>2, IdleIsACall, StoredCall DEF CheckBalance, Advance, TypeOK
<1>4. CASE InitiateOfframp(c)
    <2>1. call[c].key \in Keys /\ call[c].usd \in Dollars
        BY <1>4, CallShapes DEF InitiateOfframp
    <2>2. tries + 1 \in 1 .. MaxTries
        BY <1>4 DEF InitiateOfframp, TypeOK
    <2>3. call' \in [Calls -> CallTypes]
        <3>1. [pc |-> "ordered", key |-> call[c].key,
               usd |-> call[c].usd, ref |-> Reference(tries + 1)] \in CallTypes
            BY <2>1, <2>2 DEF CallTypes
        <3> QED
            BY <1>4, <3>1, StoredCall DEF InitiateOfframp, Advance
    <2>4. Order(c) \in [id : OrderIds, key : Keys,
                   state : {"open", "settled", "failed"}]
        BY <2>1, <2>2 DEF Order, OrderIds
    <2>5. orders' \subseteq [id : OrderIds, key : Keys,
                             state : {"open", "settled", "failed"}]
        BY <1>4, <2>4 DEF InitiateOfframp, CallOfframp, TypeOK, OrderIds
    <2>6. tries' \in 0 .. MaxTries
        BY <1>4, <2>2 DEF InitiateOfframp
    <2> QED
        BY <1>4, <2>3, <2>5, <2>6 DEF InitiateOfframp, Advance, TypeOK, OrderIds
<1>5. CASE Commit(c)
    <2>1. call[c].key \in Keys /\ call[c].usd \in Dollars /\ call[c].ref \in References
        BY <1>5, CallShapes DEF Commit
    <2>2. Entry(c) \in [ref : References, key : Keys, usd : Dollars,
                        status : {"PENDING", "FAILED"}]
        BY <2>1 DEF Entry
    <2>3. call' \in [Calls -> CallTypes]
        BY <1>5, IdleIsACall, StoredCall DEF Commit
    <2> QED
        BY <1>5, <2>1, <2>2, <2>3 DEF Commit, TypeOK, References
<1>6. CASE Fail(c)
    BY <1>6, IdleIsACall, StoredCall DEF Fail, Advance, TypeOK
<1> QED
    BY <1>1, <1>2, <1>3, <1>4, <1>5, <1>6 DEF Step

\* Paycrest's webhook changes no entry: no entry bears the id of an order.
LEMMA WebhookFindsNothing ==
    ASSUME TypeOK, HandlePaycrestWebhook
    PROVE  entries' = entries
<1>1. PICK o \in orders :
          entries' = {IF o.state = "failed" /\ e.ref = o.id
                      THEN [ref |-> e.ref, key |-> e.key, usd |-> e.usd, status |-> "FAILED"]
                      ELSE e : e \in entries}
    BY DEF HandlePaycrestWebhook
<1>2. \A e \in entries : e.ref # o.id
    BY DEF TypeOK, Reference, OrderId
<1> QED
    BY <1>1, <1>2

\* Whatever calls do, and however they fail, every variable of LedgerWithdraw
\* keeps its type.
THEOREM TypeCorrect == Spec => []TypeOK
<1> USE LedgerConstants
<1>1. Init => TypeOK
    BY IdleIsACall DEF Init, TypeOK
<1>2. TypeOK /\ [Next]_vars => TypeOK'
    <2> SUFFICES ASSUME TypeOK, [Next]_vars PROVE TypeOK'
        OBVIOUS
    <2>1. CASE \E c \in Calls : Step(c)
        BY <2>1, CallTyped
    <2>2. CASE Earn
        BY <2>2 DEF Earn, TypeOK
    <2>3. CASE KycDecided
        BY <2>3 DEF KycDecided, TypeOK
    <2>4. CASE PaycrestDecides
        BY <2>4 DEF PaycrestDecides, TypeOK
    <2>5. CASE HandlePaycrestWebhook
        BY <2>5, WebhookFindsNothing DEF HandlePaycrestWebhook, TypeOK
    <2>6. CASE UNCHANGED vars
        BY <2>6 DEF vars, TypeOK
    <2> QED
        BY <2>1, <2>2, <2>3, <2>4, <2>5, <2>6 DEF Next
<1> QED
    BY <1>1, <1>2, PTL DEF Spec
-----------------------------------------------------------------------------
\* What makes KeyDebitsOnce inductive: no entry without the record of its key.
IInv ==
    /\ KeyDebitsOnce
    /\ \A e \in entries : e.key \in records

\* A call's steps: only Commit adds an entry, and its key has no record yet.
LEMMA StepKeepsKeys ==
    ASSUME TypeOK, IInv, NEW c \in Calls, Step(c)
    PROVE  IInv'
<1>1. CASE Commit(c)
    <2>1. \A e \in entries : e.key # Entry(c).key
        BY <1>1 DEF Commit, Entry, IInv
    <2>2. entries' = entries \cup {Entry(c)} /\ records' = records \cup {Entry(c).key}
        BY <1>1 DEF Commit, Entry
    <2> QED
        BY <2>1, <2>2 DEF IInv, KeyDebitsOnce
<1>2. CASE entries' = entries /\ records' = records
    BY <1>2 DEF IInv, KeyDebitsOnce
<1>3. CheckKyc(c) \/ FindRecord(c) \/ CheckBalance(c) \/ InitiateOfframp(c) \/ Fail(c)
          => entries' = entries /\ records' = records
    BY DEF CheckKyc, FindRecord, CheckBalance, InitiateOfframp, Fail, Advance
<1> QED
    BY <1>1, <1>2, <1>3 DEF Step

\* IInv is an invariant.
LEMMA KeysInv == Spec => []IInv
<1>1. Init => IInv
    BY DEF Init, IInv, KeyDebitsOnce
<1>2. TypeOK /\ IInv /\ [Next]_vars => IInv'
    <2> SUFFICES ASSUME TypeOK, IInv, [Next]_vars PROVE IInv'
        OBVIOUS
    <2>1. CASE \E c \in Calls : Step(c)
        BY <2>1, StepKeepsKeys
    <2>2. CASE HandlePaycrestWebhook
        BY <2>2, WebhookFindsNothing DEF HandlePaycrestWebhook, IInv, KeyDebitsOnce
    <2>3. CASE Earn \/ KycDecided \/ PaycrestDecides \/ UNCHANGED vars
        BY <2>3 DEF Earn, KycDecided, PaycrestDecides, vars, IInv, KeyDebitsOnce
    <2> QED
        BY <2>1, <2>2, <2>3 DEF Next
<1> QED
    BY <1>1, <1>2, TypeCorrect, PTL DEF Spec

\* However many calls bear one key, at once or after failures, at most one of
\* them debits the ledger.
THEOREM OneDebitPerKey == Spec => []KeyDebitsOnce
<1>1. IInv => KeyDebitsOnce
    BY DEF IInv
<1> QED
    BY <1>1, KeysInv, PTL
-----------------------------------------------------------------------------
\* Induction over the subsets of a finite set: G holds them all when it holds a
\* set whose proper subsets it holds.
LEMMA SetInduction ==
    ASSUME NEW S, IsFiniteSet(S), NEW G,
           \A T \in SUBSET S : (\A U \in SUBSET T : U # T => U \in G) => T \in G
    PROVE  \A T \in SUBSET S : T \in G
<1> DEFINE B == {T \in SUBSET S : T \notin G}
<1>1. SUFFICES ASSUME B # {} PROVE FALSE
    OBVIOUS
<1>2. IsWellFoundedOn(StrictSubsetOrdering(S), FiniteSubsetsOf(S))
    BY FS_StrictSubsetOrderingWellFounded
<1>3. B \subseteq FiniteSubsetsOf(S)
    BY FS_FiniteSubsetsOfFinite
<1> HIDE DEF B
<1>4. PICK T \in B : \A U \in B : <<U, T>> \notin StrictSubsetOrdering(S)
    BY <1>1, <1>2, <1>3, WFMin
<1>5. \A U \in SUBSET T : U # T => U \in G
    BY <1>4 DEF StrictSubsetOrdering, B
<1> QED
    BY <1>5 DEF B

\* The sum of the values that D has on a finite set, as FiniteSetsExt folds it:
\* one element after another, each chosen from those that are left.
Picked(T) == CHOOSE x \in T : TRUE
IsIter(g, D, S) ==
    g = [T \in SUBSET S |-> IF T = {} THEN 0 ELSE D[Picked(T)] + g[T \ {Picked(T)}]]

Sum(D, S) == (CHOOSE g : IsIter(g, D, S))[S]
Unfolded(D, T) == IF T = {} THEN 0 ELSE D[Picked(T)] + Sum(D, T \ {Picked(T)})

\* The element chosen is one of the set's.
LEMMA PickedIn == ASSUME NEW T, T # {} PROVE Picked(T) \in T
BY DEF Picked

\* The sum satisfies its recursion on every finite set.
LEMMA SumUnfolds ==
    ASSUME NEW S, IsFiniteSet(S), NEW D
    PROVE  Sum(D, S) = Unfolded(D, S)
<1> DEFINE G == {T \in SUBSET S : Sum(D, T) = Unfolded(D, T)}
<1>1. ASSUME NEW T \in SUBSET S, \A U \in SUBSET T : U # T => U \in G
      PROVE  T \in G
    <2> DEFINE h == [U \in SUBSET T |-> Unfolded(D, U)]
    <2>1. ASSUME NEW U \in SUBSET T, U # {}
          PROVE  Sum(D, U \ {Picked(U)}) = h[U \ {Picked(U)}]
        <3>1. U \ {Picked(U)} \in SUBSET T /\ U \ {Picked(U)} # T
            BY <2>1, PickedIn
        <3> QED
            BY <1>1, <3>1
    <2>2. IsIter(h, D, T)
        <3>1. \A U \in SUBSET T : h[U] = IF U = {} THEN 0 ELSE D[Picked(U)] + h[U \ {Picked(U)}]
            BY <2>1 DEF Unfolded
        <3> HIDE DEF h
        <3>2. h = [U \in SUBSET T |-> h[U]]
            BY DEF h
        <3> QED
            BY <3>1, <3>2 DEF IsIter
    <2> DEFINE g == CHOOSE f : IsIter(f, D, T)
    <2>3. IsIter(g, D, T)
        BY <2>2
    <2> HIDE DEF g, h
    <2>4. \A U \in SUBSET T : U \in {V \in SUBSET T : g[V] = h[V]}
        <3> DEFINE E == {V \in SUBSET T : g[V] = h[V]}
        <3>1. IsFiniteSet(T)
            BY FS_Subset
        <3>2. ASSUME NEW U \in SUBSET T, \A V \in SUBSET U : V # U => V \in E
              PROVE  U \in E
            <4>1. CASE U = {}
                BY <4>1, <2>2, <2>3 DEF IsIter
            <4>2. CASE U # {}
                <5>1. U \ {Picked(U)} \in SUBSET U /\ U \ {Picked(U)} # U
                    BY <4>2, PickedIn
                <5>2. g[U \ {Picked(U)}] = h[U \ {Picked(U)}]
                    BY <3>2, <5>1
                <5> QED
                    BY <4>2, <5>2, <2>2, <2>3 DEF IsIter
            <4> QED
                BY <4>1, <4>2
        <3> HIDE DEF E
        <3>3. \A U \in SUBSET T : U \in E
            BY <3>1, <3>2, SetInduction
        <3> QED
            BY <3>3 DEF E
    <2>5. Sum(D, T) = h[T]
        BY <2>4 DEF Sum, g
    <2> QED
        BY <2>5 DEF h
<1> HIDE DEF G
<1>2. S \in G
    BY <1>1, SetInduction
<1> QED
    BY <1>2 DEF G

\* Nothing sums to 0.
LEMMA SumEmpty == ASSUME NEW D PROVE Sum(D, {}) = 0
BY SumUnfolds, FS_EmptySet DEF Unfolded

\* Natural numbers sum to a natural number.
LEMMA SumType ==
    ASSUME NEW S, IsFiniteSet(S), NEW D, \A x \in S : D[x] \in Nat
    PROVE  Sum(D, S) \in Nat
<1> DEFINE G == {T \in SUBSET S : Sum(D, T) \in Nat}
<1>1. ASSUME NEW T \in SUBSET S, \A U \in SUBSET T : U # T => U \in G
      PROVE  T \in G
    <2>1. IsFiniteSet(T)
        BY FS_Subset
    <2>2. CASE T = {}
        BY <2>2, SumEmpty
    <2>3. CASE T # {}
        <3>1. T \ {Picked(T)} \in SUBSET T /\ T \ {Picked(T)} # T /\ D[Picked(T)] \in Nat
            BY <2>3, PickedIn
        <3>2. Sum(D, T) = D[Picked(T)] + Sum(D, T \ {Picked(T)})
            BY <2>1, <2>3, SumUnfolds DEF Unfolded
        <3> QED
            BY <1>1, <3>1, <3>2
    <2> QED
        BY <2>2, <2>3
<1> HIDE DEF G
<1>2. S \in G
    BY <1>1, SetInduction
<1> QED
    BY <1>2 DEF G

\* Any element can be the one that is added last.
LEMMA SumWithout ==
    ASSUME NEW S, IsFiniteSet(S), NEW D, \A x \in S : D[x] \in Nat, NEW x \in S
    PROVE  Sum(D, S) = D[x] + Sum(D, S \ {x})
<1> DEFINE G == {T \in SUBSET S : \A y \in T : Sum(D, T) = D[y] + Sum(D, T \ {y})}
<1>1. ASSUME NEW T \in SUBSET S, \A U \in SUBSET T : U # T => U \in G
      PROVE  T \in G
    <2> SUFFICES ASSUME NEW y \in T
                 PROVE  Sum(D, T) = D[y] + Sum(D, T \ {y})
        OBVIOUS
    <2> DEFINE p == Picked(T)
    <2>1. IsFiniteSet(T) /\ p \in T
        BY FS_Subset, PickedIn
    <2>2. Sum(D, T) = D[p] + Sum(D, T \ {p})
        BY <2>1, SumUnfolds DEF Unfolded
    <2> HIDE DEF p
    <2>3. CASE y = p
        BY <2>2, <2>3
    <2>4. CASE y # p
        <3>1. Sum(D, T \ {p}) = D[y] + Sum(D, (T \ {p}) \ {y})
            <4>1. T \ {p} \in SUBSET T /\ T \ {p} # T /\ y \in T \ {p}
                BY <2>1, <2>4
            <4> QED
                BY <1>1, <4>1
        <3>2. Sum(D, T \ {y}) = D[p] + Sum(D, (T \ {y}) \ {p})
            <4>1. T \ {y} \in SUBSET T /\ T \ {y} # T /\ p \in T \ {y}
                BY <2>1, <2>4
            <4> QED
                BY <1>1, <4>1
        <3>3. (T \ {p}) \ {y} = (T \ {y}) \ {p}
            OBVIOUS
        <3>4. IsFiniteSet((T \ {y}) \ {p})
            BY <2>1, FS_Subset
        <3>5. Sum(D, (T \ {y}) \ {p}) \in Nat /\ D[y] \in Nat /\ D[p] \in Nat
            BY <2>1, <3>4, SumType
        <3> QED
            BY <2>2, <3>1, <3>2, <3>3, <3>5
    <2> QED
        BY <2>3, <2>4
<1> HIDE DEF G
<1>2. S \in G
    BY <1>1, SetInduction
<1> QED
    BY <1>2 DEF G

\* Functions that agree on a set have one sum over it.
LEMMA SumSame ==
    ASSUME NEW S, IsFiniteSet(S), NEW D, NEW E, \A x \in S : D[x] = E[x]
    PROVE  Sum(D, S) = Sum(E, S)
<1> DEFINE G == {T \in SUBSET S : Sum(D, T) = Sum(E, T)}
<1>1. ASSUME NEW T \in SUBSET S, \A U \in SUBSET T : U # T => U \in G
      PROVE  T \in G
    <2>1. IsFiniteSet(T)
        BY FS_Subset
    <2>2. CASE T = {}
        BY <2>2, SumEmpty
    <2>3. CASE T # {}
        <3>1. T \ {Picked(T)} \in SUBSET T /\ T \ {Picked(T)} # T /\ Picked(T) \in S
            BY <2>3, PickedIn
        <3>2. Sum(D, T \ {Picked(T)}) = Sum(E, T \ {Picked(T)})
            BY <1>1, <3>1
        <3> QED
            BY <2>1, <2>3, <3>1, <3>2, SumUnfolds DEF Unfolded
    <2> QED
        BY <2>2, <2>3
<1> HIDE DEF G
<1>2. S \in G
    BY <1>1, SetInduction
<1> QED
    BY <1>2 DEF G

\* Numbers of at most m each sum to at most m times as many.
LEMMA SumBounded ==
    ASSUME NEW S, IsFiniteSet(S), NEW D, NEW m \in Nat,
           \A x \in S : D[x] \in Nat /\ D[x] <= m
    PROVE  Sum(D, S) <= Cardinality(S) * m
<1> DEFINE G == {T \in SUBSET S : Sum(D, T) <= Cardinality(T) * m}
<1>1. ASSUME NEW T \in SUBSET S, \A U \in SUBSET T : U # T => U \in G
      PROVE  T \in G
    <2>1. IsFiniteSet(T)
        BY FS_Subset
    <2>2. CASE T = {}
        BY <2>2, SumEmpty, FS_EmptySet
    <2>3. CASE T # {}
        <3> DEFINE x == Picked(T)
        <3>1. x \in T
            BY <2>3, PickedIn
        <3> HIDE DEF x
        <3>2. Sum(D, T \ {x}) <= Cardinality(T \ {x}) * m
            BY <1>1, <3>1
        <3>3. Sum(D, T) = D[x] + Sum(D, T \ {x})
            BY <2>1, <3>1, SumWithout
        <3>4. /\ IsFiniteSet(T \ {x}) /\ Cardinality(T) \in Nat
              /\ Cardinality(T \ {x}) = Cardinality(T) - 1
            BY <2>1, <3>1, FS_RemoveElement, FS_CardinalityType
        <3>5. Sum(D, T \ {x}) \in Nat
            BY <3>4, SumType
        <3>6. (Cardinality(T) - 1) * m = Cardinality(T) * m - m
            BY <3>4
        <3>7. Cardinality(T) * m \in Nat
            BY <3>4
        <3> QED
            BY <3>1, <3>2, <3>3, <3>4, <3>5, <3>6, <3>7
    <2> QED
        BY <2>2, <2>3
<1> HIDE DEF G
<1>2. S \in G
    BY <1>1, SetInduction
<1> QED
    BY <1>2 DEF G

\* Two functions that differ in one place: their sums differ by as much.
LEMMA SumChanged ==
    ASSUME NEW S, IsFiniteSet(S), NEW x \in S, NEW D, NEW E,
           \A y \in S : D[y] \in Nat /\ E[y] \in Nat,
           \A y \in S : y # x => E[y] = D[y]
    PROVE  Sum(E, S) = Sum(D, S) - D[x] + E[x]
<1>1. IsFiniteSet(S \ {x})
    BY FS_RemoveElement
<1>2. Sum(E, S \ {x}) = Sum(D, S \ {x})
    BY <1>1, SumSame
<1>3. Sum(E, S) = E[x] + Sum(E, S \ {x}) /\ Sum(D, S) = D[x] + Sum(D, S \ {x})
    BY SumWithout
<1>4. Sum(D, S \ {x}) \in Nat
    BY <1>1, SumType
<1> QED
    BY <1>2, <1>3, <1>4

\* A finite set of natural numbers has a largest one.
LEMMA MaxExists ==
    ASSUME NEW S, IsFiniteSet(S), S # {}, S \subseteq Nat
    PROVE  Max(S) \in S /\ \A y \in S : Max(S) >= y
<1> DEFINE G == {T \in SUBSET S : T # {} => \E x \in T : \A y \in T : x >= y}
<1>1. ASSUME NEW T \in SUBSET S, \A U \in SUBSET T : U # T => U \in G
      PROVE  T \in G
    <2> SUFFICES ASSUME T # {}
                 PROVE  \E x \in T : \A y \in T : x >= y
        OBVIOUS
    <2>1. PICK p \in T : TRUE
        OBVIOUS
    <2>2. CASE T \ {p} = {}
        BY <2>1, <2>2
    <2>3. CASE T \ {p} # {}
        <3>1. PICK q \in T \ {p} : \A y \in T \ {p} : q >= y
            <4>1. T \ {p} \in SUBSET T /\ T \ {p} # T
                BY <2>1
            <4>2. T \ {p} \in G
                BY <1>1, <4>1
            <4> QED
                BY <2>3, <4>2
        <3>2. CASE q >= p
            BY <3>1, <3>2
        <3>3. CASE ~(q >= p)
            BY <2>1, <3>1, <3>3
        <3> QED
            BY <3>2, <3>3
    <2> QED
        BY <2>2, <2>3
<1> HIDE DEF G
<1>2. S \in G
    BY <1>1, SetInduction
<1>3. \E x \in S : \A y \in S : x >= y
    BY <1>2 DEF G
<1> QED
    BY <1>3 DEF Max
-----------------------------------------------------------------------------
\* The amounts: natural numbers, with a largest debit and a largest fee.
LEMMA Amounts ==
    /\ MaxDebit \in Nat /\ MaxFee \in Nat
    /\ \A d \in Dollars : /\ d \in Nat /\ AppFee(d) \in Nat /\ d + AppFee(d) \in Nat
                         /\ d + AppFee(d) <= MaxDebit /\ AppFee(d) <= MaxFee
<1> USE LedgerConstants
<1>1. PICK m \in Nat : \A l \in Locals : l <= m
    <2>1. Locals \subseteq Nat
        OBVIOUS
    <2> QED
        BY <2>1, MaxExists
<1>2. \A r \in UsableRates : r \in Nat \ {0}
    BY DEF UsableRates
<1>3. \A d \in Dollars : d \in Nat /\ d <= m
    <2> SUFFICES ASSUME NEW l \in Locals, NEW r \in UsableRates
                 PROVE  l \div r \in Nat /\ l \div r <= m
        BY DEF Dollars
    <2>1. l \in Nat /\ l <= m /\ r \in Nat /\ r >= 1
        BY <1>1, <1>2
    <2> HIDE LedgerConstants
    <2>2. l \div r \in Nat /\ l \div r <= l
        BY <2>1
    <2> QED
        BY <2>1, <2>2
<1>4. Dollars # {}
    <2>1. PICK l \in Locals : TRUE
        OBVIOUS
    <2>2. l \div 1 \in Dollars
        BY Conversion DEF UsableRates
    <2> QED
        BY <2>2
<1>5. \A d \in Dollars : AppFee(d) \in Nat /\ AppFee(d) <= m
    BY <1>3 DEF AppFee
<1>6. MaxFee \in Nat /\ \A d \in Dollars : AppFee(d) <= MaxFee
    <2> DEFINE F == {AppFee(d) : d \in Dollars}
    <2>1. IsFiniteSet(F) /\ F # {} /\ F \subseteq Nat
        BY <1>4, <1>5, FS_BoundedSetOfNaturals
    <2>2. Max(F) \in F /\ \A y \in F : Max(F) >= y
        BY <2>1, MaxExists
    <2> QED
        BY <1>5, <2>2 DEF MaxFee
<1>7. MaxDebit \in Nat /\ \A d \in Dollars : d + AppFee(d) <= MaxDebit
    <2> DEFINE F == {d + AppFee(d) : d \in Dollars}
    <2>1. \A d \in Dollars : d + AppFee(d) \in Nat /\ d + AppFee(d) <= m + m
        BY <1>3, <1>5
    <2>2. IsFiniteSet(F) /\ F # {} /\ F \subseteq Nat
        BY <1>4, <2>1, FS_BoundedSetOfNaturals
    <2>3. Max(F) \in F /\ \A y \in F : Max(F) >= y
        BY <2>2, MaxExists
    <2> QED
        BY <2>1, <2>3 DEF MaxDebit
<1> QED
    BY <1>3, <1>4, <1>5, <1>6, <1>7

\* getBalance's sum over entries is such a sum.
LEMMA FoldIsSum ==
    ASSUME NEW E
    PROVE  MapThenSumSet(Debit, E) = Sum([e \in E |-> Debit(e)], E)
<1> DEFINE D == [e \in E |-> Debit(e)]
           Folds(g) == g = [T \in SUBSET E |->
                              IF T = {} THEN 0 ELSE Debit(Picked(T)) + g[T \ {Picked(T)}]]
<1>1. MapThenSumSet(Debit, E) = (CHOOSE g : Folds(g))[E]
    BY DEF MapThenSumSet, MapThenFoldSet, Picked
<1>2. ASSUME NEW g
      PROVE  Folds(g) <=> IsIter(g, D, E)
    <2>1. \A T \in SUBSET E : (IF T = {} THEN 0 ELSE Debit(Picked(T)) + g[T \ {Picked(T)}])
                               = IF T = {} THEN 0 ELSE D[Picked(T)] + g[T \ {Picked(T)}]
        BY PickedIn
    <2> HIDE DEF D
    <2> QED
        BY <2>1 DEF IsIter
<1> HIDE DEF D, Folds
<1>3. (CHOOSE g : Folds(g)) = CHOOSE g : IsIter(g, D, E)
    BY <1>2
<1> QED
    BY <1>1, <1>3 DEF Sum, D
-----------------------------------------------------------------------------
\* What a call that has been found covered may still take.
Claim(k) == IF k.pc \in {"covered", "ordered"} THEN k.usd + AppFee(k.usd) ELSE 0
Pending(c) == Claim(call[c])

\* What all calls together may still take, and what entries have taken.
Reserved == [c \in Calls |-> Pending(c)]
Withdrawn(E) == Sum([e \in E |-> Debit(e)], E)

\* What makes OverdraftBounded inductive: the balance stays above the bound when
\* every call that has been found covered takes its amount as well.  Every entry
\* counts, for none ever leaves PENDING: a webhook finds none.
BalanceInv ==
    /\ IsFiniteSet(entries)
    /\ \A e \in entries : e.status = "PENDING"
    /\ Available - Sum(Reserved, Calls) >= -Overdraft

\* While no entry has failed, the balance is what was earned less all debits.
LEMMA AvailableIs ==
    ASSUME \A e \in entries : e.status = "PENDING"
    PROVE  Available = earned - Withdrawn(entries)
<1>1. {e \in entries : e.status # "FAILED"} = entries
    OBVIOUS
<1> QED
    BY <1>1, FoldIsSum DEF Available, Withdrawn

\* The same of the state after a step.
LEMMA AvailableNext ==
    ASSUME \A e \in entries' : e.status = "PENDING"
    PROVE  Available' = earned' - Withdrawn(entries')
<1>1. {e \in entries' : e.status # "FAILED"} = entries'
    OBVIOUS
<1> QED
    BY <1>1, FoldIsSum DEF Available, Withdrawn

\* A call claims at most the largest debit.
LEMMA Claims ==
    ASSUME NEW k \in CallTypes
    PROVE  Claim(k) \in Nat /\ Claim(k) <= MaxDebit
<1>1. CASE k.pc \in {"covered", "ordered"}
    <2> DEFINE d == k.usd
    <2>1. d \in Dollars
        BY <1>1 DEF CallTypes, Idle
    <2>2. Claim(k) = d + AppFee(d)
        BY <1>1 DEF Claim
    <2> HIDE DEF d
    <2> QED
        BY <2>1, <2>2, Amounts
<1>2. CASE k.pc \notin {"covered", "ordered"}
    BY <1>2, Amounts DEF Claim
<1> QED
    BY <1>1, <1>2

\* So does each of the calls there are.
LEMMA Reservations ==
    ASSUME TypeOK
    PROVE  \A c \in Calls : Pending(c) \in Nat /\ Pending(c) <= MaxDebit
BY Claims DEF Pending, TypeOK

\* An entry debits a natural number.
LEMMA DebitsTyped ==
    ASSUME TypeOK
    PROVE \A e \in entries : Debit(e) \in Nat
<1> SUFFICES ASSUME NEW e \in entries
             PROVE  Debit(e) \in Nat
    OBVIOUS
<1>1. e.usd \in Dollars
    BY DEF TypeOK
<1>2. Debit(e) = e.usd + AppFee(e.usd)
    BY DEF Debit
<1> QED
    BY <1>1, <1>2, Amounts

\* A new entry adds its debit to what is withdrawn.
LEMMA WithdrawnMore ==
    ASSUME NEW E, IsFiniteSet(E), NEW x, x \notin E, \A e \in E \cup {x} : Debit(e) \in Nat
    PROVE  Withdrawn(E \cup {x}) = Withdrawn(E) + Debit(x) /\ Withdrawn(E) \in Nat
<1> DEFINE D == [e \in E |-> Debit(e)]
           F == [e \in E \cup {x} |-> Debit(e)]
<1>1. IsFiniteSet(E \cup {x}) /\ (E \cup {x}) \ {x} = E
    BY FS_AddElement
<1>2. \A e \in E : D[e] = F[e] /\ D[e] \in Nat
    OBVIOUS
<1>3. \A e \in E \cup {x} : F[e] \in Nat
    OBVIOUS
<1>4. F[x] = Debit(x)
    OBVIOUS
<1>5. Withdrawn(E) = Sum(D, E) /\ Withdrawn(E \cup {x}) = Sum(F, E \cup {x})
    BY DEF Withdrawn
<1> HIDE DEF D, F
<1>6. Sum(F, E \cup {x}) = F[x] + Sum(F, E)
    BY <1>1, <1>3, SumWithout
<1>7. Sum(F, E) = Sum(D, E) /\ Sum(D, E) \in Nat
    BY <1>2, SumSame, SumType
<1> QED
    BY <1>4, <1>5, <1>6, <1>7

\* The credit line is a natural number.
LEMMA OverdraftIs ==
    /\ Cardinality(Calls) \in Nat /\ Cardinality(Calls) >= 1
    /\ Overdraft = (Cardinality(Calls) - 1) * MaxDebit + MaxFee
    /\ (Cardinality(Calls) - 1) * MaxDebit \in Nat
    /\ Overdraft \in Nat
<1>1. Cardinality(Calls) \in Nat /\ Cardinality(Calls) >= 1
    BY LedgerConstants, FS_CardinalityType, FS_EmptySet
<1>2. MaxDebit \in Nat /\ MaxFee \in Nat
    BY Amounts
<1>3. (Cardinality(Calls) - 1) * MaxDebit \in Nat
    BY <1>1, <1>2
<1> QED
    BY <1>1, <1>2, <1>3 DEF Overdraft

\* A step of one call changes the sum of the claims by the change of its own.
LEMMA StepReserves ==
    ASSUME TypeOK, TypeOK', BalanceInv, NEW c \in Calls,
           \A d \in Calls : d # c => call'[d] = call[d]
    PROVE  /\ Sum(Reserved', Calls) = Sum(Reserved, Calls) - Pending(c) + Pending(c)'
           /\ Sum(Reserved, Calls) \in Nat /\ Sum(Reserved', Calls) \in Nat
           /\ Pending(c) \in Nat /\ Pending(c)' \in Nat
<1>1. \A d \in Calls : Reserved[d] = Pending(d) /\ Reserved'[d] = Pending(d)'
    BY DEF Reserved
<1>2. \A d \in Calls : Pending(d) \in Nat
    BY Reservations
<1>3. \A d \in Calls : Pending(d)' \in Nat
    BY Claims DEF Pending, TypeOK
<1>4. \A d \in Calls : d # c => Pending(d)' = Pending(d)
    BY DEF Pending
<1>5. IsFiniteSet(Calls)
    BY LedgerConstants
<1> DEFINE R == Reserved
           Q == Reserved'
<1>6. \A d \in Calls : R[d] \in Nat /\ Q[d] \in Nat
    BY <1>1, <1>2, <1>3
<1>7. \A d \in Calls : d # c => Q[d] = R[d]
    BY <1>1, <1>4
<1> HIDE DEF R, Q
<1>8. Sum(Q, Calls) = Sum(R, Calls) - R[c] + Q[c]
    BY <1>5, <1>6, <1>7, SumChanged
<1>9. Sum(R, Calls) \in Nat /\ Sum(Q, Calls) \in Nat
    BY <1>5, <1>6, SumType
<1> QED
    BY <1>1, <1>2, <1>3, <1>8, <1>9 DEF R, Q

\* All calls but one claim at most as many times the largest debit.
LEMMA OthersBounded ==
    ASSUME TypeOK, NEW c \in Calls
    PROVE  Sum(Reserved, Calls) <= Pending(c) + (Cardinality(Calls) - 1) * MaxDebit
<1>1. \A d \in Calls : Reserved[d] \in Nat /\ Reserved[d] <= MaxDebit
    BY Reservations DEF Reserved
<1>2. /\ IsFiniteSet(Calls) /\ IsFiniteSet(Calls \ {c})
      /\ Cardinality(Calls \ {c}) = Cardinality(Calls) - 1
    BY LedgerConstants, FS_RemoveElement
<1>3. Sum(Reserved, Calls) = Reserved[c] + Sum(Reserved, Calls \ {c})
    BY <1>1, <1>2, SumWithout
<1>4. Sum(Reserved, Calls \ {c}) <= Cardinality(Calls \ {c}) * MaxDebit
    BY <1>1, <1>2, Amounts, SumBounded
<1>5. Sum(Reserved, Calls \ {c}) \in Nat
    BY <1>1, <1>2, SumType
<1>6. Cardinality(Calls \ {c}) * MaxDebit = (Cardinality(Calls) - 1) * MaxDebit
    BY <1>2
<1>7. (Cardinality(Calls) - 1) * MaxDebit \in Nat /\ Reserved[c] = Pending(c) /\ Reserved[c] \in Nat
    BY <1>1, OverdraftIs DEF Reserved
<1> QED
    BY <1>3, <1>4, <1>5, <1>6, <1>7

\* In the states of BalanceInv, what is earned, withdrawn and left are numbers.
LEMMA Balances ==
    ASSUME TypeOK, BalanceInv
    PROVE  /\ Available \in Int /\ earned \in Nat /\ Withdrawn(entries) \in Nat
           /\ Available = earned - Withdrawn(entries)
<1>1. Withdrawn(entries) \in Nat
    <2> DEFINE D == [e \in entries |-> Debit(e)]
    <2>1. \A e \in entries : D[e] \in Nat
        BY DebitsTyped
    <2> HIDE DEF D
    <2>2. Sum(D, entries) \in Nat
        BY <2>1, SumType DEF BalanceInv
    <2> QED
        BY <2>2 DEF Withdrawn, D
<1>2. earned \in Nat
    BY LedgerConstants DEF TypeOK
<1> QED
    BY <1>1, <1>2, AvailableIs DEF BalanceInv

\* A call's steps.  The check of the balance makes a claim that the balance covers
\* but for its fee, and the others claim no more than the credit line without it;
\* the commit takes what was claimed, and every other step claims no more.
LEMMA CallKeepsBalance ==
    ASSUME TypeOK, TypeOK', IInv, BalanceInv, NEW c \in Calls, Step(c)
    PROVE  BalanceInv'
<1>1. /\ Sum(Reserved, Calls) \in Nat 
      /\ Available - Sum(Reserved, Calls) >= -Overdraft
      /\ Available \in Int /\ earned \in Nat /\ Withdrawn(entries) \in Nat
      /\ Available = earned - Withdrawn(entries)
      /\ Overdraft \in Nat
    <2>1. Sum(Reserved, Calls) \in Nat
        <3>1. \A d \in Calls : Reserved[d] \in Nat
            BY Reservations DEF Reserved
        <3> QED
            BY <3>1, LedgerConstants, SumType
    <2> QED
        BY <2>1, Balances, OverdraftIs DEF BalanceInv
<1> DEFINE Rest == \A d \in Calls : d # c => call'[d] = call[d]
<1>0. Rest
    BY DEF Step, CheckKyc, FindRecord, CheckBalance, InitiateOfframp, Commit, Fail, Advance, TypeOK
<1>2. CASE /\ entries' = entries /\ earned' = earned
           /\ Pending(c)' <= Pending(c)
    <2>1. /\ Sum(Reserved', Calls) = Sum(Reserved, Calls) - Pending(c) + Pending(c)'
          /\ Sum(Reserved', Calls) \in Nat
          /\ Pending(c) \in Nat /\ Pending(c)' \in Nat
        BY <1>0, StepReserves
    <2>2. Available' = Available
        BY <1>2 DEF Available
    <2>3. Available' - Sum(Reserved', Calls) >= -Overdraft
        BY <1>1, <1>2, <2>1, <2>2
    <2> QED
        BY <1>2, <2>3 DEF BalanceInv
<1>3. CASE CheckKyc(c) \/ FindRecord(c)
    <2>1. call'[c].pc \in {"idle", "verified", "rated"}
        BY <1>3 DEF CheckKyc, FindRecord, Advance, Idle, TypeOK
    <2>2. Pending(c)' = 0 /\ Pending(c) = 0
        BY <1>3, <2>1 DEF Pending, Claim, CheckKyc, FindRecord
    <2> QED
        BY <1>2, <1>3, <2>2 DEF CheckKyc, FindRecord, Advance
<1>4. CASE CheckBalance(c)
    <2>1. CASE Available < call[c].usd
        <3>1. Advance(c, Idle)
            BY <1>4, <2>1 DEF CheckBalance
        <3>2. Pending(c)' = 0 /\ Pending(c) = 0
            BY <1>4, <3>1 DEF Pending, Claim, CheckBalance, Advance, Idle, TypeOK
        <3> QED
            BY <1>2, <3>1, <3>2 DEF Advance
    <2>2. CASE ~(Available < call[c].usd)
        <3> DEFINE d == call[c].usd
        <3>1. Advance(c, Covered(c)) /\ d \in Dollars
            BY <1>4, <2>2, CallShapes DEF CheckBalance
        <3>2. Pending(c)' = d + AppFee(d) /\ Pending(c) = 0
            BY <1>4, <3>1 DEF Pending, Claim, CheckBalance, Advance, Covered, TypeOK
        <3>3. d \in Nat /\ AppFee(d) \in Nat /\ AppFee(d) <= MaxFee /\ MaxFee \in Nat
            BY <3>1, Amounts
        <3>4. /\ Sum(Reserved', Calls) = Sum(Reserved, Calls) + d + AppFee(d)
              /\ Sum(Reserved', Calls) \in Nat
            BY <1>1, <1>0, <3>2, <3>3, StepReserves
        <3>5. Sum(Reserved, Calls) <= (Cardinality(Calls) - 1) * MaxDebit
            BY <3>2, OthersBounded, OverdraftIs
        <3>6. Available' = Available /\ Available >= d
            BY <1>1, <2>2, <3>1, <3>3 DEF Available, Advance
        <3> HIDE DEF d
        <3>7. Available' - Sum(Reserved', Calls) >= -Overdraft
            <4> DEFINE m == (Cardinality(Calls) - 1) * MaxDebit
            <4>1. m \in Nat /\ Overdraft = m + MaxFee
                BY OverdraftIs
            <4>2. Sum(Reserved, Calls) <= m
                BY <3>5
            <4> HIDE DEF m
            <4> QED
                BY <1>1, <3>3, <3>4, <3>6, <4>1, <4>2
        <3> QED
            BY <3>1, <3>7 DEF BalanceInv, Advance
    <2> QED
        BY <2>1, <2>2
<1>5. CASE InitiateOfframp(c)
    <2>1. call'[c].pc = "ordered" /\ call'[c].usd = call[c].usd
        BY <1>5 DEF InitiateOfframp, Advance, TypeOK
    <2>2. Pending(c)' = Pending(c)
        BY <1>5, <2>1 DEF Pending, Claim, InitiateOfframp
    <2>3. Pending(c) \in Nat
        BY Reservations
    <2> QED
        BY <1>2, <1>5, <2>2, <2>3 DEF InitiateOfframp, Advance
<1>6. CASE Commit(c)
    <2> DEFINE x == Entry(c)
    <2>1. x \notin entries
        BY <1>6 DEF Commit, Entry, IInv
    <2>2. /\ entries' = entries \cup {x} /\ earned' = earned /\ x.status = "PENDING"
          /\ call' = [call EXCEPT ![c] = Idle]
        BY <1>6 DEF Commit, Entry
    <2>3. Pending(c) = Debit(x) /\ Pending(c)' = 0
        BY <1>6, <2>2 DEF Commit, Pending, Claim, Debit, Entry, Idle, TypeOK
    <2>4. Debit(x) \in Nat
        BY <2>3, Reservations
    <2> HIDE DEF x
    <2>5. Withdrawn(entries') = Withdrawn(entries) + Debit(x) /\ IsFiniteSet(entries')
        BY <2>1, <2>2, <2>4, DebitsTyped, WithdrawnMore, FS_AddElement DEF BalanceInv
    <2>6. \A e \in entries' : e.status = "PENDING"
        BY <2>2 DEF BalanceInv
    <2>7. Available' = earned' - Withdrawn(entries')
        BY <2>6, AvailableNext
    <2>8. /\ Sum(Reserved', Calls) = Sum(Reserved, Calls) - Debit(x)
          /\ Sum(Reserved', Calls) \in Nat
        BY <1>1, <1>0, <2>3, <2>4, StepReserves
    <2>9. Available' - Sum(Reserved', Calls) >= -Overdraft
        BY <1>1, <2>2, <2>4, <2>5, <2>7, <2>8
    <2> QED
        BY <2>5, <2>6, <2>9 DEF BalanceInv
<1>7. CASE Fail(c)
    <2>1. call'[c] = Idle /\ Advance(c, Idle)
        BY <1>7 DEF Fail, Advance, TypeOK
    <2>2. Pending(c)' = 0 /\ Pending(c) \in Nat
        BY <2>1, Reservations DEF Pending, Claim, Idle
    <2> QED
        BY <1>2, <2>1, <2>2 DEF Advance
<1> QED
    BY <1>3, <1>4, <1>5, <1>6, <1>7 DEF Step

\* BalanceInv is an invariant.
LEMMA BalanceKept == Spec => []BalanceInv
<1>1. Init => BalanceInv
    <2> SUFFICES ASSUME Init PROVE BalanceInv
        OBVIOUS
    <2>1. \A c \in Calls : Reserved[c] = 0
        BY DEF Init, Idle, Reserved, Pending, Claim
    <2>2. Sum(Reserved, Calls) <= Cardinality(Calls) * 0
        BY <2>1, LedgerConstants, SumBounded
    <2>3. Sum(Reserved, Calls) \in Nat
        BY <2>1, LedgerConstants, SumType
    <2>4. Available = 0
        BY AvailableIs, SumEmpty DEF Init, Withdrawn
    <2>5. IsFiniteSet(entries)
        BY FS_EmptySet DEF Init
    <2>6. Sum(Reserved, Calls) = 0
        BY <2>2, <2>3, OverdraftIs
    <2> QED
        BY <2>4, <2>5, <2>6, OverdraftIs DEF Init, BalanceInv
<1>2. TypeOK /\ TypeOK' /\ IInv /\ BalanceInv /\ [Next]_vars => BalanceInv'
    <2> SUFFICES ASSUME TypeOK, TypeOK', IInv, BalanceInv, [Next]_vars PROVE BalanceInv'
        OBVIOUS
    <2>1. CASE \E c \in Calls : Step(c)
        BY <2>1, CallKeepsBalance
    <2>2. CASE entries' = entries /\ call' = call /\ earned' \in Nat /\ earned' >= earned
        <3>1. Reserved' = Reserved
            BY <2>2 DEF Reserved, Pending
        <3>2. Available' = earned' - Withdrawn(entries)
            BY <2>2, AvailableNext DEF BalanceInv
        <3>3. \A c \in Calls : Reserved[c] \in Nat
            BY Reservations DEF Reserved
        <3>4. Sum(Reserved, Calls) \in Nat
            BY <3>3, LedgerConstants, SumType
        <3>5. Available' - Sum(Reserved', Calls) >= -Overdraft
            BY <2>2, <3>1, <3>2, <3>4, Balances, OverdraftIs DEF BalanceInv
        <3> QED
            BY <2>2, <3>5 DEF BalanceInv
    <2>3. earned \in Nat /\ earned >= earned
        BY LedgerConstants DEF TypeOK
    <2>4. CASE Earn
        <3>1. earned' \in Nat /\ earned' >= earned
            BY <2>3, <2>4, LedgerConstants DEF Earn
        <3> QED
            BY <2>2, <2>4, <3>1 DEF Earn
    <2>5. CASE HandlePaycrestWebhook
        BY <2>2, <2>3, <2>5, WebhookFindsNothing DEF HandlePaycrestWebhook
    <2>6. CASE KycDecided \/ PaycrestDecides \/ UNCHANGED vars
        BY <2>2, <2>3, <2>6 DEF KycDecided, PaycrestDecides, vars
    <2> QED
        BY <2>1, <2>4, <2>5, <2>6 DEF Next
<1> QED
    BY <1>1, <1>2, TypeCorrect, KeysInv, PTL DEF Spec

\* In the states of BalanceInv the balance is a number within the credit line.
LEMMA WithinCreditLine ==
    ASSUME TypeOK, BalanceInv
    PROVE  Available \in Int /\ OverdraftBounded
<1>1. \A c \in Calls : Reserved[c] \in Nat
    BY Reservations DEF Reserved
<1>2. Sum(Reserved, Calls) \in Nat
    BY <1>1, LedgerConstants, SumType
<1> QED
    BY <1>2, Balances, OverdraftIs DEF BalanceInv, OverdraftBounded

\* However many calls run at once and however many follow one another, the
\* balance falls below zero by no more than what all but one of the calls that
\* run at once can take, and one fee.
THEOREM OverdraftIsBounded == Spec => []OverdraftBounded
<1>1. TypeOK /\ BalanceInv => OverdraftBounded
    BY WithinCreditLine
<1> QED
    BY <1>1, TypeCorrect, BalanceKept, PTL
-----------------------------------------------------------------------------
\* An entry that is written stays PENDING for good, whatever Paycrest decides on
\* its order: the webhook never finds it.
THEOREM EntriesStayPending == Spec => [](\A e \in entries : e.status = "PENDING")
<1>1. BalanceInv => \A e \in entries : e.status = "PENDING"
    BY DEF BalanceInv
<1> QED
    BY <1>1, BalanceKept, PTL

\* Every step of the ledger is one of the account or changes nothing of it: the
\* release of a vault is its Credit, the commit of a withdrawal its Debit.
LEMMA StepIsAccountStep ==
    ASSUME TypeOK, IInv, BalanceInv, [Next]_vars, BalanceInv', OverdraftBounded'
    PROVE  [Account!Next]_(Account!vars)
<1>2. CASE entries' = entries /\ earned' = earned
    BY <1>2 DEF Account!vars, Available
<1>3. CASE Earn
    <2>1. entries' = entries /\ earned' > earned
        BY <1>3, LedgerConstants DEF Earn, TypeOK
    <2>2. Available = earned - Withdrawn(entries) /\ Available' = earned' - Withdrawn(entries)
        BY <2>1, AvailableIs, AvailableNext DEF BalanceInv
    <2>3. earned \in Nat /\ earned' \in Nat /\ Withdrawn(entries) \in Nat
        BY <1>3, LedgerConstants, Balances DEF Earn
    <2>4. Available' > Available
        BY <2>1, <2>2, <2>3
    <2> QED
        BY <2>1, <2>4 DEF Account!Next, Account!Credit
<1>4. ASSUME NEW c \in Calls, Commit(c)
      PROVE  Account!Next
    <2> DEFINE x == Entry(c)
    <2>1. x.key \notin {e.key : e \in entries} /\ x.key \in Keys /\ x \notin entries
        BY <1>4, CallShapes DEF Commit, Entry, IInv
    <2>2. entries' = entries \cup {x} /\ earned' = earned
        BY <1>4 DEF Commit
    <2>3. {e.key : e \in entries'} = {e.key : e \in entries} \cup {x.key}
        BY <2>2
    <2>4. Debit(x) \in Nat
        <3>1. Debit(x) = Pending(c)
            BY <1>4 DEF Commit, Entry, Debit, Pending, Claim
        <3> QED
            BY <3>1, Reservations
    <2> HIDE DEF x
    <2>5. Withdrawn(entries') = Withdrawn(entries) + Debit(x)
        BY <2>1, <2>2, <2>4, DebitsTyped, WithdrawnMore DEF BalanceInv
    <2>6. Available' = earned' - Withdrawn(entries') /\ Available = earned - Withdrawn(entries)
        BY AvailableNext, AvailableIs DEF BalanceInv
    <2>7. Available' <= Available
        BY <2>2, <2>4, <2>5, <2>6, Balances
    <2>8. Available' >= -Overdraft
        BY DEF OverdraftBounded
    <2> QED
        BY <2>1, <2>3, <2>7, <2>8 DEF Account!Next, Account!Debit
<1>5. ASSUME NEW c \in Calls, Step(c), ~Commit(c)
      PROVE  entries' = entries /\ earned' = earned
    BY <1>5 DEF Step, CheckKyc, FindRecord, CheckBalance, InitiateOfframp, Fail, Advance
<1>6. CASE HandlePaycrestWebhook
    BY <1>2, <1>6, WebhookFindsNothing DEF HandlePaycrestWebhook
<1>7. CASE KycDecided \/ PaycrestDecides \/ UNCHANGED vars
    BY <1>2, <1>7 DEF KycDecided, PaycrestDecides, vars
<1> QED
    BY <1>2, <1>3, <1>4, <1>5, <1>6, <1>7 DEF Next

\* Lookup, rate, check, order and transaction, interleaved with those of other
\* calls, failing anywhere, implement OverdraftAccount: a credit line, debited
\* once for a key.
THEOREM LedgerIsAnAccount == Spec => ImplementsAccount
<1>1. Init => Account!Init
    <2> SUFFICES ASSUME Init PROVE Account!Init
        OBVIOUS
    <2>1. Available = 0
        BY AvailableIs, SumEmpty DEF Init, Withdrawn
    <2>2. {e.key : e \in entries} = {}
        BY DEF Init
    <2> QED
        BY <2>1, <2>2 DEF Account!Init
<1>2. TypeOK /\ IInv /\ BalanceInv /\ [Next]_vars /\ BalanceInv' /\ OverdraftBounded'
          => [Account!Next]_(Account!vars)
    BY StepIsAccountStep
<1> QED
    BY <1>1, <1>2, TypeCorrect, KeysInv, BalanceKept, OverdraftIsBounded, PTL
    DEF Spec, ImplementsAccount, Account!Spec
=============================================================================
