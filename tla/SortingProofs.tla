---------------------------- MODULE SortingProofs ----------------------------
(***************************************************************************)
(* The sorter, for any transactions, pools, gas and numbers of simulations *)
(* per round, whatever order transactions, results and engine calls come   *)
(* in: the transaction kept to be applied succeeds on the state it is      *)
(* applied to, the counter of simulations counts the ones that are out,    *)
(* every result finds an order of its sender, and the block can be         *)
(* executed from the state it was started on.  The invariants build on one *)
(* another: SortingInv, SortingType, Outstanding, FragInv.                 *)
(***************************************************************************)
EXTENDS SortingLemmas

(***************************************************************************)
(* The simulations that are out.                                           *)
(***************************************************************************)
Simulation == [tx : Transaction, id : Nat]

\* Those on the state with that id, and those of a sender among them.
At(id)     == [tx : Transaction, id : {id}]
Of(id, s)  == {r \in At(id) : r.tx.sender = s}

\* All are on the state being sorted or an earlier one.
IsRequests(B, id) == IsBagOf(B, Simulation) /\ \A r \in DOMAIN B : r.id <= id

LEMMA CountNone ==
    ASSUME NEW B, NEW Q, DOMAIN B \cap Q = {}
    PROVE  Count(B, Q) = 0
<1>1. Tokens(B, Q) = {}
  BY DEF Tokens
<1> QED BY <1>1, FS_EmptySet DEF Count

LEMMA CountAtIs ==
    ASSUME NEW B, IsBagOf(B, Simulation), NEW id, NEW s
    PROVE  /\ {r \in DOMAIN B : r.id = id} = DOMAIN B \cap At(id)
           /\ {r \in {q \in DOMAIN B : q.id = id} : r.tx.sender = s} = DOMAIN B \cap Of(id, s)
           /\ Cardinality(UNION {{r} \X (1 .. B[r]) : r \in {q \in DOMAIN B : q.id = id}}) =
                 Count(B, At(id))
           /\ Cardinality(UNION {{r} \X (1 .. B[r]) :
                    r \in {x \in {q \in DOMAIN B : q.id = id} : x.tx.sender = s}}) = Count(B, Of(id, s))
<1>1. \A r \in DOMAIN B : r.id = id <=> r \in At(id)
  BY DEF IsBagOf, Simulation, At
<1>2. {r \in DOMAIN B : r.id = id} = DOMAIN B \cap At(id)
  BY <1>1
<1>3. {r \in {q \in DOMAIN B : q.id = id} : r.tx.sender = s} = DOMAIN B \cap Of(id, s)
  BY <1>1 DEF Of
<1> QED BY <1>2, <1>3, Zenon DEF Count, Tokens

\* A new state has no simulations yet.
LEMMA FreshState ==
    ASSUME NEW B, NEW id \in Nat, IsRequests(B, id)
    PROVE  /\ IsRequests(B, id + 1)
           /\ Count(B, At(id + 1)) = 0 /\ \A s : Count(B, Of(id + 1, s)) = 0
           /\ DOMAIN B \cap At(id + 1) = {}
<1>1. ASSUME NEW r \in DOMAIN B PROVE r.id \in Nat /\ r.id <= id
  BY DEF IsRequests, IsBagOf, Simulation
<1>2. \A r \in DOMAIN B : r.id <= id + 1 /\ r.id # id + 1
  BY <1>1
<1>3. DOMAIN B \cap At(id + 1) = {}
  BY <1>2 DEF At
<1>4. \A s : DOMAIN B \cap Of(id + 1, s) = {}
  BY <1>3 DEF Of
<1> QED BY <1>2, <1>3, <1>4, CountNone DEF IsRequests

\* With none on a state, there is none of any sender.
LEMMA NoneOfAny ==
    ASSUME NEW B, NEW id, IsBagOf(B, Simulation), Count(B, At(id)) = 0
    PROVE  DOMAIN B \cap At(id) = {} /\ \A s : Count(B, Of(id, s)) = 0
<1>1. DOMAIN B \cap At(id) = {}
  <2> SUFFICES ASSUME NEW r \in DOMAIN B \cap At(id) PROVE FALSE
    OBVIOUS
  <2>1. B[r] \in Nat \ {0} /\ 1 \in 1 .. B[r]
    BY DEF IsBagOf
  <2>2. <<r, 1>> \in Tokens(B, At(id))
    BY <2>1, TokensElements
  <2>3. IsFiniteSet(Tokens(B, At(id)))
    BY TokensFinite
  <2>4. Cardinality(Tokens(B, At(id))) = 0
    BY DEF Count
  <2>5. Tokens(B, At(id)) = {}
    BY <2>3, <2>4, FS_EmptySet
  <2> QED BY <2>2, <2>5
<1>2. \A s : DOMAIN B \cap Of(id, s) = {}
  BY <1>1 DEF Of
<1> QED BY <1>1, <1>2, CountNone

LEMMA AnswerRequests ==
    ASSUME NEW B, NEW id, IsRequests(B, id), NEW r \in DOMAIN B
    PROVE  /\ r \in Simulation /\ r.tx \in Transaction
           /\ IsRequests(Without(B, r), id)
           /\ DOMAIN Without(B, r) \subseteq DOMAIN B
           /\ \A Q : Count(Without(B, r), Q) = IF r \in Q THEN Count(B, Q) - 1 ELSE Count(B, Q)
<1>1. IsBagOf(B, Simulation)
  BY DEF IsRequests
<1>2. /\ IsBagOf(Without(B, r), Simulation) /\ DOMAIN Without(B, r) \subseteq DOMAIN B
      /\ \A Q : Count(Without(B, r), Q) = IF r \in Q THEN Count(B, Q) - 1 ELSE Count(B, Q)
  BY <1>1, RemoveFromBag
<1>3. IsRequests(Without(B, r), id)
  BY <1>2 DEF IsRequests
<1>4. r \in Simulation /\ r.tx \in Transaction
  BY <1>1 DEF IsBagOf, Simulation
<1> QED BY <1>2, <1>3, <1>4

\* What is sent is counted.
LEMMA SendRequests ==
    ASSUME NEW B, NEW id \in Nat, IsRequests(B, id), NEW txs \in Seq(Transaction)
    PROVE  LET new == Send(B, txs, id)
           IN  /\ IsRequests(new, id)
               /\ \A r \in DOMAIN new : r \in DOMAIN B \/ \E i \in 1 .. Len(txs) : r.tx = txs[i]
               /\ Count(new, At(id)) = Count(B, At(id)) + Len(txs)
               /\ \A s : Count(new, Of(id, s)) =
                           Count(B, Of(id, s)) + Cardinality({i \in DOMAIN txs : txs[i].sender = s})
<1> DEFINE new == Send(B, txs, id)
           n == Len(txs)
<1>1. n \in Nat /\ DOMAIN txs = 1 .. n /\ \A i \in 1 .. n : txs[i] \in Transaction
  BY LenProperties
<1>2. \A i \in 1 .. n : Request(txs[i], id) \in At(id) /\ Request(txs[i], id).tx = txs[i]
  BY <1>1 DEF Request, At
<1>3. At(id) \subseteq Simulation
  BY DEF At, Simulation
<1>4. \A i \in 1 .. n : Request(txs[i], id) \in Simulation
  BY <1>2, <1>3
<1>5. IsBagOf(B, Simulation)
  BY DEF IsRequests
<1>6. /\ IsBagOf(new, Simulation)
      /\ \A r \in DOMAIN new : r \in DOMAIN B \/ \E i \in 1 .. n : r = Request(txs[i], id)
      /\ \A Q : Count(new, Q) = Count(B, Q) + Cardinality(SentIn(Q, txs, id, n))
  BY <1>1, <1>4, <1>5, SendBag
<1> HIDE DEF new
<1>7. IsRequests(new, id)
  <2>1. \A i \in 1 .. n : Request(txs[i], id).id <= id
    BY DEF Request
  <2> QED BY <1>6, <2>1, Zenon DEF IsRequests
<1>8. Count(new, At(id)) = Count(B, At(id)) + n
  <2>1. SentIn(At(id), txs, id, n) = 1 .. n
    BY <1>2 DEF SentIn
  <2>2. Cardinality(1 .. n) = n
    <3>1. Cardinality(1 .. n) = IF 1 > n THEN 0 ELSE n - 1 + 1
      <4>1. 1 \in Int /\ n \in Int
        BY <1>1
      <4> QED BY <4>1, FS_Interval
    <3> QED BY <1>1, <3>1
  <2> QED BY <1>6, <2>1, <2>2
<1>9. ASSUME NEW s
      PROVE  Count(new, Of(id, s)) =
                 Count(B, Of(id, s)) + Cardinality({i \in DOMAIN txs : txs[i].sender = s})
  <2>1. SentIn(Of(id, s), txs, id, n) = {i \in DOMAIN txs : txs[i].sender = s}
    BY <1>1, <1>2 DEF SentIn, Of
  <2> QED BY <1>6, <2>1
<1>10. \A r \in DOMAIN new : r \in DOMAIN B \/ \E i \in 1 .. n : r.tx = txs[i]
  BY <1>2, <1>6
<1> QED BY <1>7, <1>8, <1>9, <1>10 DEF new

\* SendNext, when nothing is out on the state sd is of.
Deposit == {t \in Transaction : t.deposit}

LEMMA SendNextType ==
    ASSUME NEW sd, IsSorting(sd), NEW B, IsRequests(B, sd.id), deposits \in Seq(Deposit), SendNext(sd, B)
    PROVE  /\ IsSorting(sorting') /\ sorting'.id = sd.id /\ sorting'.next = sd.next
           /\ sorting'.txs = sd.txs /\ sorting'.nonces = sd.nonces
           /\ IsRequests(requests', sd.id) /\ deposits' \in Seq(Deposit)
           /\ \/ /\ state' = "Deposit"
                 /\ Count(requests', At(sd.id)) = Count(B, At(sd.id)) + 1
                 /\ \A r \in DOMAIN requests' : r \in DOMAIN B \/ r.tx.deposit
              \/ /\ state' = "Sorting"
                 /\ Count(requests', At(sd.id)) = Count(B, At(sd.id)) + sorting'.in_flight_sims
                 /\ \A s : \E sent \in Nat :
                        /\ sent <= Own(sorting'.orders, s)
                        /\ Count(requests', Of(sd.id, s)) = Count(B, Of(sd.id, s)) + sent
<1>0. sd.id \in Nat /\ sd.orders \in Seq(Order) /\ DOMAIN sd = Fields
  BY Zenon DEF IsSorting
<1>1. CASE deposits # <<>>
  <2> DEFINE txs == <<Head(deposits)>>
  <2>1. state' = "Deposit" /\ deposits' = Tail(deposits) /\ sorting' = sd /\ requests' = Send(B, txs, sd.id)
    BY <1>1 DEF SendNext
  <2>2. Head(deposits) \in Deposit /\ Tail(deposits) \in Seq(Deposit)
    BY <1>1, HeadTailProperties
  <2>3. txs \in Seq(Transaction) /\ Len(txs) = 1 /\ txs[1].deposit
    BY <2>2 DEF Deposit
  <2> HIDE DEF txs
  <2>4. /\ IsRequests(requests', sd.id)
        /\ \A r \in DOMAIN requests' : r \in DOMAIN B \/ \E i \in 1 .. Len(txs) : r.tx = txs[i]
        /\ Count(requests', At(sd.id)) = Count(B, At(sd.id)) + Len(txs)
    <3> DEFINE new == Send(B, txs, sd.id)
    <3>1. /\ IsRequests(new, sd.id)
          /\ \A r \in DOMAIN new : r \in DOMAIN B \/ \E i \in 1 .. Len(txs) : r.tx = txs[i]
          /\ Count(new, At(sd.id)) = Count(B, At(sd.id)) + Len(txs)
      BY <1>0, <2>3, SendRequests, Zenon
    <3> HIDE DEF new
    <3>2. requests' = new
      BY <2>1 DEF new
    <3> QED BY <3>1, <3>2, Zenon
  <2>5. \A r \in DOMAIN requests' : r \in DOMAIN B \/ r.tx.deposit
    <3>1. \A i \in 1 .. Len(txs) : i = 1
      BY <2>3
    <3> QED BY <2>3, <2>4, <3>1, Zenon
  <2> QED BY <2>1, <2>2, <2>3, <2>4, <2>5, Zenon
<1>2. CASE deposits = <<>>
  <2> DEFINE r == send_next(sd)
  <2>1. /\ state' = "Sorting" /\ deposits' = deposits
        /\ sorting' = [sd EXCEPT !.orders = r.orders, !.in_flight_sims = Len(r.sent)]
        /\ requests' = Send(B, r.sent, sd.id)
    BY <1>2 DEF SendNext
  <2>2. r \in Batch /\ \A s : Cardinality(SentOf(r, s)) <= Own(r.orders, s)
    BY <1>0, SendNextBatch
  <2> HIDE DEF r
  <2>3. r.orders \in Seq(Order) /\ r.sent \in Seq(Transaction) /\ Len(r.sent) \in Nat
    BY <2>2, BatchFields
  <2>4. /\ DOMAIN sorting' = Fields /\ sorting'.id = sd.id /\ sorting'.next = sd.next
        /\ sorting'.txs = sd.txs /\ sorting'.nonces = sd.nonces /\ sorting'.orders = r.orders
        /\ sorting'.in_flight_sims = Len(r.sent)
    BY <1>0, <2>1 DEF Fields
  <2>5. IsSorting(sorting')
    BY <2>3, <2>4 DEF IsSorting
  <2>6. /\ IsRequests(requests', sd.id)
        /\ Count(requests', At(sd.id)) = Count(B, At(sd.id)) + Len(r.sent)
        /\ \A s : Count(requests', Of(sd.id, s)) =
                     Count(B, Of(sd.id, s)) + Cardinality({i \in DOMAIN r.sent : r.sent[i].sender = s})
    BY <1>0, <2>1, <2>3, SendRequests
  <2>7. ASSUME NEW s
        PROVE  \E sent \in Nat : /\ sent <= Own(sorting'.orders, s)
                                 /\ Count(requests', Of(sd.id, s)) = Count(B, Of(sd.id, s)) + sent
    <3>1. {i \in DOMAIN r.sent : r.sent[i].sender = s} = SentOf(r, s)
      BY DEF SentOf
    <3>2. Cardinality(SentOf(r, s)) \in Nat
      BY <2>2, BatchFinite
    <3>3. Cardinality(SentOf(r, s)) <= Own(sorting'.orders, s)
      BY <2>2, <2>4
    <3>4. Count(requests', Of(sd.id, s)) = Count(B, Of(sd.id, s)) + Cardinality(SentOf(r, s))
      BY <2>6, <3>1
    <3> QED BY <3>2, <3>3, <3>4
  <2> QED BY <2>1, <2>4, <2>5, <2>6, <2>7
<1> QED BY <1>1, <1>2

-----------------------------------------------------------------------------
\* sorting is a SortingData; nothing is kept while a deposit is waited for.
SortingInv ==
    /\ DOMAIN sorting = Fields
    /\ NextIsExecutable
    /\ state = "Deposit" => sorting.next = {}

LEMMA SortingInvariant == SortingSpec => []SortingInv
<1>1. SortingInit => SortingInv
  BY NewSortingFields DEF SortingInit, SortingInv, NextIsExecutable
<1>2. SortingInv /\ [SortingNext]_sortingVars => SortingInv'
  <2> SUFFICES ASSUME SortingInv, [SortingNext]_sortingVars PROVE SortingInv'
      OBVIOUS
  <2> USE DEF SortingInv
  <2>1. ASSUME NEW tx \in Tx, HandleNewTx(tx) PROVE SortingInv'
    BY <2>1 DEF HandleNewTx, NextIsExecutable, Fields
  <2>2. ASSUME NEW r, HandleSimResult(r) PROVE SortingInv'
    BY <2>2, HandleSimKeeps DEF HandleSimResult, NextIsExecutable
  <2>3. CASE TickSend
    <3>1. DOMAIN sorting' = Fields /\ sorting'.next = {}
      BY <2>3, MaybeApplyFields, SendNextKeeps DEF TickSend
    <3> QED BY <3>1 DEF NextIsExecutable
  <2>4. ASSUME NEW r, DepositResult(r) PROVE SortingInv'
    <3>1. DOMAIN sorting' = Fields /\ sorting'.next = {}
      BY <2>4, ApplyFields, SendNextKeeps DEF DepositResult
    <3> QED BY <3>1 DEF NextIsExecutable
  <2>5. CASE TickSeal \/ GetPayload
    <3>1. DOMAIN sorting' = Fields /\ sorting'.next = {}
      BY <2>5, NewSortingFields DEF TickSeal, GetPayload, seal_frag
    <3> QED BY <3>1 DEF NextIsExecutable
  <2>6. CASE StartSequencing
    <3>1. DOMAIN sorting' = Fields /\ sorting'.next = {}
      <4>1. PICK orders, gas : sorting' =
                [NewSorting(sorting, orders, shared', GasLimit) EXCEPT !.txs = Forced, !.gas = gas]
        BY <2>6, Zenon DEF StartSequencing
      <4> DEFINE sd == NewSorting(sorting, orders, shared', GasLimit)
      <4>2. DOMAIN sd = Fields /\ sd.next = {}
        BY NewSortingFields
      <4> HIDE DEF sd
      <4>3. sorting' = [sd EXCEPT !.txs = Forced, !.gas = gas]
        BY <4>1 DEF sd
      <4> QED BY <4>2, <4>3 DEF Fields
    <3> QED BY <3>1 DEF NextIsExecutable
  <2>7. CASE HandleBlock
    BY <2>7 DEF HandleBlock, NextIsExecutable
  <2>8. CASE UNCHANGED sortingVars
    BY <2>8 DEF sortingVars, NextIsExecutable
  <2> QED BY <2>1, <2>2, <2>3, <2>4, <2>5, <2>6, <2>7, <2>8 DEF SortingNext, Loop
<1> QED BY <1>1, <1>2, PTL DEF SortingSpec

\* Whatever order results, transactions and engine calls come in, the transaction that is
\* applied succeeds on the state it is applied to and leaves gas: for any set of
\* transactions, any gas limit and any number of simulations per round.
THEOREM AppliedIsExecutable == SortingSpec => []NextIsExecutable
<1>1. SortingInv => NextIsExecutable
  BY DEF SortingInv
<1> QED BY <1>1, SortingInvariant, PTL

-----------------------------------------------------------------------------
(***************************************************************************)
(* The type invariant.                                                     *)
(***************************************************************************)
SortingType ==
    /\ state \in {"Waiting", "Sorting", "Deposit"}
    /\ tx_pool \in Pool /\ deposits \in Seq(Deposit)
    /\ db \in Sync!Hash /\ pendingBlocks \in Seq(Sync!Hash \ {<<>>})
    /\ base \in [Sender -> Nat] /\ shared \in [Sender -> Nat]
    /\ block \in Seq(Transaction)
    /\ IsSorting(sorting) /\ IsRequests(requests, sorting.id)

LEMMA SentByType ==
    ASSUME NEW txs \in Seq(Transaction), NEW s
    PROVE  IsFiniteSet(SentBy(s, txs)) /\ Cardinality(SentBy(s, txs)) \in Nat
<1>1. Len(txs) \in Nat /\ DOMAIN txs = 1 .. Len(txs)
  BY LenProperties
<1>2. SentBy(s, txs) \in SUBSET (1 .. Len(txs))
  BY <1>1 DEF SentBy
<1>3. IsFiniteSet(SentBy(s, txs)) /\ Cardinality(SentBy(s, txs)) \in 0 .. Len(txs)
  BY <1>1, <1>2, Counted
<1> QED BY <1>1, <1>3

LEMMA NonceAfterType ==
    ASSUME NEW nonces \in [Sender -> Nat], NEW txs \in Seq(Transaction)
    PROVE  NonceAfter(nonces, txs) \in [Sender -> Nat]
BY SentByType DEF NonceAfter

LEMMA NoncesAtType ==
    ASSUME NEW h \in Sync!Hash
    PROVE  NoncesAt(h) \in [Sender -> Nat]
<1>1. /\ Len(h) \in Nat /\ DOMAIN h = 1 .. Len(h)
      /\ \A i \in DOMAIN h : h[i].txs \in Seq(Transaction)
  <2>1. h \in Seq(Sync!Content)
    BY DEF Sync!Hash
  <2>2. Len(h) \in Nat /\ DOMAIN h = 1 .. Len(h) /\ \A i \in DOMAIN h : h[i] \in Sync!Content
    BY <2>1, LenProperties
  <2> QED BY <2>2 DEF Sync!Content
<1>2. IsFiniteSet(DOMAIN h)
  BY <1>1, FS_Interval
<1>3. ASSUME NEW s \in Sender
      PROVE  Cardinality(UNION {{i} \X SentBy(s, h[i].txs) : i \in DOMAIN h}) \in Nat
  <2> DEFINE part(i) == {i} \X SentBy(s, h[i].txs)
             parts == {part(i) : i \in DOMAIN h}
  <2>1. ASSUME NEW i \in DOMAIN h PROVE IsFiniteSet(part(i))
    <3>1. IsFiniteSet({i}) /\ IsFiniteSet(SentBy(s, h[i].txs))
      BY <1>1, SentByType, FS_Singleton
    <3> QED BY <3>1, FS_Product
  <2>2. IsFiniteSet(parts)
    <3> DEFINE f == [i \in DOMAIN h |-> part(i)]
    <3>1. f \in Surjection(DOMAIN h, parts)
      <4> HIDE DEF part
      <4> QED BY DEF Surjection
    <3> HIDE DEF f, parts
    <3> QED BY <1>2, <3>1, FS_Surjection
  <2>3. \A S \in parts : IsFiniteSet(S)
    BY <2>1
  <2> HIDE DEF parts
  <2>4. Cardinality(UNION parts) \in Nat
    BY <2>2, <2>3, FS_UNION, FS_CardinalityType
  <2> QED BY <2>4 DEF parts
<1> QED BY <1>3 DEF NoncesAt

LEMMA SealType ==
    ASSUME SortingType, NEW pool \in Pool, seal_frag(pool)
    PROVE  /\ tx_pool' \in Pool /\ shared' = sorting.nonces /\ block' = block \o sorting.txs
           /\ block' \in Seq(Transaction)
           /\ IsSorting(sorting') /\ sorting'.id = sorting.id + 1 /\ sorting'.next = {}
           /\ sorting'.in_flight_sims = 0 /\ sorting'.nonces = sorting.nonces /\ sorting'.txs = <<>>
<1>1. sorting.txs \in Seq(Transaction) /\ sorting.nonces \in [Sender -> Nat] /\ sorting.id \in Nat
  BY DEF SortingType, IsSorting
<1>2. tx_pool' = remove_mined_txs(pool, sorting.txs) /\ shared' = sorting.nonces /\ block' = block \o sorting.txs
  BY DEF seal_frag
<1>3. tx_pool' \in Pool
  BY <1>1, <1>2, RemoveMinedPool
<1>4. PICK orders, gas :
          /\ orders \in Snapshots(tx_pool', no_tx_pool)
          /\ sorting' = NewSorting(sorting, orders, sorting.nonces, gas)
  BY <1>2 DEF seal_frag
<1>5. orders \in Seq(Order)
  BY <1>3, <1>4, SnapshotOrders
<1>6. block \o sorting.txs \in Seq(Transaction)
  BY <1>1 DEF SortingType
<1>7. /\ IsSorting(sorting') /\ sorting'.id = sorting.id + 1 /\ sorting'.next = {}
      /\ sorting'.in_flight_sims = 0 /\ sorting'.nonces = sorting.nonces /\ sorting'.txs = <<>>
  BY <1>1, <1>4, <1>5, NewSortingType
<1> QED BY <1>2, <1>3, <1>6, <1>7

LEMMA StartType ==
    ASSUME SortingType, StartSequencing
    PROVE  /\ tx_pool' \in Pool
           /\ IsSorting(sorting') /\ sorting'.id = sorting.id + 1 /\ sorting'.next = {}
           /\ sorting'.in_flight_sims = 0 /\ sorting'.txs = Forced
           /\ shared' = NonceAfter(shared, Forced) /\ shared' \in [Sender -> Nat]
           /\ sorting'.nonces = shared'
<1>1. sorting.id \in Nat /\ shared \in [Sender -> Nat] /\ tx_pool \in Pool /\ Forced \in Seq(Transaction)
  BY ForcedAssumption DEF SortingType, IsSorting
<1>2. tx_pool' = remove_mined_txs(tx_pool, Forced) /\ shared' = NonceAfter(shared, Forced)
  BY DEF StartSequencing
<1>3. tx_pool' \in Pool /\ shared' \in [Sender -> Nat]
  BY <1>1, <1>2, RemoveMinedPool, NonceAfterType
<1>4. PICK orders, gas :
          /\ orders \in Snapshots(tx_pool, no_tx_pool')
          /\ sorting' = [NewSorting(sorting, orders, shared', GasLimit) EXCEPT !.txs = Forced, !.gas = gas]
  BY Zenon DEF StartSequencing
<1>5. orders \in Seq(Order)
  BY <1>1, <1>4, SnapshotOrders
<1> DEFINE sd == NewSorting(sorting, orders, shared', GasLimit)
<1>6. /\ IsSorting(sd) /\ sd.id = sorting.id + 1 /\ sd.next = {} /\ sd.in_flight_sims = 0
      /\ sd.nonces = shared'
  <2>1. /\ sorting.id \in Nat /\ shared' \in [Sender -> Nat]
        /\ sd = NewSorting(sorting, orders, shared', GasLimit)
    BY <1>1, <1>3
  <2> HIDE DEF sd
  <2> QED BY <1>5, <2>1, NewSortingType
<1>7. sorting' = [sd EXCEPT !.txs = Forced, !.gas = gas]
  BY <1>4
<1> HIDE DEF sd
<1>8. /\ DOMAIN sorting' = Fields /\ sorting'.id = sd.id /\ sorting'.next = sd.next
      /\ sorting'.in_flight_sims = sd.in_flight_sims /\ sorting'.nonces = sd.nonces
      /\ sorting'.txs = Forced /\ sorting'.orders = sd.orders
  BY <1>6, <1>7 DEF IsSorting, Fields
<1>9. IsSorting(sorting')
  BY <1>1, <1>6, <1>8 DEF IsSorting
<1> QED BY <1>2, <1>3, <1>6, <1>8, <1>9

LEMMA NewTxType ==
    ASSUME SortingType, NEW tx \in Tx, HandleNewTx(tx)
    PROVE  /\ tx_pool' \in Pool /\ deposits' \in Seq(Deposit)
           /\ IsSorting(sorting') /\ sorting'.id = sorting.id /\ sorting'.next = sorting.next
           /\ sorting'.in_flight_sims = sorting.in_flight_sims
           /\ sorting'.nonces = sorting.nonces /\ sorting'.txs = sorting.txs
           /\ \A s : Own(sorting'.orders, s) >= Own(sorting.orders, s)
<1> DEFINE order == [sender |-> tx.sender, current |-> {}, pending |-> <<tx>>]
<1>1. tx \in Transaction
  BY PoolAssumption
<1>2. tx.sender \in Sender /\ tx \in TxsOf(tx.sender)
  BY <1>1 DEF Transaction, TxsOf
<1>3. order \in Order
  <2>1. <<tx>> \in Seq(Transaction) /\ <<tx>> \in Seq(TxsOf(tx.sender))
    BY <1>1, <1>2
  <2> QED BY <1>2, <2>1, Zenon DEF Order
<1>4. tx_pool' \in Pool
  <2>1. shared[tx.sender] \in Nat /\ tx_pool \in Pool
    BY <1>2 DEF SortingType
  <2>2. handle_new_tx(tx_pool, tx, shared[tx.sender]) \in Pool
    BY <1>1, <2>1, NewTxPool
  <2> QED BY <2>1, <2>2 DEF HandleNewTx
<1>5. deposits' \in Seq(Deposit)
  <2>1. CASE tx.deposit
    <3>1. tx \in Deposit
      BY <1>1, <2>1 DEF Deposit
    <3>2. deposits' = Append(deposits, tx)
      BY <2>1 DEF HandleNewTx
    <3> QED BY <3>1, <3>2, AppendProperties DEF SortingType
  <2>2. CASE ~ tx.deposit
    BY <2>2 DEF HandleNewTx, SortingType
  <2> QED BY <2>1, <2>2
<1>6. sorting.orders \in Seq(Order) /\ DOMAIN sorting = Fields
  BY DEF SortingType, IsSorting
<1>7. CASE state = "Sorting"
  <2> DEFINE new == <<order>> \o sorting.orders
  <2>1. sorting' = [sorting EXCEPT !.orders = new]
    BY <1>7 DEF HandleNewTx
  <2> HIDE DEF order
  <2>2. new \in Seq(Order) /\ \A s : Own(new, s) >= Own(sorting.orders, s)
    BY <1>3, <1>6, NewOrder
  <2> HIDE DEF new
  <2>3. /\ DOMAIN sorting' = Fields /\ sorting'.id = sorting.id /\ sorting'.next = sorting.next
        /\ sorting'.in_flight_sims = sorting.in_flight_sims /\ sorting'.nonces = sorting.nonces
        /\ sorting'.txs = sorting.txs /\ sorting'.orders = new
    BY <1>6, <2>1 DEF Fields
  <2>4. IsSorting(sorting')
    BY <2>2, <2>3 DEF IsSorting, SortingType
  <2> QED BY <1>4, <1>5, <2>2, <2>3, <2>4
<1>8. CASE state # "Sorting"
  <2>1. sorting' = sorting
    BY <1>8 DEF HandleNewTx
  <2>2. \A s : Own(sorting.orders, s) \in Nat
    BY <1>6, OrdersFinite
  <2> QED BY <1>4, <1>5, <2>1, <2>2 DEF SortingType
<1> QED BY <1>7, <1>8

\* handle_sim_result.
LEMMA ResultType ==
    ASSUME SortingType, NEW r \in DOMAIN requests, HandleSimResult(r)
    PROVE  /\ requests' = Without(requests, r)
           /\ IsSorting(sorting') /\ sorting'.id = sorting.id
           /\ sorting'.nonces = sorting.nonces /\ sorting'.txs = sorting.txs
           /\ IsRequests(requests', sorting.id)
<1>1. requests' = Without(requests, r)
  BY DEF HandleSimResult, Without
<1>2. r.tx \in Transaction /\ IsRequests(requests', sorting.id)
  BY <1>1, AnswerRequests DEF SortingType
<1>3. /\ IsSorting(sorting') /\ sorting'.id = sorting.id
      /\ sorting'.nonces = sorting.nonces /\ sorting'.txs = sorting.txs
  <2> DEFINE new == handle_sim(sorting, r.tx)
  <2>1. /\ IsSorting(new) /\ new.id = sorting.id /\ new.nonces = sorting.nonces /\ new.txs = sorting.txs
    BY <1>2, HandleSimSorting DEF SortingType
  <2>2. sorting' = new \/ sorting' = sorting
    BY DEF HandleSimResult
  <2> HIDE DEF new
  <2> QED BY <2>1, <2>2 DEF SortingType
<1> QED BY <1>1, <1>2, <1>3

\* The state that tick or handle_deposits goes on with, and what is out then: nothing on
\* that state, if nothing was in flight.
LEMMA AppliedState ==
    ASSUME SortingType, NEW B, IsRequests(B, sorting.id), NEW sd, IsSorting(sd),
           sd.id = sorting.id + 1
    PROVE  /\ IsRequests(B, sd.id) /\ DOMAIN B \cap At(sd.id) = {}
           /\ Count(B, At(sd.id)) = 0 /\ \A s : Count(B, Of(sd.id, s)) = 0
<1>1. sorting.id \in Nat
  BY DEF SortingType, IsSorting
<1> QED BY <1>1, FreshState

\* TickSend is SendNext of the state after maybe_apply.
LEMMA TickSendType ==
    ASSUME SortingType, TickSend
    PROVE  LET sd == maybe_apply(sorting)
           IN  /\ IsSorting(sd) /\ sd.next = {} /\ IsRequests(requests, sd.id)
               /\ SendNext(sd, requests)
               /\ sd = sorting \/ sd.id = sorting.id + 1
<1> DEFINE sd == maybe_apply(sorting)
<1>1. /\ IsSorting(sd) /\ sd.next = {} /\ SendNext(sd, requests)
      /\ sd = sorting \/ sd.id = sorting.id + 1
  BY MaybeApplySorting, Zenon DEF SortingType, TickSend
<1> HIDE DEF sd
<1>2. IsRequests(requests, sd.id)
  BY <1>1, AppliedState, Zenon DEF SortingType
<1> QED BY <1>1, <1>2 DEF sd

\* A deposit's own result.
LEMMA DepositType ==
    ASSUME SortingType, NEW r \in DOMAIN requests, DepositResult(r), is_valid(r)
    PROVE  LET sd == apply_tx(sorting, r.tx)
               B == Without(requests, r)
           IN  /\ IsSorting(sd) /\ sd.id = sorting.id + 1 /\ sd.next = sorting.next
               /\ sd.txs = Append(sorting.txs, r.tx)
               /\ sd.nonces = [sorting.nonces EXCEPT ![r.tx.sender] = sorting.nonces[r.tx.sender] + 1]
               /\ IsRequests(B, sd.id) /\ SendNext(sd, B)
               /\ DOMAIN B \cap At(sd.id) = {} /\ Count(B, At(sd.id)) = 0
<1> DEFINE sd == apply_tx(sorting, r.tx)
           B == Without(requests, r)
<1>1. r.tx \in Transaction /\ IsRequests(B, sorting.id)
  BY AnswerRequests DEF SortingType
<1>2. /\ IsSorting(sd) /\ sd.id = sorting.id + 1 /\ sd.next = sorting.next
      /\ sd.txs = Append(sorting.txs, r.tx)
      /\ sd.nonces = [sorting.nonces EXCEPT ![r.tx.sender] = sorting.nonces[r.tx.sender] + 1]
  <2> DEFINE tx == r.tx
  <2>1. IsSorting(sorting) /\ tx \in Transaction
    BY <1>1 DEF SortingType
  <2> HIDE DEF tx
  <2>2. LET x == apply_tx(sorting, tx)
        IN  /\ IsSorting(x) /\ x.id = sorting.id + 1 /\ x.next = sorting.next
            /\ x.txs = Append(sorting.txs, tx)
            /\ x.nonces = [sorting.nonces EXCEPT ![tx.sender] = sorting.nonces[tx.sender] + 1]
    BY <2>1, ApplySorting, Zenon
  <2> QED BY <2>2, Zenon DEF tx
<1>3. SendNext(sd, B)
  BY DEF DepositResult, Without
<1> HIDE DEF sd, B
<1>4. IsRequests(B, sd.id) /\ DOMAIN B \cap At(sd.id) = {} /\ Count(B, At(sd.id)) = 0
  BY <1>1, <1>2, AppliedState
<1> QED BY <1>2, <1>3, <1>4, Zenon DEF sd, B

LEMMA RestOfDeposits ==
    ASSUME SortingType, NEW r \in DOMAIN requests, DepositResult(r), ~ is_valid(r)
    PROVE  /\ requests' = Without(requests, r) /\ IsRequests(requests', sorting.id)
           /\ UNCHANGED <<state, deposits, sorting>>
<1>1. requests' = Without(requests, r) /\ UNCHANGED <<state, deposits, sorting>>
  BY DEF DepositResult, Without
<1> QED BY <1>1, AnswerRequests DEF SortingType

\* The head and the pending blocks are blocks, whatever block sync makes of one.
LEMMA CommitType ==
    ASSUME SortingType, NEW b \in Sync!Hash \ {<<>>}, Sync!commit_block(b)
    PROVE  db' \in Sync!Hash /\ pendingBlocks' \in Seq(Sync!Hash \ {<<>>})
<1> DEFINE H == Sync!Hash \ {<<>>}
           n == Len(pendingBlocks)
<1>1. db \in Sync!Hash /\ pendingBlocks \in Seq(H) /\ n \in Nat /\ b \in H
  BY LenProperties DEF SortingType
<1>2. ASSUME NEW h \in Sync!Hash, NEW l \in Int, l <= Len(h) PROVE SubSeq(h, 1, l) \in Sync!Hash
  <2>1. h \in Seq(Sync!Content) /\ Len(h) \in Nat /\ \A i \in 1 .. l : i \in 1 .. Len(h)
    BY <1>2, LenProperties DEF Sync!Hash
  <2>2. \A i \in 1 .. l : h[i] \in Sync!Content
    BY <2>1, ElementOfSeq
  <2> QED BY <2>2, SubSeqProperties DEF Sync!Hash
<1>3. ASSUME NEW h \in Sync!Hash PROVE Len(h) \in Nat /\ Sync!Parent(h) \in Sync!Hash
  <2>1. Len(h) \in Nat
    BY LenProperties DEF Sync!Hash
  <2> QED BY <1>2, <2>1 DEF Sync!Parent
<1>4. ASSUME NEW l \in Int, l <= n PROVE SubSeq(pendingBlocks, 1, l) \in Seq(H)
  <2>1. \A i \in 1 .. l : pendingBlocks[i] \in H
    <3> HIDE DEF H
    <3> QED BY <1>1, <1>4, ElementOfSeq
  <2> QED BY <2>1, SubSeqProperties
<1>5. ASSUME NEW k \in 0 .. n PROVE Sync!HeadAfter(b, k) \in Sync!Hash
  <2>1. k = 0 \/ pendingBlocks[n + 1 - k] \in H
    <3> HIDE DEF H
    <3> QED BY <1>1, ElementOfSeq
  <2> QED BY <1>1, <2>1 DEF Sync!HeadAfter, Sync!Popped
<1>6. ASSUME Sync!insert_pending_block(b) PROVE pendingBlocks' \in Seq(H)
  <2>1. PICK i \in Sync!PendingIndices(b) : pendingBlocks' =
            SubSeq(pendingBlocks, 1, i - 1) \o <<b>> \o SubSeq(pendingBlocks, i, Len(pendingBlocks))
    BY <1>6 DEF Sync!insert_pending_block
  <2>2. i \in 1 .. n + 1
    BY <1>1, LenProperties DEF Sync!PendingIndices
  <2>3. SubSeq(pendingBlocks, 1, i - 1) \in Seq(H)
    BY <1>1, <1>4, <2>2
  <2>4. SubSeq(pendingBlocks, i, Len(pendingBlocks)) \in Seq(H)
    <3> HIDE DEF H
    <3> QED BY <1>1, <2>2, Part
  <2>5. <<b>> \in Seq(H)
    BY <1>1
  <2> HIDE DEF H
  <2> QED BY <2>1, <2>3, <2>4, <2>5, ConcatProperties
<1>7. CASE Sync!CommitTooHigh(b) \/ Sync!CommitAgain(b)
  BY <1>1, <1>6, <1>7 DEF Sync!CommitTooHigh, Sync!CommitAgain
<1>8. CASE Sync!CommitReorg(b)
  <2>1. Len(b) \in Nat /\ Len(db) \in Nat /\ Len(b) <= Len(db) + 1
    BY <1>1, <1>3, <1>8 DEF Sync!CommitReorg, Sync!Number
  <2>2. Sync!RolledBack(b) \in Sync!Hash
    BY <1>1, <1>2, <2>1 DEF Sync!RolledBack, Sync!Number
  <2> QED BY <1>3, <1>6, <1>8, <2>2 DEF Sync!CommitReorg
<1>9. CASE Sync!CommitNext(b)
  <2>1. PICK k \in 0 .. n : /\ db' = Sync!HeadAfter(b, k)
                            /\ pendingBlocks' = SubSeq(pendingBlocks, 1, n - k)
    BY <1>9 DEF Sync!CommitNext
  <2> QED BY <1>1, <1>4, <1>5, <2>1
<1>10. CASE Sync!CommitMismatch(b)
  <2>1. PICK k \in 0 .. n : /\ db' = Sync!Parent(Sync!HeadAfter(b, k))
                            /\ pendingBlocks' = SubSeq(pendingBlocks, 1, n - k - 1)
    BY <1>10 DEF Sync!CommitMismatch
  <2> QED BY <1>1, <1>3, <1>4, <1>5, <2>1
<1> QED BY <1>7, <1>8, <1>9, <1>10 DEF Sync!commit_block

LEMMA BlockType ==
    ASSUME SortingType, NEW b \in Block \cup OwnBlock
    PROVE  b \in Sync!Hash \ {<<>>}
<1> DEFINE C == Sync!Content
           c == [time |-> 0, txs |-> block]
<1>1. Block \subseteq Sync!Hash \ {<<>>}
  BY ChainAssumption
<1>2. c \in C
  BY DEF SortingType, Sync!Content
<1>3. db \in Seq(C)
  BY DEF SortingType, Sync!Hash
<1>4. b \in Block \/ b = Append(db, c)
  BY DEF OwnBlock
<1>5. Sync!Hash = Seq(C)
  BY DEF Sync!Hash
<1> HIDE DEF C, c
<1>6. Append(db, c) \in Seq(C) /\ Append(db, c) # <<>>
  BY <1>2, <1>3, AppendProperties
<1> QED BY <1>1, <1>4, <1>5, <1>6

LEMMA SharedAtType ==
    ASSUME SortingType, NEW h \in Sync!Hash, NEW own
    PROVE  SharedAt(h, own) \in [Sender -> Nat]
BY NoncesAtType DEF SharedAt, SortingType

\* SequencerContext::commit_block, of any block.
LEMMA CommitBlockType ==
    ASSUME SortingType, NEW b \in Sync!Hash \ {<<>>}, NEW own, commit_block(b, own)
    PROVE  /\ db' \in Sync!Hash /\ pendingBlocks' \in Seq(Sync!Hash \ {<<>>})
           /\ shared' \in [Sender -> Nat] /\ tx_pool' \in Pool
<1>1. db' \in Sync!Hash /\ pendingBlocks' \in Seq(Sync!Hash \ {<<>>})
  BY CommitType DEF commit_block
<1>2. shared' = SharedAt(db', own) /\ tx_pool' = handle_new_block(tx_pool, b[Len(b)].txs, shared')
  BY DEF commit_block
<1>3. shared' \in [Sender -> Nat]
  BY <1>1, <1>2, SharedAtType
<1>4. b[Len(b)].txs \in Seq(Transaction)
  <2>1. b \in Seq(Sync!Content) /\ b # <<>>
    BY DEF Sync!Hash
  <2>2. Len(b) \in 1 .. Len(b)
    BY <2>1
  <2>3. b[Len(b)] \in Sync!Content
    BY <2>1, <2>2, ElementOfSeq
  <2> QED BY <2>3 DEF Sync!Content
<1>5. tx_pool' \in Pool
  BY <1>2, <1>3, <1>4, NewBlockPool DEF SortingType
<1> QED BY <1>1, <1>3, <1>5

\* The variables of the sorter have their types.
THEOREM SortingTypeCorrect == SortingSpec => []SortingType
<1>1. SortingInit => SortingType
  <2> SUFFICES ASSUME SortingInit PROVE SortingType
    OBVIOUS
  <2>1. tx_pool \in Pool
    <3>1. \A s \in Sender : <<>> \in Seq(Transaction) /\ <<>> \in Seq(TxsOf(s))
      OBVIOUS
    <3>2. [s \in Sender |-> <<>>] \in Lists
      BY <3>1, Zenon DEF Lists
    <3> QED BY <3>2 DEF SortingInit, EmptyPool, Pool
  <2> DEFINE nonces == NoncesAt(InitHead)
  <2>2. nonces \in [Sender -> Nat]
    BY NoncesAtType, ChainAssumption
  <2>3. IsSorting(sorting) /\ sorting.id = 1
    <3> DEFINE sd == [id |-> 0]
               orders == <<>>
    <3>1. sd.id = 0 /\ sd.id \in Nat /\ orders \in Seq(Order)
      OBVIOUS
    <3>3. sorting = NewSorting(sd, orders, nonces, 0)
      BY DEF SortingInit
    <3> HIDE DEF sd, orders, nonces
    <3>2. IsSorting(NewSorting(sd, orders, nonces, 0)) /\ NewSorting(sd, orders, nonces, 0).id = sd.id + 1
      BY <2>2, <3>1, NewSortingType
    <3> QED BY <3>1, <3>2, <3>3
  <2>4. IsRequests(requests, sorting.id)
    <3>3. requests = [x \in {} |-> 1]
      BY DEF SortingInit, EmptyBag
    <3>1. DOMAIN requests = {} /\ requests \in [{} -> Nat \ {0}]
      BY <3>3
    <3>2. IsFiniteSet(DOMAIN requests)
      BY <3>1, FS_EmptySet
    <3> QED BY <3>1, <3>2 DEF IsRequests, IsBagOf
  <2>5. /\ state = "Waiting" /\ deposits \in Seq(Deposit) /\ block \in Seq(Transaction)
        /\ base = nonces /\ shared = nonces
        /\ db \in Sync!Hash /\ pendingBlocks \in Seq(Sync!Hash \ {<<>>})
    BY ChainAssumption DEF SortingInit, Sync!SyncInit
  <2> HIDE DEF nonces
  <2> QED BY <2>1, <2>2, <2>3, <2>4, <2>5 DEF SortingType
<1>2. SortingType /\ [SortingNext]_sortingVars => SortingType'
  <2> SUFFICES ASSUME SortingType, [SortingNext]_sortingVars PROVE SortingType'
    OBVIOUS
  <2>0. sorting.id \in Nat /\ IsRequests(requests, sorting.id + 1)
    BY FreshState DEF SortingType, IsSorting
  <2>1. ASSUME NEW tx \in Tx, HandleNewTx(tx) PROVE SortingType'
    <3>1. UNCHANGED <<state, context, requests>>
      BY <2>1 DEF HandleNewTx
    <3> QED BY <2>1, <3>1, NewTxType DEF SortingType, context, chain
  <2>2. ASSUME NEW r \in DOMAIN requests, HandleSimResult(r) PROVE SortingType'
    <3>1. UNCHANGED <<state, tx_pool, deposits, context>>
      BY <2>2 DEF HandleSimResult
    <3> QED BY <2>2, <3>1, ResultType DEF SortingType, context, chain
  <2>3. CASE TickSend
    <3> DEFINE sd == maybe_apply(sorting)
    <3>1. IsSorting(sd) /\ IsRequests(requests, sd.id) /\ SendNext(sd, requests)
      BY <2>3, TickSendType
    <3>2. deposits \in Seq(Deposit) /\ UNCHANGED <<tx_pool, context>>
      BY <2>3 DEF TickSend, SortingType
    <3> HIDE DEF sd
    <3>3. /\ IsSorting(sorting') /\ IsRequests(requests', sorting'.id) /\ deposits' \in Seq(Deposit)
          /\ state' \in {"Deposit", "Sorting"}
      BY <3>1, <3>2, SendNextType
    <3> QED BY <3>2, <3>3 DEF SortingType, context, chain
  <2>4. ASSUME NEW r \in DOMAIN requests, DepositResult(r) PROVE SortingType'
    <3>0. deposits \in Seq(Deposit) /\ UNCHANGED <<tx_pool, context>>
      BY <2>4 DEF DepositResult, SortingType
    <3>1. CASE is_valid(r)
      <4> DEFINE sd == apply_tx(sorting, r.tx)
                 B == Without(requests, r)
      <4>1. IsSorting(sd) /\ IsRequests(B, sd.id) /\ SendNext(sd, B)
        BY <2>4, <3>1, DepositType, Zenon
      <4> HIDE DEF sd, B
      <4>2. /\ IsSorting(sorting') /\ IsRequests(requests', sorting'.id) /\ deposits' \in Seq(Deposit)
            /\ state' \in {"Deposit", "Sorting"}
        BY <3>0, <4>1, SendNextType, Zenon
      <4> QED BY <3>0, <4>2 DEF SortingType, context, chain
    <3>2. CASE ~ is_valid(r)
      BY <2>4, <3>0, <3>2, RestOfDeposits, Zenon DEF SortingType, context, chain
    <3> QED BY <3>1, <3>2
  <2>5. CASE TickSeal
    <3>1. remove_mined_txs(tx_pool, sorting.txs) \in Pool
      BY RemoveMinedPool DEF SortingType, IsSorting
    <3>2. seal_frag(remove_mined_txs(tx_pool, sorting.txs)) /\ state' = state /\
          UNCHANGED <<deposits, db, pendingBlocks, base, requests>>
      BY <2>5 DEF TickSeal, chain
    <3>3. /\ tx_pool' \in Pool /\ shared' = sorting.nonces /\ block' \in Seq(Transaction)
          /\ IsSorting(sorting') /\ sorting'.id = sorting.id + 1
      BY <3>1, <3>2, SealType, Zenon
    <3> QED BY <2>0, <3>2, <3>3, Zenon DEF SortingType, IsSorting
  <2>6. CASE GetPayload
    <3>1. tx_pool \in Pool
      BY DEF SortingType
    <3>2. seal_frag(tx_pool) /\ state' = "Waiting" /\ UNCHANGED <<deposits, db, pendingBlocks, base, requests>>
      BY <2>6 DEF GetPayload, chain
    <3>3. /\ tx_pool' \in Pool /\ shared' = sorting.nonces /\ block' \in Seq(Transaction)
          /\ IsSorting(sorting') /\ sorting'.id = sorting.id + 1
      BY <3>1, <3>2, SealType
    <3> QED BY <2>0, <3>2, <3>3, Zenon DEF SortingType, IsSorting
  <2>7. CASE StartSequencing
    <3>1. /\ state' = "Sorting" /\ base' = shared /\ block' = <<>>
          /\ UNCHANGED <<deposits, db, pendingBlocks, requests>>
      BY <2>7 DEF StartSequencing, chain
    <3>2. /\ tx_pool' \in Pool /\ IsSorting(sorting') /\ sorting'.id = sorting.id + 1
          /\ shared' \in [Sender -> Nat]
      BY <2>7, StartType
    <3> QED BY <2>0, <3>1, <3>2 DEF SortingType
  <2>8. CASE HandleBlock
    <3>1. UNCHANGED <<state, deposits, base, block, sorting, requests>>
      BY <2>8 DEF HandleBlock
    <3>2. PICK b \in Block \cup OwnBlock : NewPayload(b) \/ BlockSynced(b)
      BY <2>8 DEF HandleBlock
    <3>3. b \in Sync!Hash \ {<<>>}
      BY BlockType
    <3>4. /\ db' \in Sync!Hash /\ pendingBlocks' \in Seq(Sync!Hash \ {<<>>})
          /\ shared' \in [Sender -> Nat] /\ tx_pool' \in Pool
      <4>1. ASSUME NEW own, commit_block(b, own) PROVE <3>4!:
        BY <3>3, <4>1, CommitBlockType
      <4>2. CASE shared' = SharedAt(db, {}) /\ UNCHANGED <<db, pendingBlocks, tx_pool>>
        BY <4>2, SharedAtType, Zenon DEF SortingType
      <4> QED BY <3>2, <4>1, <4>2, Zenon DEF NewPayload, BlockSynced
    <3> QED BY <3>1, <3>4, Zenon DEF SortingType
  <2>9. CASE UNCHANGED sortingVars
    BY <2>9, Zenon DEF SortingType, sortingVars, context, chain
  <2> QED
    BY <2>1, <2>2, <2>3, <2>4, <2>5, <2>6, <2>7, <2>8, <2>9 DEF SortingNext, Loop
<1> QED BY <1>1, <1>2, PTL DEF SortingSpec

-----------------------------------------------------------------------------
(***************************************************************************)
(* Every result that counts is waited for, and has an order.               *)
(***************************************************************************)
Outstanding ==
    /\ state = "Sorting" =>
         /\ Count(requests, At(sorting.id)) = sorting.in_flight_sims
         /\ \A s : Count(requests, Of(sorting.id, s)) + Kept(sorting.next, s)
                      <= Own(sorting.orders, s)
    /\ state = "Deposit" =>
         /\ Count(requests, At(sorting.id)) = 1
         /\ \A r \in DOMAIN requests \cap At(sorting.id) : r.tx.deposit

\* SendNext, from a state that nothing is out on.
LEMMA SendNextOutstanding ==
    ASSUME NEW sd, IsSorting(sd), sd.next = {}, NEW B, IsRequests(B, sd.id), deposits \in Seq(Deposit),
           SendNext(sd, B), DOMAIN B \cap At(sd.id) = {}
    PROVE  Outstanding'
<1>1. Count(B, At(sd.id)) = 0 /\ \A s : Count(B, Of(sd.id, s)) = 0
  <2>1. \A s : DOMAIN B \cap Of(sd.id, s) = {}
    BY DEF Of
  <2> QED BY <2>1, CountNone, Zenon
<1>2. /\ IsSorting(sorting') /\ sorting'.id = sd.id /\ sorting'.next = {}
      /\ \/ /\ state' = "Deposit"
            /\ Count(requests', At(sd.id)) = Count(B, At(sd.id)) + 1
            /\ \A r \in DOMAIN requests' : r \in DOMAIN B \/ r.tx.deposit
         \/ /\ state' = "Sorting"
            /\ Count(requests', At(sd.id)) = Count(B, At(sd.id)) + sorting'.in_flight_sims
            /\ \A s : \E sent \in Nat :
                   /\ sent <= Own(sorting'.orders, s)
                   /\ Count(requests', Of(sd.id, s)) = Count(B, Of(sd.id, s)) + sent
  BY SendNextType, Zenon
<1>3. CASE state' = "Deposit"
  <2>1. Count(requests', At(sorting'.id)) = 1
    BY <1>1, <1>2, <1>3
  <2>2. \A r \in DOMAIN requests' \cap At(sorting'.id) : r.tx.deposit
    BY <1>2, <1>3, Zenon
  <2> QED BY <1>3, <2>1, <2>2, Zenon DEF Outstanding
<1>4. CASE state' = "Sorting"
  <2>1. IsRequests(requests', sd.id)
    BY SendNextType, Zenon
  <2>2. Count(requests', At(sd.id)) = 0 + sorting'.in_flight_sims
    BY <1>1, <1>2, <1>4, Zenon
  <2>3. Count(requests', At(sorting'.id)) = sorting'.in_flight_sims
    <3>1. Count(requests', At(sd.id)) \in Nat
      BY <2>1, TokensFinite, Zenon DEF IsRequests
    <3>2. sorting'.in_flight_sims \in Int
      <4>1. CASE deposits = <<>>
        <5> DEFINE r == send_next(sd)
        <5>1. sorting' = [sd EXCEPT !.orders = r.orders, !.in_flight_sims = Len(r.sent)]
          BY <4>1 DEF SendNext
        <5>2. r \in Batch
          BY SendNextBatch, Zenon DEF IsSorting
        <5> HIDE DEF r
        <5>3. Len(r.sent) \in Nat
          BY <5>2, BatchFields
        <5>4. sorting'.in_flight_sims = Len(r.sent)
          BY <5>1 DEF IsSorting, Fields
        <5> QED BY <5>3, <5>4
      <4> QED BY <1>4, <4>1 DEF SendNext
    <3>3. sorting'.id = sd.id
      BY <1>2, Zenon
    <3> QED BY <2>2, <3>1, <3>2, <3>3
  <2>4. ASSUME NEW s
        PROVE  Count(requests', Of(sorting'.id, s)) + Kept(sorting'.next, s) <= Own(sorting'.orders, s)
    <3>1. PICK sent \in Nat :
              /\ sent <= Own(sorting'.orders, s)
              /\ Count(requests', Of(sd.id, s)) = Count(B, Of(sd.id, s)) + sent
      BY <1>2, <1>4, Zenon
    <3>2. Kept(sorting'.next, s) = 0
      BY <1>2, KeptIs, Zenon
    <3>3. Count(requests', Of(sorting'.id, s)) = 0 + sent
      BY <1>1, <1>2, <3>1, Zenon
    <3> QED BY <3>1, <3>2, <3>3
  <2> QED BY <1>4, <2>3, <2>4, Zenon DEF Outstanding
<1> QED BY <1>2, <1>3, <1>4, Zenon

\* A state that has just been made, with nothing sent for.
LEMMA FreshOutstanding ==
    ASSUME SortingType, IsSorting(sorting'), sorting'.id = sorting.id + 1, sorting'.next = {},
           sorting'.in_flight_sims = 0, requests' = requests, state' # "Deposit"
    PROVE  Outstanding'
<1>1. /\ Count(requests', At(sorting'.id)) = 0 /\ \A s : Count(requests', Of(sorting'.id, s)) = 0
  BY FreshState DEF SortingType, IsSorting
<1>2. ASSUME NEW s
      PROVE  Count(requests', Of(sorting'.id, s)) + Kept(sorting'.next, s) <= Own(sorting'.orders, s)
  <2>1. Kept(sorting'.next, s) = 0
    BY KeptIs
  <2>2. Own(sorting'.orders, s) \in Nat
    BY OrdersFinite DEF IsSorting
  <2>3. Count(requests', Of(sorting'.id, s)) = 0
    BY <1>1
  <2> QED BY <2>1, <2>2, <2>3
<1> QED BY <1>1, <1>2, Zenon DEF Outstanding

LEMMA ResultOutstanding ==
    ASSUME SortingType, Outstanding, NEW r \in DOMAIN requests, HandleSimResult(r)
    PROVE  Outstanding'
<1>0. state' = state /\ state # "Deposit"
  BY DEF HandleSimResult
<1>1. SUFFICES ASSUME state = "Sorting" PROVE Outstanding'
  BY <1>0, Zenon DEF Outstanding
<1>2. IsSorting(sorting) /\ IsRequests(requests, sorting.id) /\ requests' = Without(requests, r)
  BY ResultType DEF SortingType
<1>3. /\ r \in Simulation /\ r.tx \in Transaction
      /\ \A Q : Count(Without(requests, r), Q) =
                    IF r \in Q THEN Count(requests, Q) - 1 ELSE Count(requests, Q)
  BY <1>2, AnswerRequests
<1>4. r \in At(sorting.id) <=> is_valid(r)
  BY <1>3, Zenon DEF is_valid, At, Simulation
<1>5. \A Q : Count(requests, Q) \in Nat
  BY <1>2, TokensFinite, Zenon DEF IsRequests
<1>6. /\ Count(requests, At(sorting.id)) = sorting.in_flight_sims
      /\ \A s : Count(requests, Of(sorting.id, s)) + Kept(sorting.next, s) <= Own(sorting.orders, s)
  BY <1>1, Zenon DEF Outstanding
<1>7. CASE ~ is_valid(r)
  <2>1. sorting' = sorting
    BY <1>7 DEF HandleSimResult
  <2>2. r \notin At(sorting.id) /\ \A s : r \notin Of(sorting.id, s)
    BY <1>4, <1>7 DEF Of
  <2>3. /\ Count(requests', At(sorting.id)) = Count(requests, At(sorting.id))
        /\ \A s : Count(requests', Of(sorting.id, s)) = Count(requests, Of(sorting.id, s))
    BY <1>2, <1>3, <2>2
  <2> QED BY <1>0, <1>1, <1>6, <2>1, <2>3, Zenon DEF Outstanding
<1>8. CASE is_valid(r)
  <2> DEFINE new == handle_sim(sorting, r.tx)
  <2>1. sorting' = new
    BY <1>1, <1>8 DEF HandleSimResult
  <2>2. /\ IsSorting(new) /\ new.id = sorting.id /\ new.in_flight_sims = sorting.in_flight_sims - 1
        /\ \A s : Kept(new.next, s) + Own(sorting.orders, s) <=
               Own(new.orders, s) + Kept(sorting.next, s) + (IF r.tx.sender = s THEN 1 ELSE 0)
    BY <1>2, <1>3, HandleSimSorting, Zenon
  <2> HIDE DEF new
  <2>3. Count(requests', At(new.id)) = new.in_flight_sims
    <3>1. Count(requests', At(sorting.id)) = Count(requests, At(sorting.id)) - 1
      BY <1>2, <1>3, <1>4, <1>8
    <3> QED BY <1>6, <2>2, <3>1, Zenon
  <2>4. ASSUME NEW s PROVE Count(requests', Of(new.id, s)) + Kept(new.next, s) <= Own(new.orders, s)
    <3> DEFINE d == IF r.tx.sender = s THEN 1 ELSE 0
               c == Count(requests, Of(sorting.id, s))
    <3>1. r \in Of(sorting.id, s) <=> r.tx.sender = s
      BY <1>4, <1>8 DEF Of
    <3>2. Count(requests', Of(new.id, s)) = c - d
      <4>1. Count(requests', Of(sorting.id, s)) = IF r \in Of(sorting.id, s) THEN c - 1 ELSE c
        BY <1>2, <1>3, Zenon
      <4>2. new.id = sorting.id /\ c \in Nat
        BY <1>5, <2>2, Zenon
      <4> HIDE DEF c
      <4> QED BY <3>1, <4>1, <4>2
    <3>3. /\ Own(sorting.orders, s) \in Nat /\ Own(new.orders, s) \in Nat
          /\ Kept(sorting.next, s) \in Nat /\ Kept(new.next, s) \in Nat
      BY <1>2, <2>2, OrdersFinite, KeptType, Zenon DEF IsSorting
    <3>4. c \in Nat /\ d \in Nat
      BY <1>5
    <3>5. c + Kept(sorting.next, s) <= Own(sorting.orders, s)
      BY <1>6
    <3>6. Kept(new.next, s) + Own(sorting.orders, s) <= Own(new.orders, s) + Kept(sorting.next, s) + d
      BY <2>2, Zenon
    <3> HIDE DEF c, d
    <3> QED BY <3>2, <3>3, <3>4, <3>5, <3>6
  <2> QED BY <1>0, <1>1, <2>1, <2>3, <2>4, Zenon DEF Outstanding
<1> QED BY <1>7, <1>8

LEMMA NewTxOutstanding ==
    ASSUME SortingType, Outstanding, NEW tx \in Tx, HandleNewTx(tx)
    PROVE  Outstanding'
<1>1. state' = state /\ requests' = requests /\ state # "Deposit"
  BY DEF HandleNewTx
<1>2. /\ IsSorting(sorting') /\ sorting'.id = sorting.id /\ sorting'.next = sorting.next
      /\ sorting'.in_flight_sims = sorting.in_flight_sims
      /\ \A s : Own(sorting'.orders, s) >= Own(sorting.orders, s)
  BY NewTxType
<1>3. ASSUME state = "Sorting", NEW s
      PROVE  Count(requests', Of(sorting'.id, s)) + Kept(sorting'.next, s) <= Own(sorting'.orders, s)
  <2>1. Count(requests, Of(sorting.id, s)) \in Nat
    BY TokensFinite, Zenon DEF SortingType, IsRequests
  <2>2. Kept(sorting.next, s) \in Nat /\ Own(sorting.orders, s) \in Nat /\ Own(sorting'.orders, s) \in Nat
    BY <1>2, KeptType, OrdersFinite, Zenon DEF SortingType, IsSorting
  <2>3. Count(requests, Of(sorting.id, s)) + Kept(sorting.next, s) <= Own(sorting.orders, s)
    BY <1>3, Zenon DEF Outstanding
  <2>4. Own(sorting'.orders, s) >= Own(sorting.orders, s)
    BY <1>2
  <2>5. Count(requests', Of(sorting'.id, s)) = Count(requests, Of(sorting.id, s))
        /\ Kept(sorting'.next, s) = Kept(sorting.next, s)
    BY <1>1, <1>2
  <2> QED BY <2>1, <2>2, <2>3, <2>4, <2>5
<1>4. state = "Sorting" => Count(requests', At(sorting'.id)) = sorting'.in_flight_sims
  BY <1>1, <1>2, Zenon DEF Outstanding
<1> QED BY <1>1, <1>3, <1>4, Zenon DEF Outstanding

LEMMA OutstandingStep ==
    ASSUME SortingType, SortingInv, Outstanding, [SortingNext]_sortingVars
    PROVE  Outstanding'
<1>0. deposits \in Seq(Deposit) /\ IsSorting(sorting) /\ IsRequests(requests, sorting.id)
  BY DEF SortingType
<1>1. ASSUME NEW tx \in Tx, HandleNewTx(tx) PROVE Outstanding'
  BY <1>1, NewTxOutstanding
<1>2. ASSUME NEW r \in DOMAIN requests, HandleSimResult(r) PROVE Outstanding'
  BY <1>2, ResultOutstanding
<1>3. CASE TickSend
  <2> DEFINE sd == maybe_apply(sorting)
  <2>1. /\ IsSorting(sd) /\ sd.next = {} /\ IsRequests(requests, sd.id) /\ SendNext(sd, requests)
        /\ sd = sorting \/ sd.id = sorting.id + 1
    BY <1>3, TickSendType
  <2> HIDE DEF sd
  <2>2. DOMAIN requests \cap At(sd.id) = {}
    <3>1. CASE sd = sorting
      <4>1. Count(requests, At(sorting.id)) = 0
        BY <1>3, Zenon DEF TickSend, Outstanding
      <4> QED BY <1>0, <3>1, <4>1, NoneOfAny, Zenon DEF IsRequests
    <3>2. CASE sd.id = sorting.id + 1
      BY <1>0, <2>1, <3>2, AppliedState, Zenon
    <3> QED BY <2>1, <3>1, <3>2, Zenon
  <2> QED BY <1>0, <2>1, <2>2, SendNextOutstanding, Zenon
<1>4. ASSUME NEW r \in DOMAIN requests, DepositResult(r) PROVE Outstanding'
  <2>1. CASE is_valid(r)
    <3> DEFINE sd == apply_tx(sorting, r.tx)
               B == Without(requests, r)
    <3>1. /\ IsSorting(sd) /\ sd.next = sorting.next /\ IsRequests(B, sd.id) /\ SendNext(sd, B)
          /\ DOMAIN B \cap At(sd.id) = {}
      BY <1>4, <2>1, DepositType, Zenon
    <3>2. sorting.next = {}
      BY <1>4, Zenon DEF DepositResult, SortingInv
    <3> HIDE DEF sd, B
    <3> QED BY <1>0, <3>1, <3>2, SendNextOutstanding, Zenon
  <2>2. CASE ~ is_valid(r)
    <3>1. requests' = Without(requests, r) /\ UNCHANGED <<state, sorting>>
      BY <1>4, <2>2, RestOfDeposits
    <3>2. /\ DOMAIN Without(requests, r) \subseteq DOMAIN requests
          /\ \A Q : Count(Without(requests, r), Q) =
                        IF r \in Q THEN Count(requests, Q) - 1 ELSE Count(requests, Q)
      BY <1>0, AnswerRequests
    <3>3. r \notin At(sorting.id)
      BY <2>2 DEF is_valid, At
    <3>4. Count(requests', At(sorting.id)) = Count(requests, At(sorting.id))
      BY <3>1, <3>2, <3>3
    <3>5. state = "Deposit"
      BY <1>4 DEF DepositResult
    <3> QED BY <3>1, <3>2, <3>4, <3>5, Zenon DEF Outstanding
  <2> QED BY <2>1, <2>2
<1>5. CASE TickSeal
  <2>1. remove_mined_txs(tx_pool, sorting.txs) \in Pool
    BY RemoveMinedPool, Zenon DEF SortingType, IsSorting
  <2>2. /\ seal_frag(remove_mined_txs(tx_pool, sorting.txs)) /\ requests' = requests
        /\ state' # "Deposit"
    BY <1>5 DEF TickSeal
  <2> QED BY <2>1, <2>2, SealType, FreshOutstanding
<1>6. CASE GetPayload
  BY <1>6, Zenon DEF GetPayload, Outstanding
<1>7. CASE StartSequencing
  <2>1. requests' = requests /\ state' # "Deposit"
    BY <1>7 DEF StartSequencing
  <2> QED BY <1>7, <2>1, StartType, FreshOutstanding
<1>8. CASE HandleBlock
  BY <1>8, Zenon DEF HandleBlock, Outstanding
<1>9. CASE UNCHANGED sortingVars
  BY <1>9, Zenon DEF sortingVars, Outstanding
<1> QED
  BY <1>1, <1>2, <1>3, <1>4, <1>5, <1>6, <1>7, <1>8, <1>9 DEF SortingNext, Loop

LEMMA OutstandingInvariant == SortingSpec => []Outstanding
<1>1. SortingInit => Outstanding
  BY Zenon DEF SortingInit, Outstanding
<1>2. SortingType /\ SortingInv /\ Outstanding /\ [SortingNext]_sortingVars => Outstanding'
  BY OutstandingStep
<1> QED BY <1>1, <1>2, SortingTypeCorrect, SortingInvariant, PTL DEF SortingSpec

\* The counter that tick waits on is the number of valid simulations that are out: no
\* result is waited for that was dropped, and none is forgotten, for any transactions,
\* gas and number of simulations per round.
THEOREM WaitsForWhatIsOut == SortingSpec => []InFlightIsOutstanding
<1>1. SortingType /\ Outstanding => InFlightIsOutstanding
  <2> SUFFICES ASSUME SortingType, Outstanding PROVE InFlightIsOutstanding
    OBVIOUS
  <2>1. IsBagOf(requests, Simulation)
    BY DEF SortingType, IsRequests
  <2>2. Valid = DOMAIN requests \cap At(sorting.id)
    BY <2>1, CountAtIs, Zenon DEF Valid, is_valid
  <2>3. Copies(Valid) = Count(requests, At(sorting.id))
    BY <2>2 DEF Copies, Count, Tokens
  <2> QED BY <2>2, <2>3 DEF InFlightIsOutstanding, Outstanding
<1> QED BY <1>1, SortingTypeCorrect, OutstandingInvariant, PTL

\* Every result that may come has an order of its sender to remove, whatever orders were
\* removed before: the unreachable!() of remove_from_sender is not reached.
THEOREM NeverWithoutAnOrder == SortingSpec => []OrderForEveryResult
<1>1. SortingType /\ Outstanding => OrderForEveryResult
  <2> SUFFICES ASSUME SortingType, Outstanding, state = "Sorting", NEW s \in Sender
               PROVE  Copies({r \in Valid : r.tx.sender = s})
                        + Cardinality({t \in sorting.next : t.sender = s})
                        <= Cardinality(OrdersOf(sorting.orders, s))
    BY DEF OrderForEveryResult
  <2>1. IsBagOf(requests, Simulation)
    BY DEF SortingType, IsRequests
  <2>2. {r \in Valid : r.tx.sender = s} = DOMAIN requests \cap Of(sorting.id, s)
    <3>1. Valid = DOMAIN requests \cap At(sorting.id)
      BY <2>1, CountAtIs, Zenon DEF Valid, is_valid
    <3> QED BY <3>1 DEF Of
  <2>3. Copies({r \in Valid : r.tx.sender = s}) = Count(requests, Of(sorting.id, s))
    BY <2>2, Zenon DEF Copies, Count, Tokens
  <2>4. Count(requests, Of(sorting.id, s)) + Kept(sorting.next, s) <= Own(sorting.orders, s)
    BY DEF Outstanding
  <2> QED BY <2>3, <2>4, Zenon DEF Kept, Own
<1> QED BY <1>1, SortingTypeCorrect, OutstandingInvariant, PTL

-----------------------------------------------------------------------------
(***************************************************************************)
(* The block being built can be executed from the state it was started on. *)
(***************************************************************************)
\* The transactions of the sender among the first n.
Nonced(txs, n, s) == {j \in 1 .. n : txs[j].sender = s}

Chained(txs, from) ==
    \A i \in DOMAIN txs :
        txs[i].deposit \/ txs[i].nonce = from[txs[i].sender] + Cardinality(Nonced(txs, i - 1, txs[i].sender))

\* The nonces are those after the block.
Fits(txs, from, nonces) ==
    /\ Chained(txs, from)
    /\ \A s \in Sender : nonces[s] = from[s] + Cardinality(Nonced(txs, Len(txs), s))

LEMMA NoncedType ==
    ASSUME NEW txs, NEW n \in Nat, NEW s
    PROVE  IsFiniteSet(Nonced(txs, n, s)) /\ Cardinality(Nonced(txs, n, s)) \in Nat
<1>1. Nonced(txs, n, s) \in SUBSET (1 .. n)
  BY DEF Nonced
<1>2. IsFiniteSet(Nonced(txs, n, s)) /\ Cardinality(Nonced(txs, n, s)) \in 0 .. n
  BY <1>1, Counted
<1> QED BY <1>2

\* One transaction more, with the next nonce of its sender.
LEMMA FitsAppend ==
    ASSUME NEW txs \in Seq(Transaction), NEW t \in Transaction,
           NEW from \in [Sender -> Nat], NEW nonces \in [Sender -> Nat], Fits(txs, from, nonces),
           t.deposit \/ t.nonce = nonces[t.sender]
    PROVE  Fits(Append(txs, t), from, [nonces EXCEPT ![t.sender] = nonces[t.sender] + 1])
<1> DEFINE n == Len(txs)
           new == Append(txs, t)
           after == [nonces EXCEPT ![t.sender] = nonces[t.sender] + 1]
<1>0. n \in Nat /\ DOMAIN txs = 1 .. n /\ t.sender \in Sender
  BY LenProperties DEF Transaction
<1>1. /\ new \in Seq(Transaction) /\ Len(new) = n + 1
      /\ (\A j \in 1 .. n : new[j] = txs[j]) /\ new[n + 1] = t
  BY AppendProperties
<1>2. DOMAIN new = 1 .. n + 1
  BY <1>1, LenProperties
<1> HIDE DEF new
<1>3. ASSUME NEW i \in 0 .. n, NEW s PROVE Nonced(new, i, s) = Nonced(txs, i, s)
  <2>1. \A j \in 1 .. i : j \in 1 .. n
    BY <1>0
  <2> QED BY <1>1, <2>1, Zenon DEF Nonced
<1>4. ASSUME NEW s \in Sender
      PROVE  Cardinality(Nonced(new, n + 1, s)) =
                 IF t.sender = s THEN Cardinality(Nonced(txs, n, s)) + 1
                 ELSE Cardinality(Nonced(txs, n, s))
  <2>1. 1 .. n + 1 = (1 .. n) \cup {n + 1} /\ n + 1 \notin 1 .. n
    BY <1>0
  <2>2. IsFiniteSet(Nonced(txs, n, s))
    BY <1>0, NoncedType
  <2>3. CASE t.sender = s
    <3>1. Nonced(new, n + 1, s) = Nonced(txs, n, s) \cup {n + 1} /\ n + 1 \notin Nonced(txs, n, s)
      BY <1>1, <2>1, <2>3, Zenon DEF Nonced
    <3>2. Cardinality(Nonced(txs, n, s) \cup {n + 1}) = Cardinality(Nonced(txs, n, s)) + 1
      BY <2>2, <3>1, FS_AddElement, Zenon
    <3> QED BY <2>3, <3>1, <3>2, Zenon
  <2>4. CASE t.sender # s
    <3>1. Nonced(new, n + 1, s) = Nonced(txs, n, s)
      BY <1>1, <2>1, <2>4, Zenon DEF Nonced
    <3> QED BY <2>4, <3>1
  <2> QED BY <2>3, <2>4
<1>5. \A s \in Sender : nonces[s] = from[s] + Cardinality(Nonced(txs, n, s))
  BY DEF Fits
<1>6. Chained(new, from)
  <2> SUFFICES ASSUME NEW i \in 1 .. n + 1
               PROVE  new[i].deposit \/ new[i].nonce =
                          from[new[i].sender] + Cardinality(Nonced(new, i - 1, new[i].sender))
    BY <1>2, Zenon DEF Chained
  <2>1. CASE i = n + 1
    <3>1. new[i] = t /\ i - 1 = n /\ n \in 0 .. n
      BY <1>0, <1>1, <2>1
    <3>2. Nonced(new, n, t.sender) = Nonced(txs, n, t.sender)
      BY <1>3, <3>1
    <3> QED BY <1>0, <1>5, <3>1, <3>2, Zenon
  <2>2. CASE i # n + 1
    <3>1. i \in 1 .. n /\ i - 1 \in 0 .. n
      BY <1>0, <2>2
    <3>2. new[i] = txs[i] /\ Nonced(new, i - 1, txs[i].sender) = Nonced(txs, i - 1, txs[i].sender)
      BY <1>1, <1>3, <3>1, Zenon
    <3>3. txs[i].deposit \/ txs[i].nonce =
              from[txs[i].sender] + Cardinality(Nonced(txs, i - 1, txs[i].sender))
      BY <1>0, <3>1, Zenon DEF Fits, Chained
    <3> QED BY <3>2, <3>3, Zenon
  <2> QED BY <2>1, <2>2, Zenon
<1>7. ASSUME NEW s \in Sender PROVE after[s] = from[s] + Cardinality(Nonced(new, n + 1, s))
  <2>1. after[s] = IF t.sender = s THEN nonces[s] + 1 ELSE nonces[s]
    BY <1>0
  <2>2. nonces[s] = from[s] + Cardinality(Nonced(txs, n, s)) /\ from[s] \in Nat
        /\ Cardinality(Nonced(txs, n, s)) \in Nat
    BY <1>0, <1>5, NoncedType
  <2> HIDE DEF after
  <2> QED BY <1>4, <2>1, <2>2
<1> HIDE DEF after
<1>8. Fits(new, from, after)
  BY <1>1, <1>6, <1>7, Zenon DEF Fits
<1> QED BY <1>8 DEF new, after

\* Deposits have any nonce.
LEMMA FitsForced ==
    ASSUME NEW from \in [Sender -> Nat]
    PROVE  Fits(Forced, from, NonceAfter(from, Forced))
<1>1. /\ \A i \in DOMAIN Forced : Forced[i].deposit
      /\ DOMAIN Forced = 1 .. Len(Forced)
  BY ForcedAssumption, LenProperties
<1>2. Chained(Forced, from)
  BY <1>1, Zenon DEF Chained
<1>3. ASSUME NEW s \in Sender
      PROVE  NonceAfter(from, Forced)[s] = from[s] + Cardinality(Nonced(Forced, Len(Forced), s))
  BY <1>1, Zenon DEF NonceAfter, SentBy, Nonced
<1> QED BY <1>2, <1>3, Zenon DEF Fits

FragInv ==
    /\ state = "Waiting" => Chained(block, base)
    /\ state # "Waiting" => Fits(block \o sorting.txs, base, sorting.nonces)

LEMMA ApplyFits ==
    ASSUME NEW b \in Seq(Transaction), NEW txs \in Seq(Transaction), NEW t \in Transaction,
           NEW from \in [Sender -> Nat], NEW nonces \in [Sender -> Nat], Fits(b \o txs, from, nonces),
           t.deposit \/ t.nonce = nonces[t.sender]
    PROVE  Fits(b \o Append(txs, t), from, [nonces EXCEPT ![t.sender] = nonces[t.sender] + 1])
<1>1. b \o txs \in Seq(Transaction)
  BY ConcatProperties, Zenon
<1>2. b \o Append(txs, t) = Append(b \o txs, t)
  <2>1. Append(txs, t) = txs \o <<t>> /\ <<t>> \in Seq(Transaction)
    BY AppendIsConcat
  <2>2. Append(b \o txs, t) = (b \o txs) \o <<t>>
    BY <1>1, AppendIsConcat
  <2>3. (b \o txs) \o <<t>> = b \o (txs \o <<t>>)
    BY <2>1, ConcatAssociative
  <2> QED BY <2>1, <2>2, <2>3, Zenon
<1> QED BY ZenonT(30), <1>1, <1>2, FitsAppend

LEMMA FragStep ==
    ASSUME SortingType, SortingInv, Outstanding, FragInv, [SortingNext]_sortingVars
    PROVE  FragInv'
<1>0. /\ block \in Seq(Transaction) /\ sorting.txs \in Seq(Transaction)
      /\ base \in [Sender -> Nat] /\ sorting.nonces \in [Sender -> Nat] /\ IsSorting(sorting)
      /\ deposits \in Seq(Deposit)
  BY Zenon DEF SortingType, IsSorting
<1>1. ASSUME NEW tx \in Tx, HandleNewTx(tx) PROVE FragInv'
  <2>1. UNCHANGED <<state, base, block>>
    BY <1>1 DEF HandleNewTx, context
  <2> QED BY <1>1, <2>1, NewTxType, Zenon DEF FragInv
<1>2. ASSUME NEW r \in DOMAIN requests, HandleSimResult(r) PROVE FragInv'
  <2>1. UNCHANGED <<state, base, block>>
    BY <1>2, Zenon DEF HandleSimResult, context
  <2> QED BY <1>2, <2>1, ResultType, Zenon DEF FragInv
<1>3. CASE TickSend
  <2> DEFINE sd == maybe_apply(sorting)
  <2>1. IsSorting(sd) /\ IsRequests(requests, sd.id) /\ SendNext(sd, requests)
    BY <1>3, TickSendType, Zenon
  <2>2. state = "Sorting" /\ UNCHANGED <<base, block>>
    BY <1>3 DEF TickSend, context
  <2>3. Fits(block \o sorting.txs, base, sorting.nonces)
    BY <2>2 DEF FragInv
  <2>4. Fits(block \o sd.txs, base, sd.nonces)
    <3>1. CASE sorting.next = {}
      BY <1>0, <2>3, <3>1, MaybeApplySorting, Zenon
    <3>2. CASE sorting.next # {}
      <4> DEFINE t == Only(sorting.next)
      <4>1. t \in Transaction /\ t \in sorting.next
        BY <1>0, <3>2, OptionOnly DEF IsSorting
      <4>2. t.deposit \/ t.nonce = sorting.nonces[t.sender]
        BY <2>2, <4>1, Zenon DEF SortingInv, NextIsExecutable, Simulates
      <4>3. /\ sd.txs = Append(sorting.txs, t)
            /\ sd.nonces = [sorting.nonces EXCEPT ![t.sender] = sorting.nonces[t.sender] + 1]
        BY <1>0, <3>2, MaybeApplySorting, Zenon
      <4> HIDE DEF t, sd
      <4>4. Fits(block \o Append(sorting.txs, t), base,
                 [sorting.nonces EXCEPT ![t.sender] = sorting.nonces[t.sender] + 1])
        BY <1>0, <2>3, <4>1, <4>2, ApplyFits, Zenon
      <4> QED BY <4>3, <4>4, Zenon
    <3> QED BY <3>1, <3>2, Zenon
  <2> HIDE DEF sd
  <2>5. sorting'.txs = sd.txs /\ sorting'.nonces = sd.nonces /\ state' # "Waiting"
    BY <1>0, <2>1, SendNextType, Zenon
  <2> QED BY <2>2, <2>4, <2>5, Zenon DEF FragInv
<1>4. ASSUME NEW r \in DOMAIN requests, DepositResult(r) PROVE FragInv'
  <2>1. state = "Deposit" /\ UNCHANGED <<base, block>>
    BY <1>4 DEF DepositResult, context
  <2>2. Fits(block \o sorting.txs, base, sorting.nonces)
    BY <2>1 DEF FragInv
  <2>3. CASE is_valid(r)
    <3> DEFINE sd == apply_tx(sorting, r.tx)
               B == Without(requests, r)
               t == r.tx
    <3>1. /\ IsSorting(sd) /\ IsRequests(B, sd.id) /\ SendNext(sd, B)
          /\ sd.txs = Append(sorting.txs, t)
          /\ sd.nonces = [sorting.nonces EXCEPT ![t.sender] = sorting.nonces[t.sender] + 1]
      BY <1>4, <2>3, DepositType, Zenon
    <3>2. r \in Simulation /\ t \in Transaction
      BY AnswerRequests DEF SortingType
    <3>3. t.deposit
      <4>1. r \in At(sorting.id)
        BY <2>3, <3>2, Zenon DEF is_valid, At, Simulation
      <4> QED BY <2>1, <4>1 DEF Outstanding
    <3> HIDE DEF sd, B, t
    <3>4. Fits(block \o sd.txs, base, sd.nonces)
      <4>1. Fits(block \o Append(sorting.txs, t), base,
                 [sorting.nonces EXCEPT ![t.sender] = sorting.nonces[t.sender] + 1])
        BY <1>0, <2>2, <3>2, <3>3, ApplyFits, Zenon
      <4> QED BY <3>1, <4>1, Zenon
    <3>5. sorting'.txs = sd.txs /\ sorting'.nonces = sd.nonces /\ state' # "Waiting"
      BY <1>0, <3>1, SendNextType, Zenon
    <3> QED BY <2>1, <3>4, <3>5, Zenon DEF FragInv
  <2>4. CASE ~ is_valid(r)
    <3>1. UNCHANGED <<state, sorting>>
      BY <1>4, <2>4, RestOfDeposits
    <3> QED BY <2>1, <2>2, <3>1 DEF FragInv
  <2> QED BY <2>3, <2>4
<1>5. CASE TickSeal
  <2>1. remove_mined_txs(tx_pool, sorting.txs) \in Pool
    BY <1>0, RemoveMinedPool, Zenon DEF SortingType
  <2>2. seal_frag(remove_mined_txs(tx_pool, sorting.txs)) /\ UNCHANGED <<state, base>> /\ state = "Sorting"
    BY <1>5, Zenon DEF TickSeal
  <2>3. /\ block' = block \o sorting.txs /\ block' \in Seq(Transaction)
        /\ sorting'.nonces = sorting.nonces /\ sorting'.txs = <<>>
    BY <2>1, <2>2, SealType, Zenon
  <2>4. block' \o sorting'.txs = block \o sorting.txs
    BY <2>3, ConcatEmptySeq
  <2> QED BY <2>2, <2>3, <2>4, Zenon DEF FragInv
<1>6. CASE GetPayload
  <2>1. tx_pool \in Pool /\ seal_frag(tx_pool) /\ state' = "Waiting" /\ base' = base /\ state = "Sorting"
    BY <1>6, Zenon DEF GetPayload, SortingType
  <2>2. block' = block \o sorting.txs
    BY <2>1, SealType
  <2> QED BY <2>1, <2>2, Zenon DEF FragInv, Fits
<1>7. CASE StartSequencing
  <2>1. state' = "Sorting" /\ base' = shared /\ block' = <<>> /\ shared \in [Sender -> Nat]
    BY <1>7, Zenon DEF StartSequencing, SortingType
  <2>2. sorting'.nonces = NonceAfter(shared, Forced) /\ sorting'.txs = Forced
    BY <1>7, StartType, Zenon
  <2>3. block' \o sorting'.txs = Forced
    BY <2>1, <2>2, ForcedAssumption, ConcatEmptySeq, Zenon
  <2>4. Fits(Forced, shared, NonceAfter(shared, Forced))
    BY <2>1, FitsForced
  <2> QED BY <2>1, <2>2, <2>3, <2>4, Zenon DEF FragInv
<1>8. CASE HandleBlock
  BY <1>8, Zenon DEF HandleBlock, FragInv
<1>9. CASE UNCHANGED sortingVars
  BY <1>9, Zenon DEF sortingVars, context, FragInv
<1> QED
  BY <1>1, <1>2, <1>3, <1>4, <1>5, <1>6, <1>7, <1>8, <1>9 DEF SortingNext, Loop

\* Every frag can be executed by whoever replays it: for any transactions and any order
\* of results, the block holds each sender's transactions with consecutive nonces from
\* the state it was started on.
THEOREM BlockIsExecutable == SortingSpec => []FragsExecutable
<1>1. SortingInit => FragInv
  BY DEF SortingInit, FragInv, Chained
<1>2. SortingType /\ SortingInv /\ Outstanding /\ FragInv /\ [SortingNext]_sortingVars => FragInv'
  BY FragStep
<1>3. FragInv => FragsExecutable
  <2> SUFFICES ASSUME FragInv, NEW i \in DOMAIN Built
               PROVE  Built[i].deposit \/ Built[i].nonce = base[Built[i].sender] + Cardinality(
                         {j \in 1 .. i - 1 : Built[j].sender = Built[i].sender})
    BY DEF FragsExecutable
  <2>1. Chained(Built, base)
    BY DEF FragInv, Fits, Built
  <2> QED BY <2>1 DEF Chained, Nonced
<1> QED
  BY <1>1, <1>2, <1>3, SortingTypeCorrect, SortingInvariant, OutstandingInvariant, PTL DEF SortingSpec
=============================================================================
