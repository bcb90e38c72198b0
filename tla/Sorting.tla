------------------------------- MODULE Sorting -------------------------------
(***************************************************************************)
(* How the gateway fills a block (based/crates/sequencer: tick,            *)
(* handle_sim_result and handle_new_tx of lib.rs, sorting/, seal_frag and  *)
(* start_sequencing of context.rs).  The sorter sends transactions to the  *)
(* simulators, keeps the best of the results, applies it once they are all *)
(* back, and hands the frag over when its time has passed.  Transactions,  *)
(* results and engine calls arrive in any order in between.                *)
(*                                                                         *)
(* A state is abstracted to the nonces of the senders, and a state id to a *)
(* number that no two states share.  A simulation succeeds when the nonce  *)
(* is the next one and the sender can pay; its outcome is worked out when  *)
(* its result is received, which is the same for a result that is still    *)
(* valid, and a result that is not is dropped unread.  Payment is the fee. *)
(* Every transaction counts for the nonce of its sender, a deposit too.    *)
(*                                                                         *)
(* Between two blocks payloads and fetched blocks come in any order, with  *)
(* whatever BlockSync makes of them; which of them the sequencer waits for *)
(* is the subject of Gateway.  commit_sealed_frags_to_db is off: where it  *)
(* is on, GetPayload is followed by BlockSynced and NewPayload of the      *)
(* sealed block.  Of the accounts shared_state holds, those that only      *)
(* received are left out.                                                  *)
(***************************************************************************)
EXTENDS TxPool, FiniteSetsExt, Functions

CONSTANTS
    Unfunded,       \* the transactions that fail whatever the nonce
    Forced,         \* the transactions of the payload attributes, deposits
    GasLimit,
    NoTxPool,       \* the values no_tx_pool may have, a set of Booleans
    n_per_loop,
    MaxSends,       \* bound: transactions received
    MaxBlocks,      \* bound: blocks started
    Block, InitHead,    \* see BlockSync
    MaxCommits      \* bound: payloads and fetched blocks

ASSUME ForcedAssumption == Forced \in Seq(Transaction) /\ \A i \in DOMAIN Forced : Forced[i].deposit

VARIABLES
    state,          \* "Sorting", "Deposit" while handle_deposits waits, or "Waiting" in
                    \*   the other states of the sequencer
    tx_pool,
    deposits,
    no_tx_pool,     \* of the payload attributes
    db, pendingBlocks, blocksToFetch,   \* see BlockSync
    base, shared,   \* the nonces when the block was started and in shared_state
    cached,         \* the senders whose account shared_state holds itself
    gas_remaining, block,   \* of the FragSequence
    sorting,        \* the SortingData
    requests,       \* the simulations that are out, a bag
    sends, blocks, commits  \* counters for the bounds

Sync == INSTANCE BlockSync WITH Tx <- Transaction, MaxPending <- MaxCommits

ASSUME ChainAssumption == Block \subseteq Sync!Hash \ {<<>>} /\ InitHead \in Sync!Hash

chain   == <<db, pendingBlocks, blocksToFetch, commits>>
context == <<no_tx_pool, chain, base, shared, cached, gas_remaining, block, blocks>>
sortingVars == <<state, tx_pool, deposits, context, sorting, requests, sends>>

\* A bag gives the number of copies of each of its elements.  The operators of the module
\* Bags for one copy more and one less, in the form the proofs use.
EmptyBag == [x \in {} |-> 0]

With(bag, x) ==
    [e \in DOMAIN bag \cup {x} |->
        IF e # x THEN bag[e] ELSE IF x \in DOMAIN bag THEN bag[x] + 1 ELSE 1]

Without(bag, x) ==
    [e \in {y \in DOMAIN bag : y = x => bag[y] > 1} |->
        IF e = x THEN bag[e] - 1 ELSE bag[e]]

\* The element of an Option, a set of at most one.
Only(option) == CHOOSE x \in option : TRUE

SentBy(s, txs) == {i \in DOMAIN txs : txs[i].sender = s}
Senders(txs) == {txs[i].sender : i \in DOMAIN txs}

NonceAfter(nonces, txs) == [s \in Sender |-> nonces[s] + Cardinality(SentBy(s, txs))]

\* The nonces in the state after block h.
NoncesAt(h) ==
    [s \in Sender |-> Cardinality(UNION {{i} \X SentBy(s, h[i].txs) : i \in DOMAIN h})]

\* SortingData::new: the orders are the active lists by weight, ties in any order.
NewSorting(sd, orders, nonces, gas) ==
    [id |-> sd.id + 1, nonces |-> nonces, gas |-> gas, txs |-> <<>>,
     in_flight_sims |-> 0, orders |-> orders, next |-> {}]

Snapshots(p, noTxPool) ==
    LET lists == {[sender |-> s, current |-> {}, pending |-> p.active[s]] :
                      s \in {r \in Sender : p.active[r] # <<>>}}
    IN  IF noTxPool THEN {<<>>}
        ELSE {o \in Injection(1 .. Cardinality(lists), lists) : \A i \in 1 .. Len(o) - 1 :
                  o[i].pending[1].fee <= o[i + 1].pending[1].fee}

SortingInit ==
    /\ state = "Waiting"
    /\ tx_pool = EmptyPool
    /\ deposits = <<>>
    /\ no_tx_pool = FALSE
    /\ Sync!SyncInit
    /\ base = NoncesAt(InitHead) /\ shared = NoncesAt(InitHead) /\ cached = {}
    /\ gas_remaining = 0 /\ block = <<>>
    /\ sorting = NewSorting([id |-> 0], <<>>, NoncesAt(InitHead), 0)
    /\ requests = EmptyBag
    /\ sends = 0 /\ blocks = 0 /\ commits = 0

-----------------------------------------------------------------------------
(***************************************************************************)
(* ActiveOrders and SimulatedTxList.                                       *)
(***************************************************************************)
OrdersOf(orders, s) == {i \in DOMAIN orders : orders[i].sender = s}

swap_remove_back(orders, i) ==
    SubSeq([orders EXCEPT ![i] = orders[Len(orders)]], 1, Len(orders) - 1)

insert(orders, i, order) == SubSeq(orders, 1, i - 1) \o <<order>> \o SubSeq(orders, i, Len(orders))

\* SimulatedTxList::pop, the list after it and whether it is to be removed.
pop(order) ==
    LET first == order.pending[1]
    IN  [list |-> [order EXCEPT !.current = {}],
         done |-> \/ order.pending = <<>>
                  \/ order.current = {} /\ BaseFee > first.fee
                  \/ \E t \in order.current :
                         ~ (first.nonce = t.nonce + 1 /\ valid_for_block(first))]

\* Mutant: all orders of the sender go.
RemoveAllOrders(orders, s) ==
    SelectSeq(orders, LAMBDA o : o.sender # s)

\* Where a sender has no order the code panics ("this should never happen"): see
\* OrderForEveryResult.
remove_from_sender(orders, s) ==
    IF OrdersOf(orders, s) = {} THEN orders
    ELSE LET i == Max(OrdersOf(orders, s))
         IN  IF pop(orders[i]).done THEN swap_remove_back(orders, i)
             ELSE [orders EXCEPT ![i] = pop(@).list]

\* ActiveOrders::put
put_back(orders, tx) ==
    LET own    == OrdersOf(orders, tx.sender)
        richer == {i \in DOMAIN orders : \E t \in orders[i].current : tx.fee < t.fee}
        id     == IF richer = {} THEN Len(orders) + 1 ELSE Min(richer)
    IN  IF own # {} THEN [orders EXCEPT ![Max(own)].current = {tx}]
        ELSE insert(orders, id, [sender |-> tx.sender, current |-> {tx}, pending |-> <<>>])

\* The transaction of an order to simulate next: its current one, else the first pending.
next_to_sim(order) ==
    IF order.current # {} \/ order.pending = <<>> THEN order.current ELSE {order.pending[1]}

not_enough_gas(order, gas) == \A t \in next_to_sim(order) : gas < t.limit

AfterSim(order) ==
    IF order.current # {} THEN order ELSE [order EXCEPT !.pending = Tail(@)]

-----------------------------------------------------------------------------
(***************************************************************************)
(* SortingData.                                                            *)
(***************************************************************************)
Simulates(tx, nonces) == tx.deposit \/ (tx.nonce = nonces[tx.sender] /\ tx \notin Unfunded)

\* Mutant: the gas left is not looked at again.
SimWithoutGas(sd, tx) ==
    LET better == \A t \in sd.next : t.fee < tx.fee
        back   == IF better THEN sd.next ELSE {tx}
    IN  IF ~ Simulates(tx, sd.nonces)
        THEN [sd EXCEPT !.in_flight_sims = @ - 1, !.orders = remove_from_sender(@, tx.sender)]
        ELSE [sd EXCEPT !.in_flight_sims = @ - 1, !.next = IF better THEN {tx} ELSE @,
                        !.orders = IF back = {} THEN @ ELSE put_back(@, Only(back))]

handle_sim(sd, tx) ==
    LET better == tx.used < sd.gas /\ \A t \in sd.next : t.fee < tx.fee
        back   == IF better THEN sd.next ELSE {tx}
    IN  IF ~ Simulates(tx, sd.nonces) \/ sd.gas < tx.used
        THEN [sd EXCEPT !.in_flight_sims = @ - 1, !.orders = remove_from_sender(@, tx.sender)]
        ELSE [sd EXCEPT !.in_flight_sims = @ - 1, !.next = IF better THEN {tx} ELSE @,
                        !.orders = IF back = {} THEN @ ELSE put_back(@, Only(back))]

\* apply_tx: the state changes, so its id does.
apply_tx(sd, tx) ==
    [sd EXCEPT !.id = @ + 1, !.gas = @ - tx.used, !.txs = Append(@, tx),
               !.nonces[tx.sender] = @ + 1]

maybe_apply(sd) ==
    IF sd.next = {} THEN sd
    ELSE LET t == Only(sd.next)
         IN  apply_tx([sd EXCEPT !.next = {}, !.orders = remove_from_sender(@, t.sender)], t)

\* The i-th order in the loop of send_next; r is [orders, sent].
send_order(r, i, gas) ==
    IF Len(r.sent) = n_per_loop THEN r
    ELSE IF not_enough_gas(r.orders[i], gas)
         THEN [r EXCEPT !.orders = swap_remove_back(@, i)]
    ELSE [orders |-> [r.orders EXCEPT ![i] = AfterSim(@)],
          sent   |-> Append(r.sent, Only(next_to_sim(r.orders[i])))]

\* send_next, from the order at the back.
send_next(sd) ==
    LET n == Len(sd.orders)
        from[k \in 0 .. n] ==   \* after the last k orders
            IF k = 0 THEN [orders |-> sd.orders, sent |-> <<>>]
            ELSE send_order(from[k - 1], n - k + 1, sd.gas)
    IN  from[n]

-----------------------------------------------------------------------------
(***************************************************************************)
(* The handlers.                                                           *)
(***************************************************************************)
\* A result is valid when it was worked out on the state that is being sorted.
is_valid(r) == r.id = sorting.id

\* The simulation of each of txs on the state with that id is sent for.
Send(bag, txs, id) ==
    LET out[k \in 0 .. Len(txs)] ==
            IF k = 0 THEN bag
            ELSE With(out[k - 1], [tx |-> txs[k], id |-> id])
    IN  out[Len(txs)]

\* SequencerState::handle_new_tx, then SequencerContext::handle_tx.
HandleNewTx(tx) ==
    /\ state # "Deposit" /\ sends < MaxSends
    /\ sends' = sends + 1
    /\ LET order == [sender |-> tx.sender, current |-> {}, pending |-> <<tx>>]
       IN  sorting' = IF state = "Sorting"
                      THEN [sorting EXCEPT !.orders = <<order>> \o @] ELSE sorting
    /\ IF tx.deposit
       THEN deposits' = Append(deposits, tx) /\ UNCHANGED tx_pool
       ELSE tx_pool' = handle_new_tx(tx_pool, tx, shared[tx.sender]) /\ UNCHANGED deposits
    /\ UNCHANGED <<state, context, requests>>

\* Mutant: results on an earlier state are taken.
SimResultOfAnyState(r) ==
    /\ state # "Deposit"
    /\ requests' = Without(requests, r)
    /\ sorting' = IF state = "Sorting" THEN handle_sim(sorting, r.tx) ELSE sorting
    /\ UNCHANGED <<state, tx_pool, deposits, context, sends>>

\* handle_sim_result
HandleSimResult(r) ==
    /\ state # "Deposit"
    /\ requests' = Without(requests, r)
    /\ sorting' = IF state = "Sorting" /\ is_valid(r) THEN handle_sim(sorting, r.tx) ELSE sorting
    /\ UNCHANGED <<state, tx_pool, deposits, context, sends>>

\* What tick does once nothing is in flight and next is applied: it waits for a deposit,
\* or sends the next simulations.
SendNext(sd, bag) ==
    IF deposits # <<>>
    THEN /\ state' = "Deposit"
         /\ deposits' = Tail(deposits)
         /\ sorting' = sd
         /\ requests' = Send(bag, <<Head(deposits)>>, sd.id)
    ELSE LET r == send_next(sd)
         IN  /\ state' = "Sorting"
             /\ sorting' = [sd EXCEPT !.orders = r.orders, !.in_flight_sims = Len(r.sent)]
             /\ requests' = Send(bag, r.sent, sd.id)
             /\ UNCHANGED deposits

\* tick, second arm.
TickSend ==
    /\ state = "Sorting"
    /\ sorting.in_flight_sims = 0
    /\ SendNext(maybe_apply(sorting), requests)
    /\ UNCHANGED <<tx_pool, context, sends>>

\* The wait for a result inside handle_deposits.
DepositResult(r) ==
    /\ state = "Deposit"
    /\ IF is_valid(r)
       THEN SendNext(apply_tx(sorting, r.tx), Without(requests, r))
       ELSE /\ requests' = Without(requests, r)
            /\ UNCHANGED <<state, deposits, sorting>>
    /\ UNCHANGED <<tx_pool, context, sends>>

GasUsed(txs) == SumFunction([i \in DOMAIN txs |-> txs[i].used])

\* Mutant: the next frag is started before this one is committed to the shared state.
SealBeforeCommit(pool) ==
    /\ shared' = sorting.nonces
    /\ cached' = cached \cup Senders(sorting.txs)
    /\ tx_pool' = remove_mined_txs(pool, sorting.txs)
    /\ gas_remaining' = gas_remaining - GasUsed(sorting.txs)
    /\ block' = block \o sorting.txs
    /\ \E orders \in Snapshots(tx_pool', no_tx_pool) :
           sorting' = NewSorting(sorting, orders, shared, gas_remaining')

\* Mutant: the next frag goes on with the orders that are left.
SealKeepsOrders(pool) ==
    /\ shared' = sorting.nonces
    /\ cached' = cached \cup Senders(sorting.txs)
    /\ tx_pool' = remove_mined_txs(pool, sorting.txs)
    /\ gas_remaining' = gas_remaining - GasUsed(sorting.txs)
    /\ block' = block \o sorting.txs
    /\ sorting' = NewSorting(sorting, sorting.orders, shared', gas_remaining')

\* SequencerContext::seal_frag
seal_frag(pool) ==
    /\ shared' = sorting.nonces
    /\ cached' = cached \cup Senders(sorting.txs)
    /\ tx_pool' = remove_mined_txs(pool, sorting.txs)
    /\ gas_remaining' = gas_remaining - GasUsed(sorting.txs)
    /\ block' = block \o sorting.txs
    /\ \E orders \in Snapshots(tx_pool', no_tx_pool) :
           sorting' = NewSorting(sorting, orders, shared', gas_remaining')

\* tick, first arm.  The time of the frag is up when TickSeal is taken.
TickSeal ==
    /\ state = "Sorting"
    /\ sorting.txs # <<>>
    /\ seal_frag(remove_mined_txs(tx_pool, sorting.txs))
    /\ UNCHANGED <<state, deposits, no_tx_pool, chain, base, blocks, requests, sends>>

\* handle_get_payload_engine_api: the last frag.  Results that come later find no sorting.
GetPayload ==
    /\ state = "Sorting"
    /\ seal_frag(tx_pool)
    /\ state' = "Waiting"
    /\ UNCHANGED <<deposits, no_tx_pool, chain, base, blocks, requests, sends>>

\* start_sequencing.  The forced transactions go to the shared state and into the frag.
StartSequencing ==
    /\ state = "Waiting" /\ blocks < MaxBlocks
    /\ state' = "Sorting"
    /\ blocks' = blocks + 1
    /\ no_tx_pool' \in NoTxPool
    /\ base' = shared
    /\ shared' = NonceAfter(shared, Forced)
    /\ cached' = cached \cup Senders(Forced)
    /\ gas_remaining' = GasLimit
    /\ block' = <<>>
    /\ \E orders \in Snapshots(tx_pool, no_tx_pool') :
           LET sd == NewSorting(sorting, orders, shared', GasLimit)
           IN  sorting' = [sd EXCEPT !.txs = Forced, !.gas = @ - GasUsed(Forced)]
    /\ tx_pool' = remove_mined_txs(tx_pool, Forced)
    /\ UNCHANGED <<deposits, chain, requests, sends>>

-----------------------------------------------------------------------------
(***************************************************************************)
(* Blocks.                                                                 *)
(***************************************************************************)
\* What shared_state reads at head h: an account of its own as it is, and any other from
\* the database.
SharedAt(h, own) == [s \in Sender |-> IF s \in own THEN shared[s] ELSE NoncesAt(h)[s]]

\* SequencerContext::commit_block, where shared_state has the accounts of own itself: the
\* pool is refreshed with the block whatever block sync makes of it.
commit_block(b, own) ==
    /\ Sync!commit_block(b)
    /\ cached' = own
    /\ shared' = SharedAt(db', own)
    /\ tx_pool' = handle_new_block(tx_pool, b[Len(b)].txs, shared')

\* handle_new_payload_engine_api, for a payload that is not beyond the next block: the
\* shared state is reset, and the payload committed unless it is the head.
NewPayload(b) ==
    /\ Len(b) <= Len(db) + 1
    /\ \/ b # db /\ commit_block(b, {})
       \/ /\ b = db
          /\ cached' = {} /\ shared' = SharedAt(db, {})
          /\ UNCHANGED <<db, pendingBlocks, blocksToFetch, tx_pool>>

\* handle_block_sync: the shared state is left as it is.
BlockSynced(b) == commit_block(b, cached)

\* The block that was sealed, where it was built on the head of the database.
OwnBlock == {b \in {Append(db, [time |-> 0, txs |-> block])} : base = NoncesAt(db)}

HandleBlock ==
    /\ state = "Waiting" /\ commits < MaxCommits
    /\ commits' = commits + 1
    /\ UNCHANGED <<state, deposits, no_tx_pool, base, gas_remaining, block, blocks, sorting,
                   requests, sends>>
    /\ \E b \in Block \cup OwnBlock : NewPayload(b) \/ BlockSynced(b)

\* The sequencer's loop: it takes the results that are there, and ticks.
Loop == TickSend \/ \E r \in DOMAIN requests : HandleSimResult(r) \/ DepositResult(r)

SortingNext ==
    \/ \E tx \in Tx : HandleNewTx(tx)
    \/ Loop \/ TickSeal
    \/ GetPayload \/ StartSequencing
    \/ HandleBlock

\* Simulators answer, the loop turns and the time of a frag passes; no transaction and no
\* engine call need come.
SortingSpec ==
    /\ SortingInit /\ [][SortingNext]_sortingVars
    /\ WF_sortingVars(Loop) /\ WF_sortingVars(TickSeal)

-----------------------------------------------------------------------------
(***************************************************************************)
(* Properties.                                                             *)
(***************************************************************************)
\* The transactions of the block being built: the frags sealed and the one being sorted.
Built == IF state = "Waiting" THEN block ELSE block \o sorting.txs

\* Every frag can be executed by whoever replays it: whatever order results come in, the
\* transactions of a sender are in the block with consecutive nonces from the state it
\* was started on, none twice and none missing.
FragsExecutable ==
    \A i \in DOMAIN Built :
        LET t == Built[i]
        IN  t.deposit \/ t.nonce = base[t.sender] + Cardinality(
                {j \in 1 .. i - 1 : Built[j].sender = t.sender})

\* The transaction kept to be applied succeeds on the very state it will be applied to,
\* with gas to spare, as apply_tx asserts rounds later ("had too little gas remaining to
\* apply tx"): no result from before a frag was sealed or a deposit applied is kept.
NextIsExecutable ==
    state # "Waiting" => \A t \in sorting.next :
        Simulates(t, sorting.nonces) /\ t.used < sorting.gas

Valid == {r \in DOMAIN requests : is_valid(r)}
Copies(R) == Cardinality(UNION {{r} \X (1 .. requests[r]) : r \in R})

\* The counter tick waits on is the number of valid simulations that are out: it does
\* not go below zero, and the sorter does not wait for a result that was dropped.  While
\* a deposit is waited for, its result is the only valid one.
InFlightIsOutstanding ==
    CASE state = "Sorting" -> Copies(Valid) = sorting.in_flight_sims
      [] state = "Deposit" -> Copies(Valid) = 1 /\ \A r \in Valid : r.tx.deposit
      [] OTHER -> TRUE

\* Every simulation that is out, and the transaction kept as the next, has an order of
\* its sender, though a sender may have several and each error removes one: the
\* unreachable!() at the end of remove_from_sender is not reached.
OrderForEveryResult ==
    state = "Sorting" => \A s \in Sender :
        Copies({r \in Valid : r.tx.sender = s}) + Cardinality({t \in sorting.next : t.sender = s})
            <= Cardinality(OrdersOf(sorting.orders, s))

\* The pool and the shared state are in step with the database: the pool has none of the
\* sender's transactions that are mined, and the shared state is not behind.  Blocks that
\* were pending and are committed with a later one, and blocks fetched after a block was
\* built, leave them out of step.
InStep(s) ==
    /\ NoncesAt(db)[s] <= shared[s]
    /\ \A i \in DOMAIN tx_pool.pool[s] : tx_pool.pool[s][i].nonce >= shared[s]

\* The senders of no deposit whose transactions all pay more than the base fee.  A deposit
\* and a transaction of exactly the base fee are sealed, but neither makes its sender
\* active, and a frag does not refresh the active lists.
Regular ==
    {s \in Sender : \A t \in Tx \cup Range(Forced) :
        t.sender = s => ~ t.deposit /\ valid_for_block(t)}

\* The transactions that can be executed one after the other are offered.
Offered(s) ==
    LET next == ready(tx_pool.pool[s], shared[s])
    IN  \A i \in DOMAIN next :
            i <= Len(tx_pool.active[s]) /\ tx_pool.active[s][i].nonce = next[i].nonce

\* The transactions of the pool that can be executed next are offered for sorting: they
\* are at the start, and whatever is received, sealed, put aside or rolled back, no step
\* withholds one, as long as the pool is in step.
ReadyIsActive ==
    [][\A s \in Regular : InStep(s) /\ Offered(s) => Offered(s)']_sortingVars

\* The pool forgets a transaction only when one with its nonce is sealed, is in a block
\* that extends the database, or replaces it.  Only of a block that is put aside, or that
\* comes when the pool is out of step, is more not claimed: forward then meets a nonce
\* that is not in the list, and pops what is not mined.
ForgetsOnlyMined ==
    [][\A s \in Sender : \A i \in DOMAIN tx_pool.pool[s] :
          LET t == tx_pool.pool[s][i]
          IN  /\ \A j \in DOMAIN tx_pool'.pool[s] : tx_pool'.pool[s][j].nonce # t.nonce
              /\ commits' # commits => Sync!Parent(db') = db /\ InStep(s)
              => t.nonce < shared'[s] \/ t.nonce < NoncesAt(db')[s]]_sortingVars

\* The block under a no_tx_pool attribute has the forced transactions and no others
\* (op-geth's beacon/engine/types.go: "only transactions from the above Transactions list
\* will be included").
NoTxPoolHonoured == no_tx_pool /\ state # "Waiting" => Built \in {<<>>, Forced}

\* A transaction at the head of its sender's active list that could be executed in the
\* block being built, with gas to spare.
Waits(t) ==
    LET s == t.sender
    IN  /\ ~ no_tx_pool /\ t \notin Unfunded
        /\ tx_pool.active[s] # <<>> /\ tx_pool.active[s][1] = t
        /\ sorting.nonces[s] = t.nonce
        /\ sorting.gas > t.limit

\* Nothing waits for ever while a block is built: the orders that the errors of a sender
\* remove come back with the next frag, and the wait of handle_deposits for its own
\* result ends though it drops all others.
NothingWaitsForEver ==
    []<>(state = "Waiting" \/ (state = "Sorting" /\ \A t \in Tx : ~ Waits(t)))
=============================================================================
