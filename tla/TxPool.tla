------------------------------- MODULE TxPool -------------------------------
(***************************************************************************)
(* The gateway's transaction pool (based/crates/pool/src/transaction), as  *)
(* operators on a record [pool, active]: the transactions known and the    *)
(* ones offered for sorting, per sender a TxList in nonce order.  A list   *)
(* that is absent is the empty one.  The configuration of the repository   *)
(* does not simulate in the pool (simulate_tof_in_pools is false), so an   *)
(* active list has no simulated transaction in front.                      *)
(***************************************************************************)
EXTENDS Integers, Sequences, FiniteSets

CONSTANTS
    Sender,
    Tx,         \* the transactions that may be received
    BaseFee     \* of every block

Transaction ==
    [sender : Sender, nonce : Nat, fee : Nat, limit : Nat, used : Nat, deposit : BOOLEAN]

ASSUME PoolAssumption == IsFiniteSet(Sender) /\ Tx \subseteq Transaction

valid_for_block(tx) == tx.deposit \/ tx.fee > BaseFee

\* TxList::put, at the index that the binary search of the nonces finds.
put(list, tx) ==
    LET below == Cardinality({i \in DOMAIN list : list[i].nonce < tx.nonce})
        upto  == Cardinality({i \in DOMAIN list : list[i].nonce <= tx.nonce})
    IN  SubSeq(list, 1, below) \o <<tx>> \o SubSeq(list, upto + 1, Len(list))

\* Mutant: an empty list is what remains of a list without that nonce in front.
ForwardFromFront(list, nonce) ==
    IF list # <<>> /\ list[1].nonce = nonce THEN Tail(list) ELSE <<>>

\* TxList::forward.  Without a transaction of that nonce everything goes, higher nonces
\* included, unless the list starts above it.
forward(list, nonce) ==
    IF list # <<>> /\ list[1].nonce > nonce THEN list
    ELSE IF \E i \in DOMAIN list : list[i].nonce = nonce
         THEN SubSeq(list, 1 + CHOOSE i \in DOMAIN list : list[i].nonce = nonce, Len(list))
         ELSE <<>>

\* TxList::ready, the empty list for None.
ready(list, nonce) ==
    LET n == CHOOSE k \in 0 .. Len(list) :
                 /\ \A i \in 1 .. k : list[i].nonce = nonce + i - 1 /\ valid_for_block(list[i])
                 /\ k < Len(list) => ~ (list[k + 1].nonce = nonce + k /\ valid_for_block(list[k + 1]))
    IN  SubSeq(list, 1, n)

\* TxList::nonce_ready
nonce_ready(list, nonce, target) ==
    \E i \in DOMAIN ready(list, nonce) : list[i].nonce = target

-----------------------------------------------------------------------------
EmptyPool == [pool |-> [s \in Sender |-> <<>>], active |-> [s \in Sender |-> <<>>]]

\* TxPool::handle_new_tx, where nonce is that of the sender in the shared state.
handle_new_tx(p, tx, nonce) ==
    LET s      == tx.sender
        old    == p.pool[s]
        list   == put(old, tx)
        Better == \E i \in DOMAIN old : old[i].nonce = tx.nonce /\ old[i].fee > tx.fee
        active == IF ~ valid_for_block(tx) THEN p.active[s]
                  ELSE IF tx.nonce = nonce THEN list
                  ELSE IF old # <<>> /\ p.active[s] # <<>> /\ nonce_ready(list, nonce, tx.nonce)
                       THEN ready(list, nonce)
                       ELSE p.active[s]
    IN  IF tx.nonce < nonce \/ Better THEN p
        ELSE [pool |-> [p.pool EXCEPT ![s] = list], active |-> [p.active EXCEPT ![s] = active]]

\* One transaction of remove_mined_txs, as TxPool::remove.
remove(p, tx) ==
    [pool   |-> [p.pool EXCEPT ![tx.sender] = forward(@, tx.nonce)],
     active |-> [p.active EXCEPT ![tx.sender] = forward(@, tx.nonce)]]

\* TxPool::remove_mined_txs
remove_mined_txs(p, mined) ==
    LET after[k \in 0 .. Len(mined)] == IF k = 0 THEN p ELSE remove(after[k - 1], mined[k])
    IN  after[Len(mined)]

\* Mutant: the active lists are kept.
NewBlockKeepsActive(p, mined, nonces) == remove_mined_txs(p, mined)

\* TxPool::handle_new_block, where nonces are those of the shared state.
handle_new_block(p, mined, nonces) ==
    LET q == remove_mined_txs([p EXCEPT !.active = EmptyPool.active], mined)
    IN  [q EXCEPT !.active = [s \in Sender |->
             IF ready(q.pool[s], nonces[s]) # <<>> THEN q.pool[s] ELSE <<>>]]
=============================================================================
