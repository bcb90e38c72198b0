----------------------------- MODULE Sequencer -----------------------------
(***************************************************************************)
(* The gateway's sequencer: the state machine that the engine API drives,  *)
(* the block it cuts into frags, and the env, frags and seal it gossips    *)
(* (based/crates/sequencer/src: lib.rs, context.rs, sorting/).             *)
(*                                                                         *)
(* The sequencer is one thread that takes a message of one channel at a    *)
(* time, so an action is a handler.  Which transactions are in the pool    *)
(* and which of them a simulation finds best is left open: sorting may     *)
(* apply any transaction that runs on the state.  Time is left out: a frag *)
(* that is not empty may be sealed at any tick.                            *)
(***************************************************************************)
EXTENDS BlockSync

CONSTANTS
    Attributes,                 \* payload attributes: a timestamp and forced transactions
    CommitSealedFragsToDb,      \* the option of that name
    MaxCalls,                   \* bound: the engine calls of the behaviours considered
    MaxBlockTxs,                \* bound: the transactions of a block
    MaxRequests                 \* bound: the requests in the BlockFetch channel

ASSUME AttributesAssumption == Attributes \subseteq [time : Nat, forced : Seq(Tx)]
ASSUME OptionAssumption == CommitSealedFragsToDb \in BOOLEAN

VARIABLES
    state,              \* the variant of SequencerState
    lastBlockNumber,    \* last_block_number of Syncing
    parent,             \* ctx.parent_header and parent_hash; <<>> before the first block
    attributes,         \* ctx.payload_attributes: {} before the first
    fragSeq,            \* the FragSequence of Sorting: transactions and next_seq
    sorting,            \* the SortingData of Sorting: transactions, and how many of
                        \*   them the shared state already has
    sharedState,        \* transactions executed on top of the database since the reset
    requests,           \* the BlockFetch channel
    emitted,            \* the messages given to the gossiper, in order
    calls               \* engine calls so far

ctxVars       == <<parent, attributes, fragSeq, sorting, sharedState, emitted>>
sequencerVars == <<syncVars, state, lastBlockNumber, ctxVars, requests, calls>>

NoFrags == [txs |-> <<>>, nextSeq |-> 0]
NoSort  == [txs |-> <<>>, committed |-> 0]

SequencerInit ==
    /\ SyncInit
    /\ state = "WaitingForNewPayload"
    /\ lastBlockNumber = 0
    /\ parent = <<>>
    /\ attributes = {}
    /\ fragSeq = NoFrags
    /\ sorting = NoSort
    /\ sharedState = <<>>
    /\ requests = <<>>
    /\ emitted = <<>>
    /\ calls = 0

Waiting == state \in {"WaitingForNewPayload", "WaitingForForkChoiceWithAttributes"}

EngineCalled == calls < MaxCalls /\ calls' = calls + 1

-----------------------------------------------------------------------------
sync_until(start, stop) ==
    /\ state' = "Syncing"
    /\ lastBlockNumber' = stop
    /\ requests' = Append(requests, <<start, stop>>)

Becomes(s) == state' = s /\ UNCHANGED <<lastBlockNumber, requests>>

IgnoredCall == UNCHANGED <<syncVars, state, lastBlockNumber, ctxVars, requests>>

\* The context's commit_block: whatever becomes of the block, it is the new parent.
ctx_commit_block(b) ==
    /\ commit_block(b)
    /\ parent' = b

NewPayloadAhead(b) ==
    /\ Waiting \/ state = "Syncing"
    /\ Number(b) > Number(db) + 1
    /\ sync_until(Number(db) + 1, Number(b))
    /\ UNCHANGED <<syncVars, ctxVars>>

NewPayloadIsHead(b) ==
    /\ Waiting
    /\ b = db
    /\ sharedState' = <<>>
    /\ Becomes("WaitingForForkChoiceWithAttributes")
    /\ UNCHANGED <<syncVars, parent, attributes, fragSeq, sorting, emitted>>

\* Mutant: the shared state is left as it is.
CommitWithoutReset(b) ==
    /\ Waiting
    /\ b # db
    /\ Number(b) <= Number(db) + 1
    /\ ctx_commit_block(b)
    /\ \/ blocksToFetch' = {} /\ Becomes("WaitingForForkChoiceWithAttributes")
       \/ \E r \in blocksToFetch' : sync_until(r[1], r[2])
    /\ UNCHANGED <<attributes, fragSeq, sorting, sharedState, emitted>>

NewPayloadCommit(b) ==
    /\ Waiting
    /\ b # db
    /\ Number(b) <= Number(db) + 1
    /\ sharedState' = <<>>
    /\ ctx_commit_block(b)
    /\ \/ blocksToFetch' = {} /\ Becomes("WaitingForForkChoiceWithAttributes")
       \/ \E r \in blocksToFetch' : sync_until(r[1], r[2])
    /\ UNCHANGED <<attributes, fragSeq, sorting, emitted>>

handle_new_payload_engine_api(b) ==
    /\ EngineCalled
    /\ \/ NewPayloadAhead(b)
       \/ NewPayloadIsHead(b)
       \/ NewPayloadCommit(b)
       \/ /\ state \in {"Sorting", "Panicked"} \/ (state = "Syncing" /\ Number(b) <= Number(db) + 1)
          /\ IgnoredCall

EnvMessage(a) ==
    [type |-> "env", block |-> Number(parent) + 1, parent |-> parent, time |-> a.time]

\* The forced transactions go into the shared state at once, and into the first frag.
apply_block_start_to_state(a) ==
    /\ sorting' = [txs |-> a.forced, committed |-> Len(a.forced)]
    /\ sharedState' = sharedState \o a.forced

start_sequencing(a) ==
    /\ attributes' = {a}
    /\ fragSeq' = NoFrags
    /\ apply_block_start_to_state(a)
    /\ UNCHANGED parent

\* A forkchoice for the head of the database; attrs is {} for None.
ForkchoiceAtHead(attrs) ==
    \/ /\ Waiting /\ attrs = {}
       /\ Becomes("WaitingForForkChoiceWithAttributes")
       /\ UNCHANGED ctxVars
    \/ /\ Waiting /\ parent # <<>>
       /\ \E a \in attrs :
             start_sequencing(a) /\ emitted' = Append(emitted, EnvMessage(a))
       /\ Becomes("Sorting")
    \/ /\ ~Waiting \/ (attrs # {} /\ parent = <<>>)
       /\ UNCHANGED <<state, lastBlockNumber, ctxVars, requests>>

\* Mutant: the head is not compared.
ForkchoiceAnywhere(h, attrs) ==
    EngineCalled /\ ForkchoiceAtHead(attrs) /\ UNCHANGED syncVars

handle_fork_choice_updated_engine_api(h, attrs) ==
    /\ EngineCalled
    /\ \/ h = db /\ ForkchoiceAtHead(attrs) /\ UNCHANGED syncVars
       \/ h # db /\ IgnoredCall

-----------------------------------------------------------------------------
\* commit_txs takes the state changes out of a transaction: those of the forced
\* transactions are in the shared state already.
SortedTxs == SubSeq(sorting.txs, sorting.committed + 1, Len(sorting.txs))

\* Mutant: the number is that of the frag after this one.
FragNumberedAfter(last) ==
    [type |-> "frag", block |-> Number(parent) + 1, seq |-> fragSeq.nextSeq + 1,
     txs |-> sorting.txs, last |-> last]

FragMessage(last) ==
    [type |-> "frag", block |-> Number(parent) + 1, seq |-> fragSeq.nextSeq,
     txs |-> sorting.txs, last |-> last]

\* Mutant: the forced transactions are taken to be in the block already.
SealedWithoutForced ==
    [txs |-> fragSeq.txs \o SortedTxs, nextSeq |-> fragSeq.nextSeq + 1]

\* The FragSequence and the shared state once the frag is sealed.
FragSealed == [txs |-> fragSeq.txs \o sorting.txs, nextSeq |-> fragSeq.nextSeq + 1]
SharedWithFrag == sharedState \o SortedTxs

\* tick, when a frag is due.
TickSealFrag ==
    /\ state = "Sorting"
    /\ sorting.txs # <<>>
    /\ emitted' = Append(emitted, FragMessage(FALSE))
    /\ fragSeq' = FragSealed
    /\ sharedState' = SharedWithFrag
    /\ sorting' = NoSort
    /\ UNCHANGED <<syncVars, state, lastBlockNumber, parent, attributes, requests, calls>>

\* tick, when the simulations are in: the best transaction is applied.
TickApply(t) ==
    /\ state = "Sorting"
    /\ t \notin History(db) \cup TxSet(sharedState) \cup TxSet(sorting.txs)
    /\ Len(fragSeq.txs) + Len(sorting.txs) < MaxBlockTxs
    /\ sorting' = [sorting EXCEPT !.txs = Append(@, t)]
    /\ UNCHANGED <<syncVars, state, lastBlockNumber, parent, attributes, fragSeq,
                   sharedState, requests, emitted, calls>>

\* The block that seal_block assembles.
SealedHash ==
    LET a == CHOOSE x \in attributes : TRUE
    IN  Append(parent, [time |-> a.time, txs |-> FragSealed.txs])

\* Its state root is that of the database with the shared state on top.
SealMessage ==
    [type |-> "seal", block |-> Number(parent) + 1, total |-> FragSealed.nextSeq,
     hash |-> SealedHash, root |-> [db |-> db, txs |-> SharedWithFrag]]

\* The root is that of the block.
RootOf(seal) == seal.root = [db |-> Parent(seal.hash), txs |-> seal.hash[Len(seal.hash)].txs]

\* commit_block executes its own block when it is the next one, and panics if the
\* root is another.
CommitSealed ==
    \/ /\ IsNextBlock(SealedHash) /\ ~RootOf(SealMessage)
       /\ Becomes("Panicked")
       /\ sharedState' = SharedWithFrag
       /\ UNCHANGED <<syncVars, parent>>
    \/ /\ IsNextBlock(SealedHash) => RootOf(SealMessage)
       /\ ctx_commit_block(SealedHash)
       /\ sharedState' = <<>>
       /\ Becomes("WaitingForForkChoiceWithAttributes")

handle_get_payload_engine_api ==
    /\ EngineCalled
    /\ \/ /\ state = "Sorting"
          /\ emitted' = emitted \o <<FragMessage(TRUE), SealMessage>>
          /\ fragSeq' = NoFrags
          /\ sorting' = NoSort
          /\ UNCHANGED attributes
          /\ \/ CommitSealedFragsToDb /\ CommitSealed
             \/ /\ ~CommitSealedFragsToDb
                /\ sharedState' = SharedWithFrag
                /\ Becomes("WaitingForNewPayload")
                /\ UNCHANGED <<syncVars, parent>>
       \/ state # "Sorting" /\ IgnoredCall

\* A block from the fetcher.
SyncingBlock(b) ==
    /\ state = "Syncing"
    /\ ctx_commit_block(b)
    /\ \/ \E r \in blocksToFetch' :
             sync_until(r[1], IF r[2] > lastBlockNumber THEN r[2] ELSE lastBlockNumber)
       \/ /\ blocksToFetch' = {}
          /\ Becomes(IF Number(b) = lastBlockNumber THEN "WaitingForNewPayload" ELSE "Syncing")

WaitingBlock(b) ==
    /\ Waiting
    /\ ctx_commit_block(b)
    /\ Becomes("WaitingForNewPayload")

handle_block_sync(b) ==
    /\ \/ SyncingBlock(b) \/ WaitingBlock(b)
       \/ state = "Sorting" /\ UNCHANGED <<syncVars, state, lastBlockNumber, parent, requests>>
    /\ UNCHANGED <<attributes, fragSeq, sorting, sharedState, emitted, calls>>

-----------------------------------------------------------------------------
\* The blocks the sequencer has sealed that other nodes accept.
OwnBlocks ==
    {m.hash : m \in {x \in TxSet(emitted) : x.type = "seal" /\ RootOf(x)}}

EngineCalls ==
    \/ \E b \in Block \cup OwnBlocks :
          \/ handle_new_payload_engine_api(b)
          \/ \E attrs \in {{}} \cup {{a} : a \in Attributes} :
                handle_fork_choice_updated_engine_api(b, attrs)
    \/ handle_get_payload_engine_api

Tick == TickSealFrag \/ \E t \in Tx : TickApply(t)

Bounded == Len(pendingBlocks) < MaxPending /\ Len(requests) < MaxRequests

\* Whatever the engine API is called with, and whatever blocks come.
SequencerNext ==
    \/ Bounded /\ EngineCalls
    \/ Tick
    \/ Bounded /\ \E b \in Block : handle_block_sync(b)

SequencerSpec == SequencerInit /\ [][SequencerNext]_sequencerVars

-----------------------------------------------------------------------------
(***************************************************************************)
(* Properties.                                                             *)
(***************************************************************************)
\* Message m may follow message p of the gossip (<<>> when it is the first).
MayFollow(p, m) ==
    \/ m.type = "env" /\ (p = <<>> \/ p.type = "seal")
    \/ /\ m.type = "frag" /\ p # <<>> /\ m.block = p.block
       /\ \/ p.type = "env" /\ m.seq = 0
          \/ p.type = "frag" /\ ~p.last /\ m.seq = p.seq + 1
    \/ /\ m.type = "seal" /\ p # <<>> /\ m.block = p.block
       /\ p.type = "frag" /\ p.last /\ m.total = p.seq + 1

\* Whatever the engine API is called with and whatever blocks are fetched in the
\* meantime, the gossip is a sequence of whole blocks: an env, its frags numbered
\* from 0 with only the final one marked last, and a seal with their number.
GossipWellFormed ==
    \A i \in DOMAIN emitted :
        MayFollow(IF i = 1 THEN <<>> ELSE emitted[i - 1], emitted[i])

\* The last env up to message i, and the transactions of the frags after it.
EnvAt(i) == CHOOSE j \in 1 .. i : /\ emitted[j].type = "env"
                                 /\ \A k \in j + 1 .. i : emitted[k].type # "env"
FraggedTxs(i) ==
    LET txs[k \in 0 .. i] ==
            IF k = 0 \/ emitted[k].type = "env" THEN <<>>
            ELSE IF emitted[k].type = "frag" THEN txs[k - 1] \o emitted[k].txs
            ELSE txs[k - 1]
    IN  txs[i]

\* A sealed block is the one that was preconfirmed: it has the parent and the
\* time of its env and the transactions of its frags, in their order.
SealKeepsPreconfirmations ==
    \A i \in DOMAIN emitted :
        emitted[i].type = "seal" =>
            LET env == emitted[EnvAt(i)]
            IN  emitted[i].hash = Append(env.parent, [time |-> env.time, txs |-> FraggedTxs(i)])
=============================================================================
