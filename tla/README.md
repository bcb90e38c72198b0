# based-op in TLA+

based-op lets *gateways* sequence an OP-stack rollup. While a gateway builds a
block it preconfirms it piece by piece: it gossips an **env** (the header's
fields), then **frags** (numbered runs of transactions), and in the end a
**seal** (the number of frags and the hash of the whole). Other nodes execute the
frags as they come and serve reads from the block that is not sealed yet.

These modules model the two ends of that protocol and the programs around them,
check them with TLC and prove the central invariants with TLAPS. Every definition
is translated from the source; `PROJECT.json` maps each one to its file and lines.

    op-node (sequencer) -> Portal <- registry
                             | -> fallback
                             v
                           gateway: Sequencer, BlockSync <- BlockFetcher <- execution node
                             |      Sorting, TxPool <-> simulators (ParamsQueue)
                             v  env, frags, seal
                           gossip      (loses, repeats, reorders)
                             v
          op-node: PreconfState -> op-geth: UnsealedBlock <- op-node's driver

## 1. Modules

| Module | Models | Source |
|---|---|---|
| `Hashes` | blocks, hashes, ancestors | |
| `PreconfState` | the buffer that puts gossiped events back in order | `optimism/op-node/rollup/engine/preconf.go` |
| `InOrderFeed` | what that buffer promises (abstract) | |
| `UnsealedBlock` | the engine calls EnvV0, NewFragV0, SealFragV0, and the two imports they race with | `op-geth/eth/catalyst/api.go`, `core/types/unsealed_block.go`, `core/blockchain_insert.go` |
| `Follower` | buffer, engine and driver of one node | the above, `op-service/sources/engine_client.go` |
| `PreconfirmedChain` | what a follower promises to its readers (abstract) | |
| `BlockSync` | the gateway's `commit_block`: pending blocks, roll-backs, ranges to fetch | `based/crates/sequencer/src/block_sync/mod.rs` |
| `Sequencer` | the state machine driven by the engine API, frags and seals | `based/crates/sequencer/src/lib.rs`, `context.rs` |
| `BlockFetcher` | the thread that fetches blocks in batches | `block_sync/block_fetcher.rs`, `fetch_blocks.rs` |
| `Gateway` | sequencer, fetcher, execution node and the op-node that calls them | the above |
| `TxPool` | the pool and its active lists | `based/crates/pool/src/transaction`, `common/src/transaction/tx_list.rs` |
| `Sorting` | how a frag is filled: orders, simulations in flight, deposits, gas; what blocks do to the pool and the shared state in between | `based/crates/sequencer/src/sorting`, `lib.rs`, `context.rs` |
| `ParamsQueue` | the ring of sequence locks that carries block parameters to the simulators | `based/crates/common/src/communication/queue.rs`, `seqlock.rs` |
| `Portal` | the portal's engine calls, its refresh, and the registry | `based/bin/portal/src/server.rs`, `based/bin/gateway_registry/src` |
| `*Proofs` | theorems about the module they extend (those about `PreconfState` are in `FollowerProofs`, about `BlockSync` in `SequencerProofs`) | |
| `SortingLemmas` | what the operators of `Sorting` and `TxPool` return, for `SortingProofs` | |
| `MC*` | instances for TLC | |

### How state and steps correspond

*Hashes.* A hash is the sequence of the block contents (timestamp and
transactions) from genesis: equal hashes are equal chains, the number is the
length, the parent is all but the last element. `<<>>` is genesis. An `Option`, or
a pointer that may be nil, is a set with at most one element.

*PreconfState.* The `last*` fields and the three pending maps are variables of
those names; a map is a set of events with no two of one key. `putEnv`, `putFrag`
and `putSeal` each call the engine once and then call each other on what has
become ready. A step is one such call: the event it is passed to next waits in
`call`, and `l2Prune` remembers that `putL2Block` has to prune once its `putEnv`
returns. `uint64` arithmetic wraps at the constant `U64`. `received` and `sent` are
history. `MayArrive` says what the network may deliver next.

*UnsealedBlock.* `unsealed` and `unsealedState` are the two fields that
`SetCurrentUnsealedBlock` and `ResetCurrentUnsealedBlock` set; `blocks` is the
database and `head` the canonical head. Execution is abstracted to what may make
it fail or what the protocol can tell apart: a transaction runs once on a chain,
every frag gets a full block's gas (`GasLimit` transactions) as in
`InsertNewFrag`, and header verification wants a later timestamp and the gas of
the whole block within the limit. `StateLost` are blocks whose state is not
available. A handler is one step: the three calls are serialised by
`unsealedBlockLock`, and `newPayload` and `forkchoiceUpdated` touch only the
database and the head.

*Follower.* The engine call and the buffer's record of it are one step, since only
the handler's goroutine reads the buffer. Its errors are dropped by the buffer, so
that a lost reply is a success to the engine and a lost call (`RpcMayFail`) is
nothing to it. A call that times out and is executed after later ones is not
modelled. `SendL2Block` writes to an unbuffered channel and so blocks the driver;
the model lets the driver go on, which allows more interleavings than the code.

*BlockSync.* `db` is the hash of the database's head, `pendingBlocks` the list,
`blocksToFetch` what the last `commit_block` returned. Where the binary search may
hit any of several equal numbers, so may the model. Its five outcomes are the five
`Commit*` actions. Blocks are valid, and all chains share block 1, so that block 0
is never asked for. The release build is modelled: where a `debug_assert!` would
stop a debug build, the model goes on as the release build does.

*Sequencer.* The variants of `SequencerState` are values of `state`; the context's
fields that matter to the protocol are variables. The sequencer is one thread that
handles a message at a time, so a handler with all it calls is an action.
`sharedState` is the sequence of transactions executed on top of the database since
the last reset, so that a state root is the pair of the two. The forced
transactions are executed when the block starts and belong to the first frag; their
state changes are not committed again with it (`SortedTxs`). Which transactions the
pool offers and the simulators prefer is left open here (any that runs on the state
may be applied) and is the subject of `Sorting`. If the sequencer commits its own
sealed block and the root is not the block's, the code panics; that is the state
`Panicked`.

*BlockFetcher, Gateway.* One turn of the fetcher's loop is two steps, a batch and
the requests. The RPC is retried until the node has the block. In `Gateway` op-node
calls forkchoice with attributes, getPayload, newPayload (of the gateway's block or
of another one) and forkchoice, in that order and without loss; `remote` is the
head of the execution node, which is told the same.

*TxPool, Sorting.* The pool's operations are operators on a record of the known and
the active lists, and `Sorting` applies them where the sequencer calls them. An EVM
state is reduced to the nonces of the senders, and the ids by which results are
matched to states to numbers. A simulation that is out is an element of the bag
`requests` (`With` and `Without` add and take one copy); its result may come at any later time and in any order. It fails when
the nonce is not the next one or the sender cannot pay (`Unfunded`). `tick` is two
actions, as one call either seals a frag whose time has passed or sends the next
simulations. While `handle_deposits` waits, the state is `Deposit`: it looks at every
result, keeps its own and drops the others. The simulation of a deposit succeeds, as
a deposit does by protocol. Every transaction raises the nonce of its sender, a deposit
too. Between blocks the sequencer's other states are one, `Waiting`: a payload
(`NewPayload`) resets the shared state and is committed, a fetched block (`BlockSynced`)
is committed on the shared state as it is, and both go through the `commit_block` of
`BlockSync`. Whatever that makes of the block (commits it, puts it aside, rolls back), the
pool is refreshed with it, as in `context.rs:329`. `cached` are the senders whose account
the shared state holds itself; the others are read from the database. One base fee holds
for all blocks, and `simulate_tof_in_pools` and `commit_sealed_frags_to_db` are off.

*ParamsQueue.* A message is its index, held in two words that are written and read
one at a time, with the version before and after. Steps take effect in program
order, which x86-64 and the compiler fences of `seqlock.rs` give. There is one
producer: the queue is made for several (`communication/mod.rs:282`), but only the
sequencer sends block parameters. Versions do not wrap: at two per lap of
4096 blocks a `u32` lasts beyond any chain.

*Portal.* Handlers are async tasks: an action ends where the code awaits, and so do
the steps of the refresh that a handler and the background task both run. A request
may fail at any time. Engines answer as they like; the portal does not look at the
status in the fallback's answer, so the fallback's head may or may not move. The
registry reloads any list, the empty one included, and may be out of reach. `sent` is
what gateways were last told, `accepted` history.

## 2. Runs

`tlc -config <run>.cfg <module>`. The numbers are distinct states.

| Run | Module | Shows |
|---|---|---|
| `preconf_gossip` (401,642) | `MCPreconfState` | Blocks 3, 4 and 8 and block 8 becoming safe, each event at any time and any number of times: the engine sees whole prefixes (`EngineSeesWholePrefixes`), nothing that is ready is held (`HeldExactlyUntilReady`), only events below the pruning window are dropped (`OnlyOutdatedEventsDropped`). |
| `unsealed_any` (145) | `MCUnsealedBlock` | Good and bad messages in any order beside imports of two competing blocks and a child: block and state are set together (`GethTypeOK`), the open block is well formed, its state is that of its frags (`StateMatchesOpenBlock`), it is in the database before its seal (`CompleteBlockIsPreSealed`), the database holds valid blocks only, and frags served are never rewritten (`OpenBlockOnlyGrows`). |
| `follower_stream` (1,791) | `MCFollower` | Three blocks reordered but not lost, the first of them sealed before the env of another arrives (`OnceWarm`; section 4 says what happens otherwise): the buffer implements `InOrderFeed` (`FeedsInOrder`), buffer and engine implement `PreconfirmedChain` (`KeepsPreconfirmations`), and every block gets sealed. |
| `follower_race` (15,993) | `MCFollower` | The same with a driver that imports the blocks at any moment: the engine accepts all that the buffer forwards (`EngineNeverRefuses`). |
| `follower_lossy` (140,466) | `MCFollower` | Events and calls lost, repeated and reordered: what is served is a prefix of the gateway's block (`ServesGatewayPrefix`), no other block is assembled (`OnlyGatewayBlocks`), and the driver always brings the node back to the last block (`DriverRepairs`). |
| `sync_forks` (4,043) | `MCBlockSync` | Blocks of two chains in any order and repeated: the pending list stays sorted, the returned range has the block needed next, and no block of the head's own chain rolls it back. |
| `sequencer_any` (136,984) | `MCSequencer` | Any engine calls and any fetched blocks: the gossip is a sequence of whole blocks (`GossipWellFormed`), each sealed as preconfirmed (`SealKeepsPreconfirmations`). |
| `gateway_sync` (597,543) | `MCGateway` | A gateway that starts five blocks behind and fetches in several batches: in the end it is at the head, or lacks the last block and no other, where that falls into a batch of its own (`CatchesUp`; section 4, batch boundary); it builds on the head only, is never sent a fetched block while sorting, and seals with the right state root (`HonestSeals`). |
| `params_queue` (4,517) | `MCParamsQueue` | A producer that laps a consumer while it attaches, copies and recovers: no torn message is returned (`WholeMessages`), messages come in order, with whole laps missing at most (`OrderedUpToLaps`), a consumer is never a lap ahead, and it always gets to the last message (`ReachesLatest`). |
| `sorting_any` (196,225) | `MCSorting` | Transactions, results, timers, deposits, engine calls, payloads and fetched blocks of two chains in any order: frags can be replayed, the transaction kept as the next one still executes when it is applied, the counter of simulations is exact, `unreachable!()` is not reached, the pool forgets nothing that is not mined (`ForgetsOnlyMined`) and withholds nothing that is ready (`ReadyIsActive`) as long as it is in step with the database (`InStep`), and nothing executable waits for ever. |
| `portal` (571,524) | `MCPortal` | Two concurrent calls and the background refresh, the registry changing, empty or away: op-node gets a gateway's payload only if the fallback found it valid, gateways hear of a head only after the fallback, every call returns, and the gateway in use is in the end the one whose turn it is (`RefreshHeals`). |
| `sorting_no_tx_pool` | `MCSorting` | Violated: section 4. |

**Bounds.** Two or three blocks are enough for every way in which events of
neighbouring blocks meet: the buffer compares with the last event of a kind and
looks at the next block, the engine holds one open block. Frags per block are 1, 2
and 3, so that first, middle, last and only frags occur, and one is empty. `U64` is
32: wrap-around is reached from block 1, and numbers in use stay far from the top.
The gap from 4 to 8 in `preconf_gossip` is wider than the pruning window.
In `sync_forks` the chains part below the head by up to four blocks, so a
reorg as deep as the range that `commit_block` asks for occurs; `MaxPending` bounds
the list. `MaxCalls`, `MaxBlockTxs` and `MaxRequests` bound the sequencer's runs:
five free calls are enough to seal a block and begin another one after a payload of
another builder, twelve calls in order are three blocks. `BatchSize` is 2 in place of the code's 20,
and the execution node starts with six blocks, so that a range takes several batches and
its last block may or may not fall into a batch of its own. In `params_queue` three slots and eight messages let the producer pass a
consumer twice; consumers share nothing that they write, so one is enough. In
`sorting_any` a sender with two nonces, one with a transaction and a deposit, the forced
deposit of a third and gas for four units make the checks of the sorter fail and succeed;
`n_per_loop` is 2, so that two results race. No transaction pays exactly the base fee and
every sender can pay there. One block is started, since a block starts from the
database and the pool whatever came before; two payloads or fetched blocks, out of three
blocks of two chains and the block that was sealed, are enough for each of the five
outcomes of `commit_block`. In `portal` two heads and turns of one block (`UpdateBlocks`) change the
gateway with every head. Deadlock is not checked where a finite stream or one of
these bounds lets the model stop.

**Fairness.** The handler's goroutine completes a chain of calls it has begun (weak
fairness of `HandleTailCall` and `HandleReturn`). `follower_stream` adds that gossip
delivers every event in the end, which is the run's premise. `follower_lossy` does
not; there only the driver is fair: derivation goes on whatever the buffer does. In
`Gateway` the two threads run and op-node goes on calling; ticks need no fairness,
since getPayload seals whatever has been sorted. In `Sorting` the sequencer's loop
turns and simulators answer (`Loop`), and the time of a frag passes (`TickSeal`): the
loop is a busy one on its own core. In `ParamsQueue` producer and consumers are
threads that run. In `Portal` every request ends by an answer or a timeout, and the
background task refreshes every second; that the registry answers again is a
premise of the two liveness properties, not fairness.

**Mutants.** For every property of these runs, `PROJECT.json` names a mutated
definition (a dropped guard, a wrong bound, a missing reset), marked `Mutant` in
the modules, under which TLC finds the property violated.

## 3. Theorems

Proved by TLAPS for every value of the constants (10,110 obligations, as `tlapm --summary` counts them):

| Theorem | States | Assumes |
|---|---|---|
| `EngineOrder` | `Spec => []EngineSeesWholePrefixes` | |
| `HeldUntilReady` | `Spec => []HeldExactlyUntilReady` | `WellNumbered` |
| `DropsOnlyOutdated` | `Spec => []OnlyOutdatedEventsDropped` | `PastGenesis` |
| `GethTypeCorrect` | `GethSpec => []GethTypeOK` | |
| `OpenBlockIsWellFormed` | `GethSpec => []OpenBlockWellFormed` | |
| `StateIsTheOpenBlocks` | `GethSpec => []StateMatchesOpenBlock` | |
| `PreSealed` | `GethSpec => []CompleteBlockIsPreSealed` | |
| `OnlyValidBlocks` | `GethSpec => []DatabaseIsValid` | |
| `PreconfirmedOnlyGrows` | `GethSpec => OpenBlockOnlyGrows` | |
| `ServedIsTheGateways` | `FollowerSpec => []ServesGatewayPrefix` | `IsStreamOf(tip, cut)` |
| `AssembledIsTheGateways` | `FollowerSpec => []OnlyGatewayBlocks` | `IsStreamOf(tip, cut)` |
| `PendingAlwaysSorted` | `SyncSpec => []PendingSorted` | |
| `NextBlockAlwaysRequested` | `SyncSpec => []NextBlockRequested` | |
| `HeadMovesBackForForksOnly` | `SyncSpec => RollsBackForAnotherChainOnly` | |
| `GossipIsWhole` | `SequencerSpec => []GossipWellFormed` | |
| `SealsArePreconfirmed` | `SequencerSpec => []SealKeepsPreconfirmations` | |
| `GatewayBuildsOnHead` | `GatewaySpec => []BuildsOnHead` | `StartsOnChain` |
| `GatewaySealsHonestly` | `GatewaySpec => []HonestSeals` | `StartsOnChain` |
| `NoFetchedBlockWhileSorting` | `GatewaySpec => NoBlockWhileSorting` | `StartsOnChain` |
| `NoTornMessage` | `QueueSpec => []WholeMessages` | |
| `ReadsInOrder` | `QueueSpec => []OrderedUpToLaps` | |
| `WaitsWithinALap` | `QueueSpec => []NeverALapAhead` | |
| `AppliedIsExecutable` | `SortingSpec => []NextIsExecutable` | |
| `BlockIsExecutable` | `SortingSpec => []FragsExecutable` | |
| `WaitsForWhatIsOut` | `SortingSpec => []InFlightIsOutstanding` | |
| `NeverWithoutAnOrder` | `SortingSpec => []OrderForEveryResult` | |
| `AnswersAreUsable` | `PortalSpec => []PayloadIsUsable` | |
| `GatewaysStayBehind` | `PortalSpec => []GatewaysFollowFallback` | |

Type correctness of the buffer, of block sync and of the sorter (`TypeCorrect`,
`SyncTypeCorrect`, `SortingTypeCorrect`) is proved on the way.

*Loops.* The library's induction theorems take an operator as a parameter, which the
provers cannot instantiate. Two facts do without: a set of naturals that is not empty
has a least element (`LeastNat`), and a function from steps and states to states can be
iterated any number of times (`StepsExist`). What a loop of the code computes, or a
recursive function or fold of the model, is then proved by looking at the first step at
which it would fail. The facts about sequences that a module needs stand at its
beginning, which keeps the context of its proofs small.

*The buffer.* `EngineSeesWholePrefixes` speaks of all the calls made, while the
code remembers the last of each kind; `PrefixInv` adds that what it remembers was
really sent, and is inductive with `TypeOK`. A frag is ready after its predecessor
or, with number 0, after its env, so each call extends a whole prefix. `DropInv`
adds to `OnlyOutdatedEventsDropped` that the pruning mark and a pending prune lie
the window below an announced block. `HeldExactlyUntilReady` is inductive given the
types. The two assumptions are about the stream: `WellNumbered`, no frag is
numbered above the last one of its block or with the largest `uint64`;
`PastGenesis`, no env or safe block is below block 2. Without the latter the
property fails (section 4, young chains).

*The engine.* Each invariant is inductive given the ones above it in the table:
`newFragV0` validates against the open block, executes and adds the frag, and
writes the block at its last frag, or else resets block and state together. A block
gets into the database through `BlockValid` only, on a parent that is in it.
`StateMatchesOpenBlock` compares the state with all the frags put together, by a fold:
the lemmas say what appending a frag adds to the fold, and that a frag which executes
repeats no transaction of the chain or of the state.

*The follower.* `IsStreamOf(tip, cut)` says that the events are one gateway's: block
*n* is `tip[n]` and its frags divide its transactions at the places `cut[n]`; nothing
is said of how they arrive. `BufferTypes` and `EngineHalf` show that the composition
takes steps of its parts only. `ServeInv` then counts: an open block with *k* frags
has executed the first `cut[n][k]` transactions of `tip[n]`. `IsNextFrag` lets in no
frag but number *k*, so the next state holds the first `cut[n][k + 1]`, and at the last
frag the assembled block is `tip[n]` itself. Nothing is needed of the buffer, which
is why lost calls do no harm. TLC evaluates `IsStreamOf` on the streams of its runs
(`OfOneGateway`).

*Block sync.* `SyncInv` is types and sortedness. Inserting at any index that the
binary search may return keeps the order; draining pops from the end.
`NextBlockRequested` then follows for each outcome of `commit_block` by arithmetic
on numbers and lengths. For `RollsBackForAnotherChainOnly` the drain of the pending
list is taken step by step: each block popped has the head as its parent, so the head
only moves up its own chain, however many blocks are popped.

*The gateway.* `GossipInv` ties the last message emitted to the sequencer's state: in
`Sorting` it is an env or a frag that is not the last, numbered one below the next;
in every other state it is a seal. So each message extends a whole sequence.
`SealInv` adds what the messages since the last env have preconfirmed: its parent and
time are those of the block being sorted, and the frags put together are the
transactions of the frag sequence. The seal is made of these, so it keeps them.

*The whole gateway.* `GatewayInv` says where the database is on the chain of the
execution node. `AtHead`: nothing is asked for, fetched or on the way, and if a
block is sorted, it is on the head. `Behind`: the gateway waits or syncs, and its
shared state is empty. `Ahead`: it has committed its own block, and op-node has yet to
insert that or another one; the driver's place in its cycle is what excludes a block
sorted on it. `FetcherInv` is about the way from the fetcher: the blocks handed in lie on
the chain without a gap from the head of the database on, and only the last of them may
be the head of the execution node, and only when the fetcher has nothing more to do. So
no block is ever pending, each fetched block is the next one or known, and the one that
makes the sequencer leave `Syncing` is the last. `OpenBlock` says that the shared state
holds the frags sealed and what the current one has committed, hence the state root of
a seal. The hypothesis `StartsOnChain` is that the gateway's database is at a block of
the execution node's chain; a gateway that starts on a fork rolls back, which
`BlockSync` covers.

*Sorting.* `SortingInv` adds to `NextIsExecutable` that nothing is kept while a deposit is
waited for; a result is kept only if its state id is the current one, and whatever
changes the state clears what is kept. `Outstanding` counts: the simulations that are
out on the current state are as many as `in_flight_sims`, and those of one sender, with
the result that is kept, are no more than the orders of that sender. A result for
an older state is in neither count, and a change of state makes every result an older one.
A round of `send_next` keeps the counts for any number of simulations and any orders
that run out of gas or of transactions on the way: this is the induction over its loop.
The second count is what keeps `remove_from_sender` from its `unreachable!()`; the first
does not imply it. `FragInv` relates the block, with the frag being filled, to the two
states: each transaction that is not a deposit has as its nonce the one of the
state the block was started on plus the number of its sender's transactions before it,
and the current nonces are those after the last. What is applied fits by
`NextIsExecutable`, and a new frag starts on the state in which the last one left off.
A deposit is held to no nonce itself but counts for those of its sender that follow. The
types need that whatever `commit_block` does leaves a chain in `db` (`CommitType`), from
which the nonces are counted again (`NoncesAtType`).

*The ring.* `QueueInv` says what a version means: even versions belong to a slot
whose two words are one message, the slot being written has an odd one, and a
consumer that has read version *v* and finds it unchanged has copied the words that
are still there. A producer raises the version before the first word, so that a
copy in progress can no longer be taken for whole. `LapInv` adds how versions count:
the version of a slot is two for each time it was written, so that it says which lap
its message is of; what a consumer got last is whole laps and one message before its
cursor; and the cursor is less than a lap ahead of the producer, although a consumer that
attaches reads the producer's count twice.

*The portal.* `PortalInv`: a task holds a gateway's payload only after it was
validated, and a result is made of the two answers. `ToldInv`: a call that has come
past the fallback's answer, however long it then waits for the registry, is for a
head in `accepted`.

The assumptions on constants are the named `ASSUME`s: messages have the fields of
their type, blocks are not genesis, `U64 > 8`, a ring has a slot, a turn has a block,
senders are finitely many, the transactions that op-node forces into a block
are deposits, and the blocks handed to the sorter are of its transactions.

Left to TLC: liveness (`SealsEveryBlock`, `DriverRepairs`, `CatchesUp`,
`ReachesLatest`, `NothingWaitsForEver`, `EveryCallReturns`, `RefreshHeals`, the fairness
part of `FeedsInOrder`), which is out of the prover's reach; the pool's two properties
(`ReadyIsActive`, `ForgetsOnlyMined`), which are about single steps of the pool's lists; and
`EngineNeverRefuses` and the two refinements, which hold of streams that are delivered
as `OnceWarm` says and not of every stream.

## 4. Disagreements found

**`sorting_no_tx_pool`**, which TLC finds violated: a block whose attributes say
`no_tx_pool` starts without orders, but `handle_new_tx` puts every transaction that
arrives while it is sorted in front of the orders (`sequencer/src/lib.rs:413`), and it
is included. `op-geth/beacon/engine/types.go:56` says that such a block has the listed
transactions only.

Other observations, made with TLC on these modules and not kept as runs:

* *Cold start* (`preconf.go:126`). Until it has sent a first seal, `putEnv` forwards
  every env at once and remembers the last. With two early envs, the first frag of
  the earlier block is held although its env was forwarded, and nothing releases it.
* *Young chains* (`preconf.go:208`). `prune` subtracts in `uint64`. Block 1 becoming
  safe after env 4 wraps both subtractions: everything pending is dropped, and
  nothing is held any more.
* *Late seals* (`api.go:1443`). `sealFragV0` sets the sealed block canonical whatever
  the head is. When the driver has imported that block and its child, a late seal
  moves the head back; `DriverRepairs` shows that it does not stay there.
* *Batch boundary* (`block_fetcher.rs:53`). The fetcher fetches while
  `next_block < sync_until` although both ends are inclusive. A range of
  `batch_size + 2` blocks leaves its last block unfetched, and the sequencer in
  `Syncing` until another payload makes it ask again. TLC finds `<>[](db = remote)`
  violated by this in `gateway_sync`; `CatchesUp` says that it is all that can be lost.
* `ValidateEnvV0` accepts a timestamp equal to the parent's, where
  `docs/docs/architecture/execution.md:33` wants a greater one; the block then fails
  verification at its last frag.
* A payload below the head becomes the parent of the next block, where the comment
  at `based/crates/sequencer/src/lib.rs:188` says that old payloads are ignored.
  With calls in order this does not happen (`BuildsOnHead`). With any calls it
  does, and a block sealed then has the wrong root: hence `HonestSeals` is claimed
  of `Gateway` and not of `Sequencer`.
* `insert_pending_block` inserts a block twice. Once one copy is executed the other
  is never popped, and the blocks behind it are not applied. At the level of
  `commit_block` TLC shows it with one chain; that a reorg of more than three
  blocks leads there in a whole gateway was derived by hand.
* The `debug_assert!(false)` at `block_sync/mod.rs:119` is reached when pending
  blocks and delivered blocks are of different chains.
* The portal's getPayload asks the gateway that is current when it is called
  (`server.rs:490`), which a refresh may have changed since the block was begun.
* With a registry that does not answer, a forkchoice update with attributes does not
  return although the fallback has answered (`server.rs:410`); a registry with an
  empty list is one that does not answer (`main.rs:163` divides by its length).
  Hence the premise of `EveryCallReturns`. The list of gateways that are told of new
  payloads is read once (`server.rs:147`), while the current one follows the registry.

* The doc comment of `handle_new_block` (`pool.rs`) says that it is called for a synced
  block and for a committed frag. `seal_frag` calls `remove_mined_txs` only, so that the
  active lists are not rebuilt: once a transaction that pays exactly the base fee is
  sealed, the next one of its sender, though ready, is not active before the next block
  is committed. Hence `ReadyIsActive` is about the senders in `Regular`.
* `commit_block` of the context refreshes the pool with every block it is given
  (`context.rs:329`), also with one that is put aside or rolls the database back, and
  not with the pending blocks committed after it. `forward` (`tx_list.rs:51`), documented
  as removing nonces up to the given one, pops on to the end of the list when that nonce is
  not in it. So a block that is ahead of the database, or one that comes when the pool
  still has transactions mined by a pending block, makes the pool forget transactions
  that are not mined; and such a leftover at the front of a list keeps the ready ones
  behind it from being active. `InStep` is the premise that excludes this.
* A transaction received while a block is sorted becomes an order, and a deposit is
  also queued in `deposits` (`sequencer/src/lib.rs:413`): it is simulated from both, and
  may be in the block twice. `FragsExecutable` asks nothing of the deposits
  themselves.

Read in the code, and outside what the models distinguish:

* `test_block_sync_reorgs`, which is ignored, expects the range after a roll-back
  (`block_sync/mod.rs:295`) to begin one block below the competing one; `commit_block`
  returns the head after two roll-backs, one block earlier. The model follows the code.
* The registry's `eth_client.url` is documented as the url of the portal
  (`gateway_registry/src/main.rs:38`); the launcher passes that of the fallback
  (`registry_launcher.star:129`), which is what `Portal` models.
* A deposit received by RPC is applied without a look at the gas that remains
  (`sorting_data.rs:269`).
* A result is dropped by a simulator that cannot deliver it within 10 ms
  (`simulator.rs:157`); the sorter would then wait for it until the next frag.
* A simulator reads block parameters and requests from two channels
  (`simulator.rs:141`) and may take a request before the parameters of its block.
* `roll_back_head` leaves the read caches as they are (`db/src/lib.rs`), where the comment
  at `db/src/cache.rs:15` says that entries are invalidated on database commits, and
  `commit_block_unchecked` updates them before it writes. A reader in `provider()` may
  store a read transaction begun before a commit after `reset_provider`.
* A consumer that attaches as the producer enters a new lap may skip up to a lap.

## 5. Inventory

Modelled in full: the preconfirmation buffer, the follower node as a composition,
block sync, the block fetcher, sorting, the registry.

In part: op-geth's unsealed block (not its RPC readers) and chain (not the EVM,
tries, snapshots, downloader); op-node's engine client and driver (the calls they
make); the gateway's sequencer; the simulators (requests and results, not threads and
EVM); the transaction pool (not the paths that simulation in the pool would use);
shared state and database (the chain, not the read caches); the queues (the
ring, with its one producer; the bounded channels are queues or bags that do not fill); the
portal (its engine calls, not the reads it relays).

Not modelled, and why:

* op-geth's RPC readers of the unsealed block: they change nothing and read block and
  state without the lock, and nothing in the repository promises that the two belong
  together, so there is no property to check.
* The read caches of the gateway's database and its shared read transaction: what they
  may return stale is account data, which the models abstract to the chain.
* Gossip, the gossiper, RPC servers, encodings and signatures, except for what they
  may do to a message: lose, repeat, reorder.
* Timers and the timekeeper, the mock fetcher, deployment, wallet: no protocol state.
* reth, and the parts of optimism and op-geth that this repository takes over
  unchanged. The repository's own code is the 13,000 lines of Rust under `based/` and
  some files changed in op-geth and optimism, about one line in fifty of the tree: no
  model of based-op can cover more than a small share of all its lines.

The hazards of the code, each with its line and the properties that cover it, are
in `PROJECT.json`, and those without a property say why.

## 6. Plan

1. `Gateway` feeding `Follower`: what the sequencer emits satisfies `IsStreamOf`, in
   place of the fixed streams; a restart of op-node.
2. `Portal` in front of `Sequencer`, in place of `Gateway`'s ordered calls.
3. `Sorting` refining the choice of transactions that `Sequencer` leaves open.
4. The read caches, over a state that tells accounts apart.
5. Proofs: the steps of the two refinements under a statement of `OnceWarm` for any
   stream; the pool's active lists.
