------------------------------ MODULE Gateway ------------------------------
(***************************************************************************)
(* The sequencer and the block fetcher of a gateway, the execution node    *)
(* blocks are fetched from, and the op-node that drives both through the   *)
(* portal: a forkchoice with attributes, a payload asked for, the payload  *)
(* of the gateway or another one inserted and made the head, and again.    *)
(* Its calls reach the gateway in order.                                   *)
(***************************************************************************)
EXTENDS Sequencer

CONSTANTS
    BatchSize,      \* see BlockFetcher
    InitRemote      \* the head of the execution node at the start

ASSUME GatewayAssumption == BatchSize \in Nat /\ InitRemote \in Hash

VARIABLES nextBlock, syncUntil, received, synced, remote,
          driver    \* the next call of op-node

Fetcher == INSTANCE BlockFetcher

fetcherVars == <<nextBlock, syncUntil, received>>
gatewayVars == <<sequencerVars, fetcherVars, synced, remote, driver>>

GatewayInit ==
    /\ SequencerInit
    /\ remote = InitRemote
    /\ Fetcher!FetcherInit(Number(InitHead))
    /\ driver = "build"

Driver(from, to) ==
    /\ driver = from
    /\ driver' = to
    /\ UNCHANGED <<fetcherVars, synced>>

DriverBuild(a) ==
    /\ Driver("build", "get")
    /\ a.time > Time(remote)
    /\ handle_fork_choice_updated_engine_api(remote, {a})
    /\ UNCHANGED remote

DriverGetPayload ==
    /\ Driver("get", "insert")
    /\ handle_get_payload_engine_api
    /\ UNCHANGED remote

\* The block may be any that extends the chain, and the gateway is told of it as
\* the execution node is.
DriverInsert(b) ==
    /\ Driver("insert", "confirm")
    /\ Parent(b) = remote
    /\ handle_new_payload_engine_api(b)
    /\ remote' = b

DriverConfirm ==
    /\ Driver("confirm", "build")
    /\ handle_fork_choice_updated_engine_api(remote, {})
    /\ UNCHANGED remote

DriverNext ==
    \/ \E a \in Attributes : DriverBuild(a)
    \/ DriverGetPayload
    \/ \E b \in Block \cup OwnBlocks : b # <<>> /\ DriverInsert(b)
    \/ DriverConfirm

GatewayTick == Tick /\ UNCHANGED <<fetcherVars, synced, remote, driver>>

GatewayFetch ==
    /\ Fetcher!FetcherNext
    /\ UNCHANGED <<syncVars, state, lastBlockNumber, ctxVars, calls, remote, driver>>

GatewayBlockSync ==
    /\ synced # <<>>
    /\ handle_block_sync(Head(synced))
    /\ synced' = Tail(synced)
    /\ UNCHANGED <<fetcherVars, remote, driver>>

GatewayNext == DriverNext \/ GatewayTick \/ GatewayFetch \/ GatewayBlockSync

\* The gateway's threads run, and op-node goes on.
GatewaySpec ==
    /\ GatewayInit /\ [][GatewayNext]_gatewayVars
    /\ WF_gatewayVars(DriverNext)
    /\ WF_gatewayVars(GatewayFetch)
    /\ WF_gatewayVars(GatewayBlockSync)

-----------------------------------------------------------------------------
(***************************************************************************)
(* Properties.                                                             *)
(***************************************************************************)
\* Every block the gateway seals is one that a node which executes it accepts: its
\* state root is that of its parent with its transactions, although the shared
\* state outlives the block and is reset by the next payload only.
HonestSeals == \A m \in TxSet(emitted) : m.type = "seal" => RootOf(m)

\* The gateway builds on the head it was told to build on: while it sorts, its
\* parent is the head of its database and of the execution node.
BuildsOnHead == state = "Sorting" => parent = db /\ db = remote

\* "Should not have received block sync update while in state Sorting".
NoBlockWhileSorting == [][~(state = "Sorting" /\ GatewayBlockSync)]_gatewayVars

\* The gateway reaches the head of the chain and stays on it once op-node makes no more
\* calls, however many batches it has to fetch, or else it is left without the last block
\* and no other, when that block falls into a batch of its own: the fetcher does not ask
\* for a range of one block (next_block < sync_until, both ends being in the range).
CatchesUp ==
    \/ <>[](db = remote)
    \/ <>[](nextBlock = syncUntil /\ db = Parent(remote))
=============================================================================
