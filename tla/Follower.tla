------------------------------ MODULE Follower ------------------------------
(***************************************************************************)
(* A node that follows a gateway: op-node's preconfirmation buffer, the    *)
(* op-geth it drives through the engine API, and the other client of that  *)
(* API, op-node's driver, which imports the same blocks whole.             *)
(*                                                                         *)
(* A put* that finds its event ready calls the engine and then records the *)
(* event as sent, whatever the engine answers: the errors that             *)
(* EngineClient returns are logged there and dropped by the buffer.  The   *)
(* call and the record are one step, since nothing else reads the buffer.  *)
(***************************************************************************)
EXTENDS PreconfState, Sequences

CONSTANTS Tx, Payload, InitHead, StateLost, GasLimit, \* see UnsealedBlock
          RpcMayFail                              \* whether engine calls may get lost

VARIABLES blocks, head, unsealed, unsealedState

Geth == INSTANCE UnsealedBlock WITH Message <- Stream

gethVars     == <<blocks, head, unsealed, unsealedState>>
followerVars == <<vars, gethVars>>

FollowerInit == Init /\ Geth!GethInit

-----------------------------------------------------------------------------
\* Whether put(m) calls the engine.
Forwards(m) ==
    \/ m.type = "env" /\ EnvReady(m)
    \/ m.type = "frag" /\ FragReady(m)
    \/ m.type = "seal" /\ SealReady(m)

\* The engine's side of put(m).
EngineCall(m) ==
    \/ /\ Forwards(m)
       /\ Geth!EnvV0(m) \/ Geth!NewFragV0(m) \/ Geth!SealFragV0(m)
    \/ /\ Forwards(m) => RpcMayFail
       /\ UNCHANGED gethVars

\* The handler takes an event.  The driver promotes a block to safe, and says so
\* to the buffer, once the engine has it.
Handle(m) ==
    /\ m.type = "l2" => m.hash \in blocks
    /\ preconfHandler(m)
    /\ EngineCall(m)

HandleTailCall ==
    /\ TailCall
    /\ \E m \in call : EngineCall(m)

HandleReturn ==
    /\ ReturnToL2Block
    /\ UNCHANGED gethVars

\* The driver inserts a payload, and then makes it the head.
DriverNewPayload(h) == Geth!newPayload(h) /\ UNCHANGED vars

DriverForkchoice(h) == Geth!forkchoiceUpdated(h) /\ UNCHANGED vars

FollowerNext ==
    \/ \E m \in Stream : Handle(m)
    \/ HandleTailCall
    \/ HandleReturn
    \/ \E h \in Payload : DriverNewPayload(h) \/ DriverForkchoice(h)

\* The handler's goroutine completes what it has begun.
HandlerFairness ==
    /\ WF_followerVars(HandleTailCall)
    /\ WF_followerVars(HandleReturn)

\* Gossip delivers in the end every event it may deliver.
GossipFairness == \A m \in Stream : WF_followerVars(Handle(m))

\* Derivation and the sync of unsafe blocks go on whatever the buffer does.
DriverFairness ==
    \A h \in Payload : /\ WF_followerVars(DriverNewPayload(h))
                       /\ WF_followerVars(DriverForkchoice(h))

FollowerSpec == FollowerInit /\ [][FollowerNext]_followerVars
StreamSpec   == FollowerSpec /\ HandlerFairness /\ GossipFairness
RepairSpec   == FollowerSpec /\ HandlerFairness /\ DriverFairness

-----------------------------------------------------------------------------
(***************************************************************************)
(* Properties.                                                             *)
(***************************************************************************)
Seals       == {m \in Stream : m.type = "seal"}
GatewayTips == {s.hash : s \in Seals}

IsPrefixOf(a, b) == Len(a) <= Len(b) /\ SubSeq(b, 1, Len(a)) = a

\* The transactions of the block with hash h.
TxsIn(h) == h[Len(h)].txs

\* The events are of one gateway: its block n is tip[n], and is sealed in the end;
\* frag k of it holds the transactions after the first cut[n][k] of the block, up
\* to the first cut[n][k + 1].
IsStreamOf(tip, cut) ==
    \A m \in Stream : m.type \in {"env", "frag"} =>
        LET h == tip[m.block]
            c == cut[m.block]
        IN  /\ h \in GatewayTips /\ h \in Geth!Hash /\ m.block \in Nat \ {0} /\ Len(h) = m.block
            /\ m.type = "env" => /\ m.parent = Geth!Parent(h) /\ m.time = Geth!Time(h)
                                 /\ c[0] = 0
            /\ m.type = "frag" => /\ m.seq \in Nat /\ m.last \in BOOLEAN
                                  /\ c[m.seq] \in Nat
                                  /\ c[m.seq + 1] \in c[m.seq] .. Len(TxsIn(h))
                                  /\ m.txs = SubSeq(TxsIn(h), c[m.seq] + 1, c[m.seq + 1])
                                  /\ m.last => c[m.seq + 1] = Len(TxsIn(h))

\* Whatever is lost, repeated, reordered or refused on the way to the engine, the
\* block that RPC reads are served from is a prefix of the gateway's block with
\* that number: NewFragV0 never skips, repeats or swaps a transaction, although
\* the buffer counts a frag as sent when the call has failed.
ServesGatewayPrefix ==
    \A ub \in unsealed, st \in unsealedState :
        \E h \in GatewayTips :
            /\ Geth!Number(h) = ub.env.block
            /\ Geth!Parent(h) = st.parent
            /\ IsPrefixOf(st.txs, h[Len(h)].txs)

\* No block is ever assembled from part of the frags of a gateway's block: the
\* database holds blocks of the gateway, those the driver imported, and the old.
OnlyGatewayBlocks ==
    blocks \subseteq Geth!Ancestors(InitHead) \cup GatewayTips \cup Payload

EngineAccepts(m) ==
    \/ m.type = "env" /\ Geth!envV0OK(m)
    \/ m.type = "frag" /\ Geth!newFragV0OK(m)
    \/ m.type = "seal" /\ Geth!sealFragV0OK(m)

\* The contract between the two programs: what the buffer finds ready, op-geth
\* accepts (ValidateEnvV0, ValidateNewFragV0, ValidateSealFragV0), so that no
\* open block is discarded, even when the driver imports the same blocks first.
EngineNeverRefuses ==
    [][\A m \in sent' \ sent : EngineAccepts(m)]_followerVars

\* Under a driver that keeps importing, the node always gets back to the last
\* block of the gateway, whatever is lost, repeated or refused, and although a
\* seal forwarded late may move the head back.
DriverRepairs == []<>(\A h \in Payload : h \in Geth!Ancestors(head))
=============================================================================
