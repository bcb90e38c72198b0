---------------------------- MODULE UnsealedBlock ----------------------------
(***************************************************************************)
(* The unsealed block of op-geth: the block a node rebuilds from the env,  *)
(* frags and seal of a gateway, and the part of the chain it ends up in    *)
(* (op-geth/eth/catalyst/api.go, core/blockchain*.go,                      *)
(* core/types/unsealed_block.go).                                          *)
(*                                                                         *)
(* Hashes are those of module Hashes.  The roots and the gas in a seal are *)
(* functions of the block, and agree with it when the hash does.           *)
(***************************************************************************)
EXTENDS Hashes

CONSTANTS
    Message,    \* the env, frag and seal messages the engine may be called with
    Payload,    \* the hashes of the execution payloads it may be given
    InitHead,   \* the hash of the head of the chain at the start
    StateLost,  \* the hashes of the old blocks whose state is no longer kept
    GasLimit    \* of a block; every transaction uses one unit

\* What the JSON decoder lets through, and that hashes are hashes.
ASSUME MessageAssumption ==
    \A m \in Message :
        /\ m.type = "env" => m.parent \in Hash /\ m.block \in Nat /\ m.time \in Nat
        /\ m.type = "frag" => /\ m.block \in Nat /\ m.seq \in Nat
                             /\ m.last \in BOOLEAN /\ m.txs \in Seq(Tx)
        /\ m.type = "seal" => m.hash \in Hash /\ m.block \in Nat /\ m.total \in Nat

ASSUME ChainAssumption == InitHead \in Hash /\ Payload \subseteq Hash

VARIABLES
    blocks,         \* hashes of the blocks in the database
    head,           \* hash of the current block: the canonical chain is its prefixes
    unsealed,       \* currentUnsealedBlock: {} for nil
    unsealedState   \* unsealedBlockDbState, as the transactions executed on which block

chain      == <<blocks, head>>
gethVars   == <<blocks, head, unsealed, unsealedState>>

-----------------------------------------------------------------------------
\* A transaction runs once: its second run fails on the nonce.  `gas' is what
\* the gas pool holds when the execution starts.
Executes(done, txs, gas) ==
    /\ Len(txs) <= gas
    /\ TxSet(txs) \cap done = {}
    /\ \A i, j \in DOMAIN txs : txs[i] = txs[j] => i = j

\* insertChain's verification of a block whose parent and its state are known.
\* The roots in its header are computed from this very execution.
BlockValid(h) ==
    /\ Time(h) > Time(Parent(h))
    /\ Executes(History(Parent(h)), h[Len(h)].txs, GasLimit)

GethInit ==
    /\ head = InitHead
    /\ blocks = Ancestors(InitHead)
    /\ unsealed = {}
    /\ unsealedState = {}

-----------------------------------------------------------------------------
\* Mutant: the state of the discarded block stays.
ResetBlockOnly ==
    /\ unsealed' = {}
    /\ UNCHANGED unsealedState

ResetCurrentUnsealedBlock ==
    /\ unsealed' = {}
    /\ unsealedState' = {}

SetCurrentUnsealedBlock(env) ==
    /\ unsealed' = {[env |-> env, frags |-> <<>>, lastSequenceNumber |-> {}]}
    /\ unsealedState' = {[parent |-> env.parent, txs |-> <<>>]}

\* Mutant: the open block is not looked at.
ValidateEnvAlone(m) ==
    /\ m.parent \in blocks
    /\ m.block = Number(m.parent) + 1
    /\ m.time >= Time(m.parent)

ValidateEnvV0(m) ==
    /\ m.parent \in blocks
    /\ unsealed = {}
    /\ m.block = Number(m.parent) + 1
    /\ m.time >= Time(m.parent)

envV0OK(m) == ValidateEnvV0(m) /\ m.parent \notin StateLost

EnvV0(m) ==
    /\ m.type = "env"
    /\ \/ envV0OK(m) /\ SetCurrentUnsealedBlock(m)
       \/ ~envV0OK(m) /\ ResetCurrentUnsealedBlock
    /\ UNCHANGED chain

\* Mutant: a frag may follow the last one.
IsNextFragAfterLast(ub, f) ==
    \/ ub.lastSequenceNumber = {} /\ f.seq = 0
    \/ \E n \in ub.lastSequenceNumber : n + 1 = f.seq

IsNextFrag(ub, f) ==
    \/ ub.lastSequenceNumber = {} /\ f.seq = 0
    \/ \E n \in ub.lastSequenceNumber :
          LET lastKnownFrag == ub.frags[n + 1]
          IN  ~lastKnownFrag.last /\ lastKnownFrag.seq + 1 = f.seq

\* Mutant: any frag of the open block is taken.
ValidateFragNumber(f) == \E ub \in unsealed : f.block = ub.env.block

ValidateNewFragV0(f) ==
    \E ub \in unsealed : f.block = ub.env.block /\ IsNextFrag(ub, f)

\* The gas pool is refilled for every frag.
CanExecuteFrag(f) ==
    \E st \in unsealedState :
        Executes(History(st.parent) \cup TxSet(st.txs), f.txs, GasLimit)

AddFrag(ub, f) == [ub EXCEPT !.frags = Append(@, f), !.lastSequenceNumber = {f.seq}]

\* Mutant: the frag is executed on the state of the parent.
ExecuteOnParent(st, f) == [st EXCEPT !.txs = f.txs]

ExecuteFrag(st, f) == [st EXCEPT !.txs = @ \o f.txs]

InsertNewFrag(f) ==
    /\ unsealed' = {AddFrag(ub, f) : ub \in unsealed}
    /\ unsealedState' = {ExecuteFrag(st, f) : st \in unsealedState}

\* The block that SealBlock assembles from an unsealed block and its state, and
\* the one it will assemble after frag f.
SealedHash(ub, st) ==
    Append(ub.env.parent, [time |-> ub.env.time, txs |-> st.txs])

\* Mutant: the block is assembled before the last frag is in it.
SealBlockTooEarly(f) == {SealedHash(ub, st) : ub \in unsealed, st \in unsealedState}

SealBlock(f) ==
    {SealedHash(ub, ExecuteFrag(st, f)) : ub \in unsealed, st \in unsealedState}

\* Mutant: the assembled block is written without verification.
newFragUnverified(f) == ValidateNewFragV0(f) /\ CanExecuteFrag(f)

newFragV0OK(f) ==
    /\ ValidateNewFragV0(f)
    /\ CanExecuteFrag(f)
    /\ f.last => \A h \in SealBlock(f) : BlockValid(h)

NewFragV0(f) ==
    /\ f.type = "frag"
    /\ \/ /\ newFragV0OK(f)
          /\ InsertNewFrag(f)
          /\ blocks' = IF f.last THEN blocks \cup SealBlock(f) ELSE blocks
       \/ /\ ~newFragV0OK(f)
          /\ ResetCurrentUnsealedBlock
          /\ UNCHANGED blocks
    /\ UNCHANGED head

\* The block is the one in the database with the hash that the seal gives.
ValidateSealFragV0(s) ==
    /\ s.hash \in blocks /\ Number(s.hash) = s.block
    /\ \E ub \in unsealed : Len(ub.frags) = s.total

\* The state of the block is rebuilt from that of an ancestor if need be.
CanSetCanonical(h) == \E a \in Ancestors(h) : a \notin StateLost

sealFragV0OK(s) == ValidateSealFragV0(s) /\ CanSetCanonical(s.hash)

SealFragV0(s) ==
    /\ s.type = "seal"
    /\ \/ sealFragV0OK(s) /\ head' = s.hash
       \/ ~sealFragV0OK(s) /\ UNCHANGED head
    /\ ResetCurrentUnsealedBlock
    /\ UNCHANGED blocks

-----------------------------------------------------------------------------
(***************************************************************************)
(* The engine's other client, op-node's driver, which imports whole blocks *)
(* and moves the head to them.  A payload whose parent, or its state, is   *)
(* not known is put aside, and an invalid one refused: neither changes     *)
(* this state.                                                             *)
(***************************************************************************)
newPayload(h) ==
    /\ h \notin blocks
    /\ Parent(h) \in blocks \ StateLost
    /\ BlockValid(h)
    /\ blocks' = blocks \cup {h}
    /\ UNCHANGED <<head, unsealed, unsealedState>>

\* Mutant: the head stays while a block is open.
forkchoiceAfterSeal(h) ==
    /\ unsealed = {}
    /\ h \in blocks
    /\ h \notin Ancestors(head)
    /\ CanSetCanonical(h)
    /\ head' = h
    /\ UNCHANGED <<blocks, unsealed, unsealedState>>

\* A head that is already canonical is left where it is.
forkchoiceUpdated(h) ==
    /\ h \in blocks
    /\ h \notin Ancestors(head)
    /\ CanSetCanonical(h)
    /\ head' = h
    /\ UNCHANGED <<blocks, unsealed, unsealedState>>

GethNext ==
    \/ \E m \in Message : EnvV0(m) \/ NewFragV0(m) \/ SealFragV0(m)
    \/ \E h \in Payload : newPayload(h) \/ forkchoiceUpdated(h)

GethSpec == GethInit /\ [][GethNext]_gethVars

-----------------------------------------------------------------------------
(***************************************************************************)
(* Properties.                                                             *)
(***************************************************************************)
Frag == {m \in Message : m.type = "frag"}
Env  == {m \in Message : m.type = "env"}

OpenBlock == [env : Env, frags : Seq(Frag), lastSequenceNumber : SUBSET Nat]
OpenState == [parent : Hash, txs : Seq(Tx)]

\* The types of the fields of BlockChain, and that the unsealed block and its
\* state are set and reset together.
GethTypeOK ==
    /\ blocks \subseteq Hash
    /\ head \in blocks
    /\ unsealed \subseteq OpenBlock
    /\ unsealedState \subseteq OpenState
    /\ \A a, b \in unsealed : a = b
    /\ \A a, b \in unsealedState : a = b
    /\ unsealed = {} <=> unsealedState = {}

\* The open block extends a known block by one and holds the frags 0 .. n - 1 of
\* its own number, none after a last one; lastSequenceNumber is nil or the index
\* of its last frag, so that IsNextFrag never indexes past the end of Frags.
OpenBlockWellFormed ==
    \A ub \in unsealed :
        /\ ub.env.parent \in blocks
        /\ ub.env.block = Number(ub.env.parent) + 1
        /\ ub.lastSequenceNumber = IF ub.frags = <<>> THEN {} ELSE {Len(ub.frags) - 1}
        /\ \A i \in DOMAIN ub.frags :
              /\ ub.frags[i].block = ub.env.block
              /\ ub.frags[i].seq = i - 1
              /\ ub.frags[i].last => i = Len(ub.frags)

\* The transactions of the first n frags of a block, in order.
TxsOf(frags) ==
    LET upTo[n \in 0 .. Len(frags)] ==
          IF n = 0 THEN <<>> ELSE upTo[n - 1] \o frags[n].txs
    IN  upTo[Len(frags)]

\* The state that RPC reads are served from has executed, on top of the parent of
\* the open block, exactly the transactions of its frags, each once and in order.
StateMatchesOpenBlock ==
    \A ub \in unsealed, st \in unsealedState :
        /\ st.parent = ub.env.parent
        /\ st.txs = TxsOf(ub.frags)
        /\ \A i, j \in DOMAIN st.txs : st.txs[i] = st.txs[j] => i = j

\* An open block whose last frag has been accepted is in the database already,
\* under the hash of exactly what was executed: the seal finds it there.
CompleteBlockIsPreSealed ==
    \A ub \in unsealed, st \in unsealedState :
        (\E i \in DOMAIN ub.frags : ub.frags[i].last) => SealedHash(ub, st) \in blocks

\* The database is closed under parents, and no block that did not obey the rules
\* on timestamps and gas is ever in it, although ValidateEnvV0 accepts a
\* timestamp equal to the parent's and each frag is given a full gas pool.
DatabaseIsValid ==
    \A h \in blocks \ Ancestors(InitHead) : Parent(h) \in blocks /\ BlockValid(h)

\* What has been preconfirmed is only ever extended while its block stays open:
\* an env never replaces an open block and a frag never rewrites one.
OpenBlockOnlyGrows ==
    [][\A ub \in unsealed, ub2 \in unsealed' :
          /\ ub2.env = ub.env
          /\ SubSeq(ub2.frags, 1, Len(ub.frags)) = ub.frags]_gethVars
=============================================================================
