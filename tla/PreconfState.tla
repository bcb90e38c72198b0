---------------------------- MODULE PreconfState ----------------------------
(***************************************************************************)
(* The preconfirmation buffer of op-node                                   *)
(* (optimism/op-node/rollup/engine/preconf.go).                            *)
(*                                                                         *)
(* A gateway announces a block by an Env, streams its transactions in      *)
(* numbered Frags, the last of which is marked, and closes it with a Seal. *)
(* Gossip hands these events to the node in any order.  One goroutine      *)
(* (preconfHandler) takes an event at a time, forwards it to the execution *)
(* engine if it is ready, and holds it otherwise; forwarding an event may  *)
(* make a held one ready, which is then forwarded too.                     *)
(*                                                                         *)
(* In the code that cascade is a chain of tail calls putEnv -> putFrag ->  *)
(* ... -> putSeal -> putEnv.  Every call in it contains a blocking RPC to  *)
(* the engine, which has other clients, so a call is one step here: `call' *)
(* holds the event the running call hands to the next one, and the handler *)
(* selects no new event before the chain is over.                          *)
(***************************************************************************)
EXTENDS Integers

CONSTANTS
    U64,                \* number of uint64 values; 2^64 in the code
    Stream,             \* the events that may reach the node
    MayArrive(_, _, _)  \* MayArrive(m, received, sent): what the network may deliver next

Uint64 == 0 .. U64 - 1

(***************************************************************************)
(* An event has the fields the buffer looks at and any others.  "l2" is    *)
(* the reference of a new safe L2 block, sent by the derivation pipeline.  *)
(***************************************************************************)
IsEvent(m) ==
    /\ m.type \in {"env", "frag", "seal", "l2"}
    /\ m.block \in Uint64
    /\ m.type = "frag" => m.seq \in Uint64 /\ m.last \in BOOLEAN

ASSUME U64Assumption == U64 \in Nat /\ U64 > 8

ASSUME StreamAssumption == \A m \in Stream : IsEvent(m)

VARIABLES
    lastEnvSent, lastFragSent, lastSealSent, lastL2BlockSent,
    lastBlockWithAllFrags, lastBlockPruned,
    pendingEnvs, pendingFrags, pendingSeals,
    call,       \* the event passed to the tail call about to be made, if any
    l2Prune,    \* the block that putL2Block prunes by once its putEnv returns
    received,   \* history: the events taken from the channels
    sent        \* history: the events the engine has been called with

last    == <<lastEnvSent, lastFragSent, lastSealSent, lastBlockWithAllFrags>>
pending == <<pendingEnvs, pendingFrags, pendingSeals>>
vars    == <<last, lastL2BlockSent, lastBlockPruned, pending,
             call, l2Prune, received, sent>>

-----------------------------------------------------------------------------
(***************************************************************************)
(* uint64 arithmetic, Option and FragIndex.                                *)
(***************************************************************************)
Sub(a, b) == IF b <= a THEN a - b ELSE a - b + U64
Inc(a)    == IF a = U64 - 1 THEN 0 ELSE a + 1

\* An Option is the set of the values it holds: at most one.
None          == {}
IsSet(o)      == o # None
IsEqual(o, v) == v \in o

\* Mutant: a successor that skips a frag.
nextButOne(i) == <<i[1], Inc(Inc(i[2]))>>

index(f) == <<f.block, f.seq>>
prev(i)  == <<i[1], Sub(i[2], 1)>>
next(i)  == <<i[1], Inc(i[2])>>

-----------------------------------------------------------------------------
(***************************************************************************)
(* The conditions under which an event is forwarded.                       *)
(***************************************************************************)
\* Mutants: the first frag does not wait for the env; the seal waits for the env
\* and not for the frags.
FragReadyWithoutEnv(m) == m.seq = 0 \/ IsEqual(lastFragSent, prev(index(m)))
SealReadyAfterEnv(m)   == IsEqual(lastEnvSent, m.block)

\* Mutant: an env does not wait for the seal of the block before.
EnvReadyAtOnce(m) == m.block \in Uint64

EnvReady(m) ==
    \/ ~IsSet(lastSealSent)
    \/ IsEqual(lastSealSent, Sub(m.block, 1))
    \/ IsEqual(lastL2BlockSent, m.block)

FragReady(m) ==
    \/ m.seq = 0 /\ IsEqual(lastEnvSent, m.block)
    \/ IsEqual(lastFragSent, prev(index(m)))

SealReady(m) == IsEqual(lastBlockWithAllFrags, m.block)

(***************************************************************************)
(* A pending map is the set of the events it holds, one for each key.      *)
(***************************************************************************)
SameKey(p, m) ==
    /\ p.type = m.type
    /\ p.block = m.block
    /\ m.type = "frag" => p.seq = m.seq

Hold(P, m) ==
    IF m.block >= lastBlockPruned
    THEN {p \in P : ~SameKey(p, m)} \cup {m}
    ELSE P

(***************************************************************************)
(* prune(currentBlock): what it leaves of a pending map, and of the mark.  *)
(***************************************************************************)
PruneSafeWindow == 2

Prunes(n) == Sub(n, lastBlockPruned) >= 2 * PruneSafeWindow

\* Mutant: the window below the current block is not spared.
KeepCurrent(P, n) == {m \in P : Prunes(n) => m.block >= n}

Keep(P, n) == {m \in P : Prunes(n) => m.block >= Sub(n, PruneSafeWindow)}

PruneMark(n) == IF Prunes(n) THEN Sub(n, PruneSafeWindow) ELSE lastBlockPruned

prune(n) ==
    /\ lastBlockPruned' = PruneMark(n)
    /\ pendingEnvs' = Keep(pendingEnvs, n)
    /\ pendingFrags' = Keep(pendingFrags, n)
    /\ pendingSeals' = Keep(pendingSeals, n)

-----------------------------------------------------------------------------
Init ==
    /\ lastEnvSent = None
    /\ lastFragSent = None
    /\ lastSealSent = None
    /\ lastL2BlockSent = None
    /\ lastBlockWithAllFrags = None
    /\ lastBlockPruned = 0
    /\ pendingEnvs = {}
    /\ pendingFrags = {}
    /\ pendingSeals = {}
    /\ call = {}
    /\ l2Prune = None
    /\ received = {}
    /\ sent = {}

putEnv(m) ==
    /\ m.type = "env"
    /\ \/ /\ EnvReady(m)
          /\ lastEnvSent' = {m.block}
          /\ sent' = sent \cup {m}
          /\ lastBlockPruned' = PruneMark(m.block)
          /\ pendingEnvs' = Keep(pendingEnvs, m.block)
          /\ pendingSeals' = Keep(pendingSeals, m.block)
          /\ call' = {f \in Keep(pendingFrags, m.block) : index(f) = <<m.block, 0>>}
          /\ pendingFrags' = Keep(pendingFrags, m.block) \ call'
       \/ /\ ~EnvReady(m)
          /\ pendingEnvs' = Hold(pendingEnvs, m)
          /\ call' = {}
          /\ UNCHANGED <<lastEnvSent, sent, lastBlockPruned, pendingFrags, pendingSeals>>
    /\ UNCHANGED <<lastFragSent, lastSealSent, lastBlockWithAllFrags>>

putFrag(m) ==
    /\ m.type = "frag"
    /\ \/ /\ FragReady(m)
          /\ lastFragSent' = {index(m)}
          /\ sent' = sent \cup {m}
          /\ \/ /\ m.last
                /\ lastBlockWithAllFrags' = {m.block}
                /\ call' = {s \in pendingSeals : s.block = m.block}
                /\ pendingSeals' = pendingSeals \ call'
                /\ UNCHANGED pendingFrags
             \/ /\ ~m.last
                /\ call' = {f \in pendingFrags : index(f) = next(index(m))}
                /\ pendingFrags' = pendingFrags \ call'
                /\ UNCHANGED <<lastBlockWithAllFrags, pendingSeals>>
       \/ /\ ~FragReady(m)
          /\ pendingFrags' = Hold(pendingFrags, m)
          /\ call' = {}
          /\ UNCHANGED <<lastFragSent, sent, lastBlockWithAllFrags, pendingSeals>>
    /\ UNCHANGED <<lastEnvSent, lastSealSent, lastBlockPruned, pendingEnvs>>

putSeal(m) ==
    /\ m.type = "seal"
    /\ \/ /\ SealReady(m)
          /\ lastSealSent' = {m.block}
          /\ sent' = sent \cup {m}
          /\ call' = {e \in pendingEnvs : e.block = Inc(m.block)}
          /\ pendingEnvs' = pendingEnvs \ call'
          /\ UNCHANGED pendingSeals
       \/ /\ ~SealReady(m)
          /\ pendingSeals' = Hold(pendingSeals, m)
          /\ call' = {}
          /\ UNCHANGED <<lastSealSent, sent, pendingEnvs>>
    /\ UNCHANGED <<lastEnvSent, lastFragSent, lastBlockWithAllFrags,
                   lastBlockPruned, pendingFrags>>

put(m) ==
    /\ putEnv(m) \/ putFrag(m) \/ putSeal(m)
    /\ UNCHANGED lastL2BlockSent

\* With an env to release, pruning waits for putEnv, and all that it calls, to return.
putL2Block(m) ==
    /\ m.type = "l2"
    /\ lastL2BlockSent' = {m.block}
    /\ call' = {e \in pendingEnvs : e.block = m.block}
    /\ \/ /\ call' # {}
          /\ pendingEnvs' = pendingEnvs \ call'
          /\ l2Prune' = {m.block}
          /\ UNCHANGED <<pendingFrags, pendingSeals, lastBlockPruned>>
       \/ /\ call' = {}
          /\ prune(m.block)
          /\ UNCHANGED l2Prune
    /\ UNCHANGED <<last, sent>>

-----------------------------------------------------------------------------
\* The handler is idle, and takes an event from one of its channels.
preconfHandler(m) ==
    /\ call = {} /\ l2Prune = None
    /\ MayArrive(m, received, sent)
    /\ received' = received \cup {m}
    /\ \/ put(m) /\ UNCHANGED l2Prune
       \/ putL2Block(m)

\* The tail call of a put* that has just forwarded an event.
TailCall ==
    /\ \E m \in call : put(m)
    /\ UNCHANGED <<l2Prune, received>>

\* The last statement of a putL2Block whose putEnv has returned.
ReturnToL2Block ==
    /\ call = {}
    /\ \E n \in l2Prune : prune(n)
    /\ l2Prune' = None
    /\ UNCHANGED <<last, lastL2BlockSent, call, received, sent>>

Next ==
    \/ \E m \in Stream : preconfHandler(m)
    \/ TailCall
    \/ ReturnToL2Block

Spec == Init /\ [][Next]_vars

-----------------------------------------------------------------------------
(***************************************************************************)
(* Properties.                                                             *)
(***************************************************************************)
OfType(t) == {m \in Stream : m.type = t}

\* No two events share a key: the set is the range of a map.
IsMap(P) == \A p, q \in P : SameKey(p, q) => p = q

\* The types of the fields of PreconfState, and of the model's control state.
TypeOK ==
    /\ lastEnvSent \subseteq Uint64
    /\ lastFragSent \subseteq Uint64 \X Uint64
    /\ lastSealSent \subseteq Uint64
    /\ lastL2BlockSent \subseteq Uint64
    /\ lastBlockWithAllFrags \subseteq Uint64
    /\ lastBlockPruned \in Uint64
    /\ pendingEnvs \subseteq OfType("env") /\ IsMap(pendingEnvs)
    /\ pendingFrags \subseteq OfType("frag") /\ IsMap(pendingFrags)
    /\ pendingSeals \subseteq OfType("seal") /\ IsMap(pendingSeals)
    /\ call \subseteq OfType("env") \cup OfType("frag") \cup OfType("seal")
    /\ \A a, b \in call : a = b
    /\ l2Prune \subseteq Uint64
    /\ received \subseteq Stream
    /\ sent \subseteq Stream

EnvSent(b)     == \E m \in sent : m.type = "env" /\ m.block = b
FragSent(b, i) == \E m \in sent : m.type = "frag" /\ index(m) = <<b, i>>
LastSent(b)    == \E m \in sent : m.type = "frag" /\ m.block = b /\ m.last

\* Whatever the order, repetition or loss of events on the way to the node, the
\* engine is never called with a frag (putFrag) before the env of its block and
\* all the frags with a lower number, nor with a seal (putSeal) before the env
\* and a complete run of frags of its block.
EngineSeesWholePrefixes ==
    \A m \in sent :
        /\ m.type = "frag" => /\ EnvSent(m.block)
                              /\ \A i \in 0 .. m.seq - 1 : FragSent(m.block, i)
        /\ m.type = "seal" => LastSent(m.block)

Ready(m) ==
    /\ m.type = "env" => EnvReady(m)
    /\ m.type = "frag" => FragReady(m)
    /\ m.type = "seal" => SealReady(m)

\* "The events that are not ready yet will be held until they are": no put*
\* leaves in a pending map an event that could be forwarded, and an event taken
\* out of a map is forwarded by the call it is passed to.
HeldExactlyUntilReady ==
    /\ \A m \in pendingEnvs \cup pendingFrags \cup pendingSeals : ~Ready(m)
    /\ \A m \in call : Ready(m)

\* The node has heard of a block by an env it forwarded or as a safe L2 block.
Announced == {m.block : m \in {x \in sent : x.type = "env"}}
             \cup {m.block : m \in {x \in received : x.type = "l2"}}

Outdated(b) == \E n \in Announced : b + PruneSafeWindow < n

\* Event m, or one that replaced it under its key, is forwarded or held.
Kept(m) ==
    \E x \in sent \cup call \cup pendingEnvs \cup pendingFrags \cup pendingSeals : SameKey(x, m)

\* "The amount of blocks we don't prune back from the current block": an event
\* taken from a channel is forwarded or held, or replaced by another with its
\* key, unless its block is more than PruneSafeWindow below a block announced.
OnlyOutdatedEventsDropped ==
    \A m \in received : m.type = "l2" \/ Kept(m) \/ Outdated(m.block)

(***************************************************************************)
(* Two conditions on the stream.  Frags are numbered up to the last one of *)
(* their block, and the counter does not wrap.  No block below the pruning *)
(* window is announced: genesis and block 1 are not.                       *)
(***************************************************************************)
WellNumbered ==
    \A f, g \in OfType("frag") :
        /\ f.seq < U64 - 1
        /\ f.block = g.block /\ f.last => g.seq <= f.seq

PastGenesis ==
    \A m \in Stream : m.type \in {"env", "l2"} => m.block >= PruneSafeWindow
=============================================================================
