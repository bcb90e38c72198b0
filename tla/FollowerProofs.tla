--------------------------- MODULE FollowerProofs ---------------------------
(***************************************************************************)
(* A follower.  First its buffer, PreconfState, for every stream of events *)
(* and every rule MayArrive of their arrival: the order in which events    *)
(* reach the engine, which are held and which are dropped.  Then buffer    *)
(* and engine together: what is served is the gateway's, for every stream  *)
(* of one gateway, every cut of its blocks into frags, and whatever is     *)
(* lost, repeated, reordered or refused.                                   *)
(***************************************************************************)
EXTENDS Follower, TLAPS

(***************************************************************************)
(* Sequences, as far as the proofs below need them.                        *)
(***************************************************************************)
\* An element of a sequence.
LEMMA ElementOfSeq ==
    ASSUME NEW A, NEW s \in Seq(A), NEW i \in 1 .. Len(s) PROVE s[i] \in A
OBVIOUS

\* The empty sequence, and any other.
LEMMA EmptySeq ==
    ASSUME NEW A
    PROVE  <<>> \in Seq(A) /\ Len(<<>>) = 0 /\ \A s \in Seq(A) : s # <<>> => Len(s) \in Nat \ {0}
OBVIOUS

\* A sequence is a function on its positions.
LEMMA LenProperties ==
    ASSUME NEW A, NEW s \in Seq(A)
    PROVE  Len(s) \in Nat /\ DOMAIN s = 1 .. Len(s) /\ s \in [1 .. Len(s) -> A]
OBVIOUS

\* One element more.
LEMMA AppendProperties ==
    ASSUME NEW A, NEW s \in Seq(A), NEW x \in A
    PROVE  /\ Append(s, x) \in Seq(A) /\ Append(s, x) # <<>> /\ Len(Append(s, x)) = Len(s) + 1
           /\ Append(s, x)[Len(s) + 1] = x /\ \A i \in 1 .. Len(s) : Append(s, x)[i] = s[i]
OBVIOUS

\* The whole of a sequence.
LEMMA SubSeqFull ==
    ASSUME NEW A, NEW s \in Seq(A) PROVE SubSeq(s, 1, Len(s)) = s
OBVIOUS

\* Sequences that agree everywhere are equal.
LEMMA SeqEqual ==
    ASSUME NEW A, NEW s \in Seq(A), NEW t \in Seq(A), Len(s) = Len(t),
           \A i \in 1 .. Len(s) : s[i] = t[i]
    PROVE  s = t
OBVIOUS

\* A subsequence of nothing.
LEMMA SubSeqEmpty ==
    ASSUME NEW s, NEW k \in Int, NEW l \in Int, l < k PROVE SubSeq(s, k, l) = <<>>
OBVIOUS

\* Two subsequences that meet.
LEMMA ConcatAdjacentSubSeq ==
    ASSUME NEW A, NEW s \in Seq(A),
           NEW k \in 1 .. Len(s) + 1, NEW l \in k - 1 .. Len(s), NEW m \in l .. Len(s)
    PROVE  SubSeq(s, k, l) \o SubSeq(s, l + 1, m) = SubSeq(s, k, m)
OBVIOUS

-----------------------------------------------------------------------------

USE DEF None

(***************************************************************************)
(* The operators the model is built from.                                  *)
(***************************************************************************)
\* uint64 subtraction and increment stay in range.
LEMMA Uint64Closed ==
    ASSUME NEW a \in Uint64, NEW b \in Uint64
    PROVE  Sub(a, b) \in Uint64 /\ Inc(a) \in Uint64
BY U64Assumption DEF Uint64, Sub, Inc

\* A map holds at most one frag with a given index, and at most one env of a
\* given block.
LEMMA OneFrag ==
    ASSUME NEW P, IsMap(P), P \subseteq OfType("frag"), NEW i,
           NEW C \in SUBSET P, \A m \in C : index(m) = i
    PROVE  \A x, y \in C : x = y
BY DEF IsMap, OfType, SameKey, index

LEMMA OneEnv ==
    ASSUME NEW P, IsMap(P), P \subseteq OfType("env"), NEW b,
           NEW C \in SUBSET P, \A m \in C : m.block = b
    PROVE  \A x, y \in C : x = y
BY DEF IsMap, OfType, SameKey

\* A part of a map is a map.
LEMMA SubMap ==
    ASSUME NEW P, IsMap(P), NEW Q \in SUBSET P
    PROVE  IsMap(Q)
BY DEF IsMap

\* Pruning only removes events.
LEMMA KeepSubset ==
    ASSUME NEW P, NEW n
    PROVE  Keep(P, n) \subseteq P
BY DEF Keep

\* Holding an event keeps a map of events of one type a map of such events.
LEMMA HoldMap ==
    ASSUME NEW t, NEW P, P \subseteq OfType(t), IsMap(P), NEW m \in OfType(t)
    PROVE  Hold(P, m) \subseteq OfType(t) /\ IsMap(Hold(P, m))
<1>1. CASE m.block >= lastBlockPruned
  <2>1. Hold(P, m) = {p \in P : ~SameKey(p, m)} \cup {m}
    BY <1>1 DEF Hold
  <2>2. \A p \in P : SameKey(m, p) => SameKey(p, m)
    BY DEF SameKey, OfType
  <2>. QED BY <2>1, <2>2 DEF IsMap, OfType
<1>2. CASE ~(m.block >= lastBlockPruned)
  BY <1>2 DEF Hold
<1>. QED BY <1>1, <1>2

\* The mark that pruning leaves is a block number.
LEMMA PruneMarkType ==
    ASSUME NEW n \in Uint64, lastBlockPruned \in Uint64
    PROVE  PruneMark(n) \in Uint64
<1>1. PruneSafeWindow \in Uint64
  BY U64Assumption DEF PruneSafeWindow, Uint64
<1>. QED BY <1>1, Uint64Closed DEF PruneMark

-----------------------------------------------------------------------------
(***************************************************************************)
(* Type correctness.                                                       *)
(***************************************************************************)
\* prune preserves the types of what it changes.
LEMMA PruneType ==
    ASSUME TypeOK, NEW n \in Uint64, prune(n)
    PROVE  /\ lastBlockPruned' \in Uint64
           /\ pendingEnvs' \subseteq OfType("env") /\ IsMap(pendingEnvs')
           /\ pendingFrags' \subseteq OfType("frag") /\ IsMap(pendingFrags')
           /\ pendingSeals' \subseteq OfType("seal") /\ IsMap(pendingSeals')
<1>1. lastBlockPruned' \in Uint64
  BY PruneMarkType DEF TypeOK, prune
<1>2. /\ pendingEnvs' \subseteq pendingEnvs
      /\ pendingFrags' \subseteq pendingFrags
      /\ pendingSeals' \subseteq pendingSeals
  BY KeepSubset DEF prune
<1>. QED BY <1>1, <1>2, SubMap DEF TypeOK

\* A call of putEnv, putFrag or putSeal preserves the types.
LEMMA PutType ==
    ASSUME TypeOK, NEW m \in Stream, put(m),
           UNCHANGED l2Prune, received' \subseteq Stream
    PROVE  TypeOK'
<1>. m.block \in Uint64 /\ (m.type = "frag" => m.seq \in Uint64 /\ m.last \in BOOLEAN)
  BY StreamAssumption DEF IsEvent
<1>e. CASE putEnv(m)
  <2>1. CASE EnvReady(m)
    <3>1. /\ lastBlockPruned' \in Uint64
          /\ lastEnvSent' \subseteq Uint64
          /\ sent' \subseteq Stream
      BY <1>e, <2>1, PruneMarkType DEF putEnv, TypeOK
    <3>2. /\ pendingEnvs' \subseteq pendingEnvs
          /\ pendingFrags' \subseteq pendingFrags
          /\ pendingSeals' \subseteq pendingSeals
          /\ call' \subseteq pendingFrags
      BY <1>e, <2>1, KeepSubset DEF putEnv
    <3>3. \A x, y \in call' : x = y
      <4>1. \A x \in call' : index(x) = <<m.block, 0>>
        BY <1>e, <2>1 DEF putEnv
      <4>. QED BY <3>2, <4>1, OneFrag, Zenon DEF TypeOK
    <3>4. /\ IsMap(pendingEnvs') /\ IsMap(pendingFrags') /\ IsMap(pendingSeals')
      BY <3>2, SubMap DEF TypeOK
    <3>. QED BY <1>e, <3>1, <3>2, <3>3, <3>4 DEF putEnv, put, TypeOK
  <2>2. CASE ~EnvReady(m)
    <3>1. m \in OfType("env")
      BY <1>e DEF putEnv, OfType
    <3>2. pendingEnvs' \subseteq OfType("env") /\ IsMap(pendingEnvs')
      BY <1>e, <2>2, <3>1, HoldMap DEF putEnv, TypeOK
    <3>. QED BY <1>e, <2>2, <3>2 DEF putEnv, put, TypeOK
  <2>. QED BY <2>1, <2>2
<1>f. CASE putFrag(m)
  <2>0. m \in OfType("frag") /\ m.seq \in Uint64
    BY <1>f DEF putFrag, OfType
  <2>1. CASE FragReady(m)
    <3>1. /\ lastFragSent' \subseteq Uint64 \X Uint64
          /\ lastBlockWithAllFrags' \subseteq Uint64
          /\ sent' \subseteq Stream
      BY <1>f, <2>0, <2>1 DEF putFrag, TypeOK, index
    <3>2. /\ pendingFrags' \subseteq pendingFrags
          /\ pendingSeals' \subseteq pendingSeals
          /\ call' \subseteq pendingFrags \/ call' \subseteq pendingSeals
      BY <1>f, <2>1 DEF putFrag
    <3>3. \A x, y \in call' : x = y
      <4>1. CASE m.last
        <5>1. call' \in SUBSET pendingSeals /\ \A s \in call' : s.block = m.block
          BY <1>f, <2>1, <4>1 DEF putFrag
        <5>2. IsMap(pendingSeals) /\ pendingSeals \subseteq OfType("seal")
          BY DEF TypeOK
        <5>. QED BY <5>1, <5>2 DEF IsMap, SameKey, OfType
      <4>2. CASE ~m.last
        <5>1. call' \in SUBSET pendingFrags /\ \A f \in call' : index(f) = next(index(m))
          BY <1>f, <2>1, <4>2 DEF putFrag
        <5>. QED BY <5>1, OneFrag, Zenon DEF TypeOK
      <4>. QED BY <4>1, <4>2
    <3>4. IsMap(pendingFrags') /\ IsMap(pendingSeals')
      BY <3>2, SubMap DEF TypeOK
    <3>. QED BY <1>f, <3>1, <3>2, <3>3, <3>4 DEF putFrag, put, TypeOK
  <2>2. CASE ~FragReady(m)
    <3>1. pendingFrags' \subseteq OfType("frag") /\ IsMap(pendingFrags')
      BY <1>f, <2>0, <2>2, HoldMap DEF putFrag, TypeOK
    <3>. QED BY <1>f, <2>2, <3>1 DEF putFrag, put, TypeOK
  <2>. QED BY <2>1, <2>2
<1>s. CASE putSeal(m)
  <2>0. m \in OfType("seal")
    BY <1>s DEF putSeal, OfType
  <2>1. CASE SealReady(m)
    <3>1. lastSealSent' \subseteq Uint64 /\ sent' \subseteq Stream
      BY <1>s, <2>1 DEF putSeal, TypeOK
    <3>2. pendingEnvs' \subseteq pendingEnvs /\ call' \subseteq pendingEnvs
      BY <1>s, <2>1 DEF putSeal
    <3>3. \A x, y \in call' : x = y
      <4>1. call' \in SUBSET pendingEnvs /\ \A e \in call' : e.block = Inc(m.block)
        BY <1>s, <2>1 DEF putSeal
      <4>2. IsMap(pendingEnvs) /\ pendingEnvs \subseteq OfType("env")
        BY DEF TypeOK
      <4>. QED BY <4>1, <4>2 DEF IsMap, SameKey, OfType
    <3>4. IsMap(pendingEnvs')
      BY <3>2, SubMap DEF TypeOK
    <3>. QED BY <1>s, <2>1, <3>1, <3>2, <3>3, <3>4 DEF putSeal, put, TypeOK
  <2>2. CASE ~SealReady(m)
    <3>1. pendingSeals' \subseteq OfType("seal") /\ IsMap(pendingSeals')
      BY <1>s, <2>0, <2>2, HoldMap DEF putSeal, TypeOK
    <3>. QED BY <1>s, <2>2, <3>1 DEF putSeal, put, TypeOK
  <2>. QED BY <2>1, <2>2
<1>. QED BY <1>e, <1>f, <1>s DEF put

\* The fields of PreconfState keep their types, a pending map holds one event for
\* each key, and a put* makes at most one tail call.
THEOREM TypeCorrect == Spec => []TypeOK
<1>1. Init => TypeOK
  BY U64Assumption DEF Init, TypeOK, IsMap, Uint64
<1>2. TypeOK /\ [Next]_vars => TypeOK'
  <2>. SUFFICES ASSUME TypeOK, [Next]_vars PROVE TypeOK'
    OBVIOUS
  <2>1. ASSUME NEW m \in Stream, preconfHandler(m) PROVE TypeOK'
    <3>0. received' \subseteq Stream
      BY <2>1 DEF preconfHandler, TypeOK
    <3>1. CASE put(m) /\ UNCHANGED l2Prune
      BY <3>0, <3>1, PutType
    <3>2. CASE putL2Block(m)
      <4>1. m.block \in Uint64
        BY StreamAssumption DEF IsEvent
      <4>2. call' \in SUBSET pendingEnvs /\ \A e \in call' : e.block = m.block
        BY <3>2 DEF putL2Block
      <4>3. \A x, y \in call' : x = y
        BY <4>2, OneEnv, Zenon DEF TypeOK
      <4>4. CASE call' # {}
        <5>1. pendingEnvs' \subseteq pendingEnvs
          BY <3>2, <4>4 DEF putL2Block
        <5>2. IsMap(pendingEnvs')
          BY <5>1, SubMap DEF TypeOK
        <5>. QED BY <3>0, <3>2, <4>1, <4>2, <4>3, <4>4, <5>1, <5>2 DEF putL2Block, TypeOK, last
      <4>5. CASE call' = {}
        <5>1. prune(m.block)
          BY <3>2, <4>5 DEF putL2Block
        <5>. QED BY <3>0, <3>2, <4>1, <4>5, <5>1, PruneType DEF putL2Block, TypeOK, last
      <4>. QED BY <4>4, <4>5
    <3>. QED BY <2>1, <3>1, <3>2 DEF preconfHandler
  <2>2. CASE TailCall
    <3>1. PICK m \in call : put(m)
      BY <2>2 DEF TailCall
    <3>2. m \in Stream
      BY DEF TypeOK, OfType
    <3>. QED BY <2>2, <3>1, <3>2, PutType DEF TailCall, TypeOK
  <2>3. CASE ReturnToL2Block
    <3>1. PICK n \in l2Prune : prune(n)
      BY <2>3 DEF ReturnToL2Block
    <3>. QED BY <2>3, <3>1, PruneType DEF ReturnToL2Block, TypeOK, last
  <2>4. CASE UNCHANGED vars
    BY <2>4 DEF vars, last, pending, TypeOK, IsMap, OfType
  <2>. QED BY <2>1, <2>2, <2>3, <2>4 DEF Next
<1>. QED BY <1>1, <1>2, PTL DEF Spec

-----------------------------------------------------------------------------
(***************************************************************************)
(* The order of the engine calls.  The property speaks of the set of the   *)
(* calls made; the code only remembers the last of each kind.  PrefixInv   *)
(* adds that what it remembers has really been sent.                       *)
(***************************************************************************)
PrefixInv ==
    /\ \A b \in lastEnvSent : EnvSent(b)
    /\ \A i \in lastFragSent : FragSent(i[1], i[2])
    /\ \A b \in lastBlockWithAllFrags : LastSent(b)
    /\ EngineSeesWholePrefixes

\* What has been sent stays sent.
LEMMA SentGrows ==
    ASSUME sent \subseteq sent'
    PROVE  /\ \A b : EnvSent(b) => EnvSent(b)'
           /\ \A b, i : FragSent(b, i) => FragSent(b, i)'
           /\ \A b : LastSent(b) => LastSent(b)'
BY DEF EnvSent, FragSent, LastSent

\* The prefix before a frag that putFrag finds ready has been sent.
LEMMA ReadyFragHasPrefix ==
    ASSUME TypeOK, PrefixInv, NEW m \in OfType("frag"), FragReady(m)
    PROVE  EnvSent(m.block) /\ \A i \in 0 .. m.seq - 1 : FragSent(m.block, i)
<1>. m.block \in Uint64 /\ m.seq \in Uint64
  BY StreamAssumption DEF IsEvent, OfType
<1>1. CASE m.seq = 0 /\ IsEqual(lastEnvSent, m.block)
  BY <1>1 DEF PrefixInv, IsEqual
<1>2. CASE IsEqual(lastFragSent, prev(index(m)))
  <2>1. FragSent(m.block, Sub(m.seq, 1))
    BY <1>2 DEF PrefixInv, IsEqual, prev, index
  <2>2. PICK f \in sent : f.type = "frag" /\ index(f) = <<m.block, Sub(m.seq, 1)>>
    BY <2>1 DEF FragSent
  <2>3. /\ EnvSent(m.block)
        /\ \A i \in 0 .. Sub(m.seq, 1) - 1 : FragSent(m.block, i)
    BY <2>2 DEF PrefixInv, EngineSeesWholePrefixes, index
  <2>4. CASE m.seq = 0
    BY <2>3, <2>4
  <2>5. CASE m.seq # 0
    <3>1. Sub(m.seq, 1) = m.seq - 1
      BY <2>5 DEF Sub, Uint64
    <3>2. \A i \in 0 .. m.seq - 1 : i = m.seq - 1 \/ i \in 0 .. Sub(m.seq, 1) - 1
      BY <3>1 DEF Uint64
    <3>. QED BY <2>1, <2>3, <3>1, <3>2
  <2>. QED BY <2>4, <2>5
<1>. QED BY <1>1, <1>2 DEF FragReady

\* A call of putEnv, putFrag or putSeal preserves the invariant.
LEMMA PutPrefix ==
    ASSUME TypeOK, PrefixInv, NEW m \in Stream, put(m)
    PROVE  PrefixInv'
<1>0. sent \subseteq sent' /\ sent' \subseteq sent \cup {m}
  BY DEF put, putEnv, putFrag, putSeal
<1>1. SUFFICES
        ASSUME m \in sent' \ sent
        PROVE  /\ m.type = "frag" => /\ EnvSent(m.block)'
                                     /\ \A i \in 0 .. m.seq - 1 : FragSent(m.block, i)'
               /\ m.type = "seal" => LastSent(m.block)'
  <2>1. \A b \in lastEnvSent' : EnvSent(b)'
    BY <1>0, SentGrows DEF put, putEnv, putFrag, putSeal, PrefixInv, EnvSent
  <2>2. \A i \in lastFragSent' : FragSent(i[1], i[2])'
    BY <1>0, SentGrows DEF put, putEnv, putFrag, putSeal, PrefixInv, FragSent, index
  <2>3. \A b \in lastBlockWithAllFrags' : LastSent(b)'
    BY <1>0, SentGrows DEF put, putEnv, putFrag, putSeal, PrefixInv, LastSent
  <2>4. \A x \in sent :
           /\ x.type = "frag" => /\ EnvSent(x.block)'
                                 /\ \A i \in 0 .. x.seq - 1 : FragSent(x.block, i)'
           /\ x.type = "seal" => LastSent(x.block)'
    BY <1>0, SentGrows DEF PrefixInv, EngineSeesWholePrefixes
  <2>. QED BY <1>0, <1>1, <2>1, <2>2, <2>3, <2>4 DEF PrefixInv, EngineSeesWholePrefixes
<1>2. CASE putEnv(m)
  BY <1>2 DEF putEnv
<1>3. CASE putFrag(m)
  <2>1. FragReady(m) /\ m \in OfType("frag")
    BY <1>1, <1>3 DEF putFrag, OfType
  <2>. QED BY <1>0, <1>3, <2>1, ReadyFragHasPrefix, SentGrows DEF putFrag
<1>4. CASE putSeal(m)
  <2>1. LastSent(m.block)
    BY <1>1, <1>4 DEF putSeal, SealReady, IsEqual, PrefixInv
  <2>. QED BY <1>0, <1>4, <2>1, SentGrows DEF putSeal
<1>. QED BY <1>2, <1>3, <1>4 DEF put

\* Whatever gossip does to the events, the engine never gets a frag before its
\* env and all lower frags, nor a seal before a complete run of frags.
THEOREM EngineOrder == Spec => []EngineSeesWholePrefixes
<1>1. Init => PrefixInv
  BY DEF Init, PrefixInv, EngineSeesWholePrefixes
<1>2. TypeOK /\ PrefixInv /\ [Next]_vars => PrefixInv'
  <2>. SUFFICES ASSUME TypeOK, PrefixInv, [Next]_vars PROVE PrefixInv'
    OBVIOUS
  <2>0. ASSUME UNCHANGED <<last, sent>> PROVE PrefixInv'
    BY <2>0 DEF last, PrefixInv, EngineSeesWholePrefixes, EnvSent, FragSent, LastSent
  <2>1. ASSUME NEW m \in Stream, preconfHandler(m) PROVE PrefixInv'
    BY <2>0, <2>1, PutPrefix DEF preconfHandler, putL2Block
  <2>2. CASE TailCall
    <3>1. PICK m \in call : put(m)
      BY <2>2 DEF TailCall
    <3>. QED BY <3>1, PutPrefix DEF TypeOK, OfType
  <2>3. CASE ReturnToL2Block
    BY <2>0, <2>3 DEF ReturnToL2Block
  <2>4. CASE UNCHANGED vars
    BY <2>0, <2>4 DEF vars
  <2>. QED BY <2>1, <2>2, <2>3, <2>4 DEF Next
<1>3. PrefixInv => EngineSeesWholePrefixes
  BY DEF PrefixInv
<1>. QED BY <1>1, <1>2, <1>3, TypeCorrect, PTL DEF Spec

-----------------------------------------------------------------------------
(***************************************************************************)
(* Events are held exactly until they are ready.  The property is          *)
(* inductive as it stands, given the types: what an engine call makes      *)
(* ready is what the code looks up next.                                   *)
(***************************************************************************)
\* next and prev are inverse.
LEMMA IncSub ==
    ASSUME NEW a \in Uint64, NEW b \in Uint64, Sub(a, 1) = b
    PROVE  a = Inc(b)
BY U64Assumption DEF Uint64, Sub, Inc

\* A call of putEnv, putFrag or putSeal preserves the property.
LEMMA PutHeld ==
    ASSUME WellNumbered, TypeOK, HeldExactlyUntilReady, NEW m \in Stream, put(m)
    PROVE  HeldExactlyUntilReady'
<1>. m.block \in Uint64 /\ (m.type = "frag" => m.seq \in Uint64 /\ m.last \in BOOLEAN)
  BY StreamAssumption DEF IsEvent
<1>. lastL2BlockSent' = lastL2BlockSent
  BY DEF put
<1>e. CASE putEnv(m)
  <2>0. /\ UNCHANGED <<lastFragSent, lastSealSent, lastBlockWithAllFrags>>
        /\ \A x : EnvReady(x)' = EnvReady(x) /\ SealReady(x)' = SealReady(x)
    BY <1>e, Zenon DEF putEnv, EnvReady, SealReady
  <2>1. CASE EnvReady(m)
    <3>1. /\ pendingEnvs' \subseteq pendingEnvs
          /\ pendingSeals' \subseteq pendingSeals
          /\ pendingFrags' \subseteq pendingFrags
          /\ lastEnvSent' = {m.block}
      BY <1>e, <2>1, KeepSubset DEF putEnv
    <3>2. \A f \in pendingFrags' : ~FragReady(f)'
      <4>1. \A f \in pendingFrags' : index(f) # <<m.block, 0>>
        BY <1>e, <2>1 DEF putEnv
      <4>2. \A f \in pendingFrags : ~FragReady(f)
        BY DEF HeldExactlyUntilReady, Ready, TypeOK, OfType
      <4>. QED BY <2>0, <3>1, <4>1, <4>2, Zenon DEF FragReady, index, IsEqual
    <3>3. \A f \in call' : f.type = "frag" /\ FragReady(f)'
      <4>1. \A f \in call' : f \in pendingFrags /\ index(f) = <<m.block, 0>>
        BY <1>e, <2>1, KeepSubset, Zenon DEF putEnv
      <4>. QED BY <3>1, <4>1 DEF FragReady, index, IsEqual, TypeOK, OfType
    <3>. QED BY <2>0, <3>1, <3>2, <3>3, Zenon DEF HeldExactlyUntilReady, Ready, TypeOK, OfType
  <2>2. CASE ~EnvReady(m)
    <3>1. /\ pendingEnvs' \subseteq pendingEnvs \cup {m}
          /\ UNCHANGED <<pendingFrags, pendingSeals, lastEnvSent>>
          /\ call' = {}
          /\ m.type = "env"
      BY <1>e, <2>2 DEF putEnv, Hold
    <3>2. \A x : Ready(x)' = Ready(x)
      BY <2>0, <3>1 DEF Ready, FragReady
    <3>. QED BY <2>2, <3>1, <3>2 DEF HeldExactlyUntilReady, Ready
  <2>. QED BY <2>1, <2>2, Zenon
<1>f. CASE putFrag(m)
  <2>0. /\ UNCHANGED <<lastEnvSent, lastSealSent, pendingEnvs>>
        /\ \A x : EnvReady(x)' = EnvReady(x)
        /\ m \in OfType("frag") /\ m.seq \in Uint64
    BY <1>f DEF putFrag, EnvReady, OfType
  <2>1. CASE FragReady(m)
    <3>1. /\ pendingFrags' \subseteq pendingFrags
          /\ pendingSeals' \subseteq pendingSeals
          /\ lastFragSent' = {index(m)}
      BY <1>f, <2>1, Zenon DEF putFrag
    <3>2. \A f \in pendingFrags : ~FragReady(f) /\ f.block \in Uint64 /\ f.seq \in Uint64
      BY StreamAssumption DEF IsEvent, HeldExactlyUntilReady, Ready, TypeOK, OfType
    <3>3. \A f \in pendingFrags : index(m) = prev(index(f)) => index(f) = next(index(m))
      BY <2>0, <3>2, IncSub DEF index, prev, next
    <3>4. CASE m.last
      <4>1. /\ pendingFrags' = pendingFrags
            /\ lastBlockWithAllFrags' = {m.block}
            /\ call' = {s \in pendingSeals : s.block = m.block}
            /\ pendingSeals' = pendingSeals \ call'
        BY <1>f, <2>1, <3>4 DEF putFrag
      <4>2. \A f \in pendingFrags : index(m) # prev(index(f))
        <5>1. \A f \in pendingFrags : f.block = m.block => f.seq <= m.seq /\ m.seq < U64 - 1
          BY <2>0, <3>4 DEF WellNumbered, TypeOK
        <5>2. \A f \in pendingFrags : f.block = m.block => f.seq # Inc(m.seq)
          BY <5>1, <3>2, <2>0, U64Assumption DEF Inc, Uint64
        <5>. QED BY <3>3, <5>2, Zenon DEF index, next
      <4>3. \A f \in pendingFrags : ~FragReady(f)'
        BY <2>0, <3>1, <3>2, <4>2 DEF FragReady, IsEqual
      <4>. QED BY <2>0, <4>1, <4>3, Zenon DEF HeldExactlyUntilReady, Ready, SealReady, IsEqual, TypeOK, OfType
    <3>5. CASE ~m.last
      <4>1. /\ UNCHANGED <<lastBlockWithAllFrags, pendingSeals>>
            /\ call' = {f \in pendingFrags : index(f) = next(index(m))}
            /\ pendingFrags' = pendingFrags \ call'
        BY <1>f, <2>1, <3>5 DEF putFrag
      <4>2. \A f \in pendingFrags' : ~FragReady(f)'
        BY <2>0, <3>1, <3>2, <3>3, <4>1 DEF FragReady, IsEqual
      <4>3. \A f \in call' : FragReady(f)'
        <5>1. m.seq < U64 - 1
          BY <2>0 DEF WellNumbered
        <5>2. prev(next(index(m))) = index(m)
          BY <2>0, <5>1, U64Assumption DEF index, prev, next, Inc, Sub, Uint64, OfType
        <5>. QED BY <3>1, <4>1, <5>2 DEF FragReady, IsEqual
      <4>4. \A x : SealReady(x)' = SealReady(x)
        BY <4>1 DEF SealReady
      <4>. QED BY <2>0, <4>1, <4>2, <4>3, <4>4, Zenon DEF HeldExactlyUntilReady, Ready, TypeOK, OfType
    <3>. QED BY <3>4, <3>5, Zenon
  <2>2. CASE ~FragReady(m)
    <3>1. /\ pendingFrags' \subseteq pendingFrags \cup {m}
          /\ UNCHANGED <<pendingSeals, lastFragSent, lastBlockWithAllFrags>>
          /\ call' = {}
      BY <1>f, <2>2 DEF putFrag, Hold
    <3>2. \A x : Ready(x)' = Ready(x)
      BY <2>0, <3>1, Zenon DEF Ready, FragReady, SealReady
    <3>. QED BY <2>0, <2>2, <3>1, <3>2, Zenon DEF HeldExactlyUntilReady, Ready, OfType
  <2>. QED BY <2>1, <2>2
<1>s. CASE putSeal(m)
  <2>0. /\ UNCHANGED <<lastEnvSent, lastFragSent, lastBlockWithAllFrags, pendingFrags>>
        /\ \A x : FragReady(x)' = FragReady(x) /\ SealReady(x)' = SealReady(x)
        /\ m.type = "seal"
    BY <1>s, Zenon DEF putSeal, FragReady, SealReady
  <2>1. CASE SealReady(m)
    <3>1. /\ lastSealSent' = {m.block}
          /\ call' = {e \in pendingEnvs : e.block = Inc(m.block)}
          /\ pendingEnvs' = pendingEnvs \ call'
          /\ UNCHANGED pendingSeals
      BY <1>s, <2>1, Zenon DEF putSeal
    <3>2. \A e \in pendingEnvs : ~EnvReady(e) /\ e.block \in Uint64 /\ e.type = "env"
      BY StreamAssumption, Zenon DEF IsEvent, HeldExactlyUntilReady, Ready, TypeOK, OfType
    <3>3. \A e \in pendingEnvs' : ~EnvReady(e)'
      BY <3>1, <3>2, IncSub DEF EnvReady, IsEqual, IsSet
    <3>4. \A e \in call' : EnvReady(e)'
      <4>1. Sub(Inc(m.block), 1) = m.block
        BY U64Assumption DEF Uint64, Sub, Inc
      <4>. QED BY <3>1, <4>1 DEF EnvReady, IsEqual
    <3>. QED BY <2>0, <3>1, <3>2, <3>3, <3>4, Zenon DEF HeldExactlyUntilReady, Ready, TypeOK, OfType
  <2>2. CASE ~SealReady(m)
    <3>1. /\ pendingSeals' \subseteq pendingSeals \cup {m}
          /\ UNCHANGED <<pendingEnvs, lastSealSent>>
          /\ call' = {}
      BY <1>s, <2>2 DEF putSeal, Hold
    <3>2. \A x : Ready(x)' = Ready(x)
      BY <2>0, <3>1 DEF Ready, EnvReady
    <3>. QED BY <2>0, <2>2, <3>1, <3>2 DEF HeldExactlyUntilReady, Ready
  <2>. QED BY <2>1, <2>2
<1>. QED BY <1>e, <1>f, <1>s DEF put

\* If frags are numbered up to the last one of their block, the buffer never
\* holds an event that it could forward, and what it releases is forwarded.
THEOREM HeldUntilReady == WellNumbered => (Spec => []HeldExactlyUntilReady)
<1>. SUFFICES ASSUME WellNumbered PROVE Spec => []HeldExactlyUntilReady
  OBVIOUS
<1>1. Init => HeldExactlyUntilReady
  BY DEF Init, HeldExactlyUntilReady
<1>2. TypeOK /\ HeldExactlyUntilReady /\ [Next]_vars => HeldExactlyUntilReady'
  <2>. SUFFICES ASSUME TypeOK, HeldExactlyUntilReady, [Next]_vars
                PROVE  HeldExactlyUntilReady'
    OBVIOUS
  <2>0. ASSUME UNCHANGED <<last, lastL2BlockSent>> PROVE \A x : Ready(x)' = Ready(x)
    BY <2>0 DEF last, Ready, EnvReady, FragReady, SealReady
  <2>1. ASSUME NEW m \in Stream, preconfHandler(m), putL2Block(m)
        PROVE  HeldExactlyUntilReady'
    <3>1. /\ call' = {e \in pendingEnvs : e.block = m.block}
          /\ pendingEnvs' \subseteq pendingEnvs \ call'
          /\ pendingFrags' \subseteq pendingFrags
          /\ pendingSeals' \subseteq pendingSeals
          /\ lastL2BlockSent' = {m.block}
          /\ UNCHANGED last
      BY <2>1, KeepSubset DEF putL2Block, prune
    <3>2. \A x : FragReady(x)' = FragReady(x) /\ SealReady(x)' = SealReady(x)
      BY <3>1 DEF last, FragReady, SealReady
    <3>3. \A e \in pendingEnvs' : ~EnvReady(e)'
      BY <3>1, Zenon DEF last, EnvReady, IsEqual, HeldExactlyUntilReady, Ready, TypeOK, OfType
    <3>4. \A e \in call' : EnvReady(e)'
      BY <3>1 DEF EnvReady, IsEqual
    <3>. QED BY <3>1, <3>2, <3>3, <3>4 DEF HeldExactlyUntilReady, Ready, TypeOK, OfType
  <2>2. ASSUME NEW m \in Stream, preconfHandler(m) PROVE HeldExactlyUntilReady'
    BY <2>1, <2>2, PutHeld DEF preconfHandler
  <2>3. CASE TailCall
    <3>1. PICK m \in call : put(m)
      BY <2>3 DEF TailCall
    <3>. QED BY <3>1, PutHeld DEF TypeOK, OfType
  <2>4. CASE ReturnToL2Block
    <3>1. /\ pendingEnvs' \subseteq pendingEnvs
          /\ pendingFrags' \subseteq pendingFrags
          /\ pendingSeals' \subseteq pendingSeals
          /\ UNCHANGED <<last, lastL2BlockSent, call>>
      BY <2>4, KeepSubset DEF ReturnToL2Block, prune
    <3>. QED BY <2>0, <3>1 DEF HeldExactlyUntilReady
  <2>5. CASE UNCHANGED vars
    BY <2>0, <2>5 DEF vars, pending, HeldExactlyUntilReady
  <2>. QED BY <2>2, <2>3, <2>4, <2>5 DEF Next
<1>. QED BY <1>1, <1>2, TypeCorrect, PTL DEF Spec

-----------------------------------------------------------------------------
(***************************************************************************)
(* What is dropped is outdated.  DropInv adds that the prune mark, below   *)
(* which events are refused, is itself a window below a block announced,   *)
(* and so is a prune that putL2Block still has to do.                      *)
(***************************************************************************)
DropInv ==
    /\ lastBlockPruned = 0 \/ \E n \in Announced : lastBlockPruned + PruneSafeWindow <= n
    /\ l2Prune \subseteq {n \in Announced : n >= PruneSafeWindow}
    /\ OnlyOutdatedEventsDropped

\* Past block 1 there is no wrap: pruning by n removes blocks below the window.
LEMMA PruneDrops ==
    ASSUME NEW n \in Uint64, n >= PruneSafeWindow, NEW P,
           NEW x \in P, x.block \in Uint64, x \notin Keep(P, n)
    PROVE  x.block + PruneSafeWindow < n
BY DEF Uint64, Keep, Sub, PruneSafeWindow

LEMMA PruneMarkBelow ==
    ASSUME NEW n \in Uint64, n >= PruneSafeWindow
    PROVE  PruneMark(n) = lastBlockPruned \/ PruneMark(n) + PruneSafeWindow = n
BY DEF Uint64, PruneMark, Sub, PruneSafeWindow

\* An event put into a map replaces one with its key at most.
LEMMA HoldKeeps ==
    ASSUME NEW P, NEW m, NEW x \in P, NEW r, SameKey(x, r)
    PROVE  \E y \in Hold(P, m) : SameKey(y, r)
<1>1. CASE SameKey(x, m) /\ m.block >= lastBlockPruned
  <2>1. SameKey(m, r)
    BY <1>1 DEF SameKey
  <2>. QED BY <1>1, <2>1 DEF Hold
<1>2. CASE ~(SameKey(x, m) /\ m.block >= lastBlockPruned)
  BY <1>2 DEF Hold
<1>. QED BY <1>1, <1>2

\* No announcement is forgotten.
LEMMA AnnouncedGrows ==
    ASSUME sent \subseteq sent', received \subseteq received'
    PROVE  Announced \subseteq Announced'
BY DEF Announced

\* What prune removes was outdated by a block announced.
LEMMA PruneKeeps ==
    ASSUME TypeOK, DropInv, NEW n \in Announced', n \in Uint64, n >= PruneSafeWindow, prune(n),
           Announced \subseteq Announced', sent \subseteq sent', call \subseteq call',
           NEW r \in Stream, Kept(r) \/ Outdated(r.block)
    PROVE  Kept(r)' \/ Outdated(r.block)'
<1>. USE DEF Outdated
<1>1. CASE Outdated(r.block)
  BY <1>1
<1>2. CASE Kept(r)
  <2>1. PICK x \in sent \cup call \cup pendingEnvs \cup pendingFrags \cup pendingSeals : SameKey(x, r)
    BY <1>2 DEF Kept
  <2>2. x.block = r.block /\ r.block \in Uint64
    BY <2>1, StreamAssumption DEF SameKey, IsEvent
  <2>3. CASE x \in sent \cup call
    BY <2>1, <2>3 DEF Kept
  <2>4. CASE x \in pendingEnvs
    BY <2>1, <2>2, <2>4, PruneDrops DEF Kept, prune
  <2>5. CASE x \in pendingFrags
    BY <2>1, <2>2, <2>5, PruneDrops DEF Kept, prune
  <2>6. CASE x \in pendingSeals
    BY <2>1, <2>2, <2>6, PruneDrops DEF Kept, prune
  <2>. QED BY <2>3, <2>4, <2>5, <2>6
<1>. QED BY <1>1, <1>2

\* An event refused for its age was outdated.
LEMMA RefusedIsOutdated ==
    ASSUME TypeOK, DropInv, NEW m \in Stream, ~(m.block >= lastBlockPruned)
    PROVE  Outdated(m.block)
<1>1. m.block \in Uint64 /\ lastBlockPruned \in Uint64
  BY StreamAssumption DEF IsEvent, TypeOK
<1>2. \A n \in Announced : n \in Uint64
  BY StreamAssumption DEF IsEvent, TypeOK, Announced
<1>. QED BY <1>1, <1>2 DEF DropInv, Outdated, Uint64, PruneSafeWindow

\* A call of putEnv, putFrag or putSeal loses no event that is not outdated.
LEMMA PutKeeps ==
    ASSUME PastGenesis, TypeOK, DropInv, NEW m \in Stream, put(m), \A x \in call : x = m,
           received \subseteq received',
           NEW r \in Stream, r = m \/ Kept(r) \/ Outdated(r.block)
    PROVE  Kept(r)' \/ Outdated(r.block)'
<1>0. sent \subseteq sent' /\ Announced \subseteq Announced'
  <2>1. sent \subseteq sent'
    BY DEF put, putEnv, putFrag, putSeal
  <2>. QED BY <2>1, AnnouncedGrows
<1>1. \A b : Outdated(b) => Outdated(b)'
  BY <1>0 DEF Outdated
<1>2. Kept(m)' \/ Outdated(m.block)'
  <2>0. SameKey(m, m)
    BY DEF SameKey
  <2>1. CASE m \in sent'
    BY <2>0, <2>1 DEF Kept
  <2>2. CASE m \notin sent'
    <3>1. CASE m.block >= lastBlockPruned
      <4>1. m \in pendingEnvs' \cup pendingFrags' \cup pendingSeals'
        BY <2>2, <3>1 DEF put, putEnv, putFrag, putSeal, Hold
      <4>. QED BY <2>0, <4>1, Zenon DEF Kept
    <3>2. CASE ~(m.block >= lastBlockPruned)
      BY <1>1, <3>2, RefusedIsOutdated
    <3>. QED BY <3>1, <3>2
  <2>. QED BY <2>1, <2>2
<1>3. ASSUME NEW x \in sent \cup call \cup pendingEnvs \cup pendingFrags \cup pendingSeals,
             SameKey(x, r)
      PROVE  Kept(r)' \/ Outdated(r.block)'
  <2>0. x.block = r.block /\ x.block \in Uint64
    BY <1>3, StreamAssumption DEF SameKey, IsEvent
  <2>1. CASE x \in sent
    BY <1>0, <1>3, <2>1 DEF Kept
  <2>2. CASE x \in call
    <3>1. x = m
      BY <2>2
    <3>2. ASSUME NEW y, SameKey(y, m) PROVE SameKey(y, r)
      BY <1>3, <3>1, <3>2 DEF SameKey
    <3>. QED BY <1>2, <2>0, <3>1, <3>2 DEF Kept
  <2>3. ASSUME putEnv(m), EnvReady(m), x \notin sent \cup call
        PROVE  Kept(r)' \/ Outdated(r.block)'
    <3>1. /\ m.block \in Uint64 /\ m.block >= PruneSafeWindow
          /\ m.block \in Announced'
      BY <2>3, StreamAssumption, Zenon DEF putEnv, PastGenesis, IsEvent, Announced
    <3>2. /\ pendingEnvs' = Keep(pendingEnvs, m.block)
          /\ pendingSeals' = Keep(pendingSeals, m.block)
          /\ pendingFrags' \cup call' = Keep(pendingFrags, m.block)
      BY <2>3 DEF putEnv
    <3>3. CASE x \in pendingEnvs' \cup pendingFrags' \cup pendingSeals' \cup call'
      BY <1>3, <3>3 DEF Kept
    <3>4. CASE x \notin pendingEnvs' \cup pendingFrags' \cup pendingSeals' \cup call'
      <4>1. r.block + PruneSafeWindow < m.block
        BY <2>0, <2>3, <3>1, <3>2, <3>4, PruneDrops
      <4>. QED BY <3>1, <4>1 DEF Outdated
    <3>. QED BY <3>3, <3>4, Zenon
  <2>4. ASSUME ~(putEnv(m) /\ EnvReady(m)), x \in pendingEnvs
        PROVE  Kept(r)'
    <3>1. CASE putEnv(m)
      <4>1. pendingEnvs' = Hold(pendingEnvs, m)
        BY <2>4, <3>1 DEF putEnv
      <4>. QED BY <1>3, <2>4, <4>1, HoldKeeps DEF Kept
    <3>2. CASE putFrag(m) \/ putSeal(m)
      <4>1. pendingEnvs \subseteq pendingEnvs' \cup call'
        BY <3>2 DEF putFrag, putSeal
      <4>. QED BY <1>3, <2>4, <4>1 DEF Kept
    <3>. QED BY <3>1, <3>2 DEF put
  <2>5. ASSUME ~(putEnv(m) /\ EnvReady(m)), x \in pendingFrags
        PROVE  Kept(r)'
    <3>1. CASE putFrag(m) /\ ~FragReady(m)
      <4>1. pendingFrags' = Hold(pendingFrags, m)
        BY <3>1 DEF putFrag
      <4>. QED BY <1>3, <2>5, <4>1, HoldKeeps DEF Kept
    <3>2. CASE ~(putFrag(m) /\ ~FragReady(m))
      <4>1. pendingFrags \subseteq pendingFrags' \cup call'
        BY <2>5, <3>2, Zenon DEF put, putEnv, putFrag, putSeal
      <4>. QED BY <1>3, <2>5, <4>1 DEF Kept
    <3>. QED BY <3>1, <3>2
  <2>6. ASSUME ~(putEnv(m) /\ EnvReady(m)), x \in pendingSeals
        PROVE  Kept(r)'
    <3>1. CASE putSeal(m) /\ ~SealReady(m)
      <4>1. pendingSeals' = Hold(pendingSeals, m)
        BY <3>1 DEF putSeal
      <4>. QED BY <1>3, <2>6, <4>1, HoldKeeps DEF Kept
    <3>2. CASE ~(putSeal(m) /\ ~SealReady(m))
      <4>1. pendingSeals \subseteq pendingSeals' \cup call'
        BY <2>6, <3>2, Zenon DEF put, putEnv, putFrag, putSeal
      <4>. QED BY <1>3, <2>6, <4>1 DEF Kept
    <3>. QED BY <3>1, <3>2
  <2>. QED BY <2>1, <2>2, <2>3, <2>4, <2>5, <2>6
<1>. QED BY <1>1, <1>2, <1>3 DEF Kept

\* Past block 1, the buffer loses no event but those of blocks more than the
\* window below a block it has announced to the engine or learned to be safe.
THEOREM DropsOnlyOutdated == PastGenesis => (Spec => []OnlyOutdatedEventsDropped)
<1>. SUFFICES ASSUME PastGenesis PROVE Spec => []OnlyOutdatedEventsDropped
  OBVIOUS
<1>1. Init => DropInv
  BY DEF Init, DropInv, OnlyOutdatedEventsDropped
<1>2. TypeOK /\ DropInv /\ [Next]_vars => DropInv'
  <2>. SUFFICES ASSUME TypeOK, DropInv, [Next]_vars PROVE DropInv'
    OBVIOUS
  <2>a. \A n \in Announced : n \in Uint64
    BY StreamAssumption DEF IsEvent, TypeOK, Announced
  <2>m. ASSUME NEW n \in Announced', n \in Uint64, n >= PruneSafeWindow,
               Announced \subseteq Announced', lastBlockPruned' = PruneMark(n)
        PROVE  lastBlockPruned' = 0
               \/ \E k \in Announced' : lastBlockPruned' + PruneSafeWindow <= k
    BY <2>m, PruneMarkBelow DEF DropInv, Uint64
  <2>p. ASSUME NEW m \in Stream, put(m), \A x \in call : x = m, UNCHANGED l2Prune,
               received \subseteq received', received' \subseteq received \cup {m}
        PROVE  DropInv'
    <3>0. Announced \subseteq Announced'
      <4>1. sent \subseteq sent'
        BY <2>p, Zenon DEF put, putEnv, putFrag, putSeal
      <4>. QED BY <2>p, <4>1, AnnouncedGrows
    <3>1. lastBlockPruned' = 0
          \/ \E k \in Announced' : lastBlockPruned' + PruneSafeWindow <= k
      <4>1. CASE putEnv(m) /\ EnvReady(m)
        <5>1. /\ m.block \in Announced' /\ m.block \in Uint64 /\ m.block >= PruneSafeWindow
              /\ lastBlockPruned' = PruneMark(m.block)
          BY <4>1, StreamAssumption, Zenon DEF putEnv, PastGenesis, IsEvent, Announced
        <5>. QED BY <2>m, <3>0, <5>1
      <4>2. CASE ~(putEnv(m) /\ EnvReady(m))
        <5>1. UNCHANGED lastBlockPruned
          BY <2>p, <4>2, Zenon DEF put, putEnv, putFrag, putSeal
        <5>. QED BY <3>0, <5>1 DEF DropInv
      <4>. QED BY <4>1, <4>2
    <3>2. OnlyOutdatedEventsDropped'
      <4>. SUFFICES ASSUME NEW r \in received', r.type # "l2"
                    PROVE  Kept(r)' \/ Outdated(r.block)'
        BY DEF OnlyOutdatedEventsDropped
      <4>1. r \in Stream /\ (r = m \/ Kept(r) \/ Outdated(r.block))
        BY <2>p DEF DropInv, OnlyOutdatedEventsDropped, TypeOK
      <4>. QED BY <2>p, <4>1, PutKeeps
    <3>. QED BY <2>p, <3>0, <3>1, <3>2 DEF DropInv
  <2>1. ASSUME NEW m \in Stream, preconfHandler(m), putL2Block(m) PROVE DropInv'
    <3>0. /\ Announced \subseteq Announced'
          /\ m.block \in Announced' /\ m.block \in Uint64 /\ m.block >= PruneSafeWindow
          /\ UNCHANGED sent /\ received' = received \cup {m} /\ m.type = "l2"
          /\ call = {} /\ l2Prune = {}
      BY <2>1, StreamAssumption, Zenon DEF preconfHandler, putL2Block, PastGenesis, IsEvent, Announced
    <3>1. CASE call' # {}
      <4>1. /\ pendingEnvs \subseteq pendingEnvs' \cup call'
            /\ UNCHANGED <<pendingFrags, pendingSeals, lastBlockPruned>>
            /\ l2Prune' = {m.block}
        BY <2>1, <3>1 DEF putL2Block
      <4>2. \A r : Kept(r) => Kept(r)'
        BY <3>0, <4>1 DEF Kept
      <4>3. \A b : Outdated(b) => Outdated(b)'
        BY <3>0 DEF Outdated
      <4>. QED BY <3>0, <4>1, <4>2, <4>3 DEF DropInv, OnlyOutdatedEventsDropped
    <3>2. CASE call' = {}
      <4>1. prune(m.block) /\ UNCHANGED l2Prune
        BY <2>1, <3>2 DEF putL2Block
      <4>2. \A r \in Stream : Kept(r) \/ Outdated(r.block) => Kept(r)' \/ Outdated(r.block)'
        BY <3>0, <4>1, PruneKeeps
      <4>3. OnlyOutdatedEventsDropped'
        BY <3>0, <4>2 DEF DropInv, OnlyOutdatedEventsDropped, TypeOK
      <4>4. lastBlockPruned' = 0
            \/ \E k \in Announced' : lastBlockPruned' + PruneSafeWindow <= k
        BY <2>m, <3>0, <4>1 DEF prune
      <4>. QED BY <3>0, <4>1, <4>3, <4>4 DEF DropInv
    <3>. QED BY <3>1, <3>2
  <2>2. ASSUME NEW m \in Stream, preconfHandler(m) PROVE DropInv'
    BY <2>1, <2>2, <2>p DEF preconfHandler
  <2>3. CASE TailCall
    <3>1. PICK m \in call : put(m)
      BY <2>3 DEF TailCall
    <3>2. m \in Stream /\ \A x \in call : x = m
      BY DEF TypeOK, OfType
    <3>. QED BY <2>3, <2>p, <3>1, <3>2 DEF TailCall
  <2>4. CASE ReturnToL2Block
    <3>1. PICK n \in l2Prune : prune(n)
      BY <2>4 DEF ReturnToL2Block
    <3>2. UNCHANGED <<sent, received, call>> /\ l2Prune' = {}
      BY <2>4 DEF ReturnToL2Block
    <3>3. Announced' = Announced
      BY <3>2 DEF Announced
    <3>4. n \in Announced' /\ n \in Uint64 /\ n >= PruneSafeWindow
      BY <2>a, <3>3 DEF DropInv
    <3>5. \A r \in Stream : Kept(r) \/ Outdated(r.block) => Kept(r)' \/ Outdated(r.block)'
      BY <3>1, <3>2, <3>3, <3>4, PruneKeeps
    <3>6. OnlyOutdatedEventsDropped'
      BY <3>2, <3>5 DEF DropInv, OnlyOutdatedEventsDropped, TypeOK
    <3>7. lastBlockPruned' = 0
          \/ \E k \in Announced' : lastBlockPruned' + PruneSafeWindow <= k
      BY <2>m, <3>1, <3>3, <3>4, Zenon DEF prune
    <3>. QED BY <3>2, <3>6, <3>7 DEF DropInv
  <2>5. CASE UNCHANGED vars
    BY <2>5, Zenon DEF vars, last, pending, DropInv, OnlyOutdatedEventsDropped, Kept, Outdated, Announced
  <2>. QED BY <2>2, <2>3, <2>4, <2>5 DEF Next
<1>3. DropInv => OnlyOutdatedEventsDropped
  BY DEF DropInv
<1>. QED BY <1>1, <1>2, <1>3, TypeCorrect, PTL DEF Spec

-----------------------------------------------------------------------------
(***************************************************************************)
(* What the engine is given, and what it serves.                           *)
(***************************************************************************)
HIDE DEF None

\* A prefix and the run after it make a longer prefix.
LEMMA LongerPrefix ==
    ASSUME NEW S, NEW s \in Seq(S), NEW a \in Nat, NEW b \in a .. Len(s)
    PROVE  /\ SubSeq(s, 1, a) \o SubSeq(s, a + 1, b) = SubSeq(s, 1, b)
           /\ b \in 0 .. Len(s)
<1>1. Len(s) \in Nat
  BY LenProperties
<1>2. 1 \in 1 .. Len(s) + 1 /\ a \in 1 - 1 .. Len(s) /\ b \in 0 .. Len(s)
  BY <1>1
<1>. QED BY <1>2, ConcatAdjacentSubSeq

\* A prefix is one, and a block is its last element after its parent.
LEMMA PrefixOf ==
    ASSUME NEW S, NEW s \in Seq(S), NEW a \in 0 .. Len(s)
    PROVE  IsPrefixOf(SubSeq(s, 1, a), s)
<1>1. Len(s) \in Nat
  BY LenProperties
<1>2. Len(SubSeq(s, 1, a)) = a
  BY <1>1
<1>. QED BY <1>1, <1>2 DEF IsPrefixOf

LEMMA ParentThenLast ==
    ASSUME NEW S, NEW n \in Nat, NEW h \in Seq(S), Len(h) = n + 1
    PROVE  Append(SubSeq(h, 1, n), h[n + 1]) = h
<1>1. \A i \in 1 .. n + 1 : h[i] \in S
  BY LenProperties
<1>. DEFINE p == SubSeq(h, 1, n)
            q == Append(p, h[n + 1])
<1>2. p \in Seq(S) /\ Len(p) = n /\ \A i \in 1 .. n : p[i] = h[i]
  BY <1>1
<1>. HIDE DEF p
<1>3. q \in Seq(S) /\ Len(q) = n + 1
  BY <1>1, <1>2, AppendProperties
<1>4. \A i \in 1 .. n + 1 : q[i] = h[i]
  BY <1>1, <1>2, AppendProperties
<1>. HIDE DEF q
<1>5. q = h
  BY <1>3, <1>4, SeqEqual
<1>. QED BY <1>5 DEF p, q

-----------------------------------------------------------------------------
(***************************************************************************)
(* The parts of the composition keep their own specifications.             *)
(***************************************************************************)
\* The buffer's half of a step is a step of the buffer, so that what is proved of
\* PreconfState holds in the composition.
LEMMA BufferTypes == FollowerSpec => []TypeOK
<1>1. FollowerInit => Init
  BY DEF FollowerInit
<1>2. [FollowerNext]_followerVars => [Next]_vars
  BY DEF FollowerNext, followerVars, Next, Handle, HandleTailCall, HandleReturn,
         DriverNewPayload, DriverForkchoice
<1>3. FollowerSpec => Spec
  BY <1>1, <1>2, PTL DEF FollowerSpec, Spec
<1>. QED BY <1>3, TypeCorrect

\* What the engine may be asked to do in a step.
EngineStep ==
    \/ \E m \in Stream : Geth!EnvV0(m) \/ Geth!NewFragV0(m) \/ Geth!SealFragV0(m)
    \/ \E h \in Payload : Geth!newPayload(h) \/ Geth!forkchoiceUpdated(h)
    \/ UNCHANGED gethVars

\* The engine is only ever called with events of the stream.
LEMMA EngineHalf == TypeOK /\ [FollowerNext]_followerVars => EngineStep
<1>. SUFFICES ASSUME TypeOK, [FollowerNext]_followerVars PROVE EngineStep
  OBVIOUS
<1>1. ASSUME NEW m \in Stream, EngineCall(m) PROVE EngineStep
  BY <1>1 DEF EngineCall, EngineStep
<1>2. ASSUME NEW m \in Stream, Handle(m) PROVE EngineStep
  BY <1>1, <1>2 DEF Handle
<1>3. ASSUME HandleTailCall PROVE EngineStep
  <2>1. PICK m \in call : EngineCall(m)
    BY <1>3 DEF HandleTailCall
  <2>2. m \in Stream
    BY <2>1 DEF TypeOK, OfType
  <2>. QED BY <1>1, <2>1, <2>2
<1>4. ASSUME HandleReturn PROVE EngineStep
  BY <1>4 DEF HandleReturn, EngineStep
<1>5. ASSUME NEW h \in Payload, DriverNewPayload(h) \/ DriverForkchoice(h) PROVE EngineStep
  BY <1>5 DEF DriverNewPayload, DriverForkchoice, EngineStep
<1>6. ASSUME UNCHANGED followerVars PROVE EngineStep
  BY <1>6, Zenon DEF followerVars, EngineStep
<1>. QED BY <1>2, <1>3, <1>4, <1>5, <1>6 DEF FollowerNext

-----------------------------------------------------------------------------
(***************************************************************************)
(* The open block and its state.                                           *)
(***************************************************************************)
Opened == [env : {m \in Stream : m.type = "env"},
           frags : Seq({m \in Stream : m.type = "frag"}),
           lastSequenceNumber : SUBSET Nat]

\* The frags 0 .. k - 1 of the open block have been executed, and are the first
\* cut[n][k] transactions of the gateway's block.
Serves(tip, cut, ub, st) ==
    LET n == ub.env.block
        k == Len(ub.frags)
    IN  /\ ub \in Opened
        /\ ub.lastSequenceNumber = IF k = 0 THEN {} ELSE {k - 1}
        /\ k > 0 => ub.frags[k].seq = k - 1
        /\ st = [parent |-> st.parent, txs |-> st.txs]
        /\ st.parent = ub.env.parent
        /\ cut[n][k] \in 0 .. Len(TxsIn(tip[n]))
        /\ st.txs = SubSeq(TxsIn(tip[n]), 1, cut[n][k])

ServeInv(tip, cut) ==
    /\ \A a, b \in unsealed : a = b
    /\ \A ub \in unsealed, st \in unsealedState : Serves(tip, cut, ub, st)
    /\ OnlyGatewayBlocks

\* The block that an event is of.
LEMMA BlockOf ==
    ASSUME NEW tip, NEW cut, IsStreamOf(tip, cut),
           NEW m \in Stream, m.type \in {"env", "frag"}
    PROVE  LET h == tip[m.block]
           IN  /\ h \in GatewayTips /\ h \in Seq(Geth!Content)
               /\ m.block \in Nat \ {0} /\ Len(h) = m.block
               /\ h[m.block] \in Geth!Content
               /\ TxsIn(h) \in Seq(Tx) /\ Len(TxsIn(h)) \in Nat
<1>. DEFINE h == tip[m.block]
<1>1. /\ h \in GatewayTips /\ h \in Seq(Geth!Content)
      /\ m.block \in Nat \ {0} /\ Len(h) = m.block
  BY DEF IsStreamOf, Geth!Hash
<1>. HIDE DEF h
<1>2. m.block \in 1 .. Len(h)
  BY <1>1
<1>3. h[m.block] \in Geth!Content
  BY <1>1, <1>2, ElementOfSeq
<1>4. TxsIn(h) \in Seq(Tx)
  BY <1>1, <1>3 DEF TxsIn, Geth!Content
<1>. QED BY <1>1, <1>3, <1>4, LenProperties, Zenon DEF h

\* EnvV0 opens an empty block, or none.
LEMMA EnvServes ==
    ASSUME NEW tip, NEW cut, IsStreamOf(tip, cut), ServeInv(tip, cut),
           NEW m \in Stream, Geth!EnvV0(m)
    PROVE  ServeInv(tip, cut)'
<1>0. m.type = "env" /\ UNCHANGED <<blocks, head>>
  BY DEF Geth!EnvV0, Geth!chain
<1>1. OnlyGatewayBlocks'
  BY <1>0 DEF ServeInv, OnlyGatewayBlocks
<1>2. CASE Geth!ResetCurrentUnsealedBlock
  BY <1>1, <1>2 DEF Geth!ResetCurrentUnsealedBlock, ServeInv
<1>3. CASE Geth!SetCurrentUnsealedBlock(m)
  <2>. DEFINE ub == [env |-> m, frags |-> <<>>, lastSequenceNumber |-> {}]
              st == [parent |-> m.parent, txs |-> <<>>]
              b  == TxsIn(tip[m.block])
  <2>1. unsealed' = {ub} /\ unsealedState' = {st}
    BY <1>3 DEF Geth!SetCurrentUnsealedBlock
  <2>2. b \in Seq(Tx) /\ Len(b) \in Nat
    BY <1>0, BlockOf, Zenon
  <2>3. cut[m.block][0] = 0
    BY <1>0, Zenon DEF IsStreamOf
  <2>4. SubSeq(b, 1, 0) = <<>>
    BY SubSeqEmpty
  <2>5. ub \in Opened
    BY <1>0, EmptySeq, Zenon DEF Opened
  <2>6. Serves(tip, cut, ub, st)
    <3>1. /\ ub.env.block = m.block /\ Len(ub.frags) = 0 /\ ub.lastSequenceNumber = {}
          /\ st.parent = ub.env.parent /\ st = [parent |-> st.parent, txs |-> st.txs]
      BY EmptySeq, Zenon
    <3>2. st.txs = SubSeq(b, 1, cut[m.block][0]) /\ cut[m.block][0] \in 0 .. Len(b)
      BY <2>2, <2>3, <2>4
    <3>. HIDE DEF ub, st
    <3>. QED BY <2>5, <3>1, <3>2 DEF Serves
  <2>. HIDE DEF ub, st, b
  <2>. QED BY <1>1, <2>1, <2>6 DEF ServeInv
<1>. QED BY <1>2, <1>3 DEF Geth!EnvV0

\* A frag that IsNextFrag accepts is the one numbered after those of the block.
LEMMA AcceptedIsNext ==
    ASSUME NEW tip, NEW cut, NEW ub, NEW st, Serves(tip, cut, ub, st),
           NEW f \in Stream, f.seq \in Nat, Geth!IsNextFrag(ub, f)
    PROVE  f.seq = Len(ub.frags)
<1>1. Len(ub.frags) \in Nat
  BY LenProperties DEF Serves, Opened
<1>2. CASE ub.lastSequenceNumber = {} /\ f.seq = 0
  BY ZenonT(60), <1>1, <1>2 DEF Serves
<1>3. CASE \E n \in ub.lastSequenceNumber :
             LET lastKnownFrag == ub.frags[n + 1]
             IN  ~lastKnownFrag.last /\ lastKnownFrag.seq + 1 = f.seq
  <2>1. PICK n \in ub.lastSequenceNumber : ub.frags[n + 1].seq + 1 = f.seq
    BY <1>3
  <2>2. Len(ub.frags) > 0 /\ n = Len(ub.frags) - 1
    BY <1>1, <2>1 DEF Serves
  <2>3. n + 1 = Len(ub.frags)
    BY <1>1, <2>2
  <2>4. ub.frags[n + 1].seq = Len(ub.frags) - 1
    BY <2>2, <2>3, Zenon DEF Serves
  <2>. QED BY <1>1, <2>1, <2>4
<1>. QED BY <1>2, <1>3 DEF Geth!IsNextFrag

\* What is served with one frag more; the last one completes the gateway's block.
Extended(tip, cut, ub, st, f) ==
    /\ Serves(tip, cut, Geth!AddFrag(ub, f), Geth!ExecuteFrag(st, f))
    /\ f.last => Geth!SealedHash(ub, Geth!ExecuteFrag(st, f)) = tip[f.block]

\* Adding such a frag of the open block, and executing it.
LEMMA FragServes ==
    ASSUME NEW tip, NEW cut, IsStreamOf(tip, cut), NEW ub, NEW st, Serves(tip, cut, ub, st),
           NEW f \in Stream, f.type = "frag", f.block = ub.env.block, Geth!IsNextFrag(ub, f)
    PROVE  Extended(tip, cut, ub, st, f)
<1>. DEFINE n == f.block
            h == tip[n]
            b == TxsIn(h)
            k == Len(ub.frags)
            c == cut[n]
            u == Geth!AddFrag(ub, f)
            t == Geth!ExecuteFrag(st, f)
<1>1. /\ f.seq \in Nat /\ f.last \in BOOLEAN /\ c[f.seq] \in Nat
      /\ c[f.seq + 1] \in c[f.seq] .. Len(b)
      /\ f.txs = SubSeq(b, c[f.seq] + 1, c[f.seq + 1])
      /\ f.last => c[f.seq + 1] = Len(b)
  BY ZenonT(60) DEF IsStreamOf
<1>2. f.seq = k
  BY ZenonT(60), <1>1, AcceptedIsNext
<1>3. /\ h \in Seq(Geth!Content) /\ n \in Nat \ {0} /\ Len(h) = n
      /\ h[n] \in Geth!Content /\ b \in Seq(Tx) /\ Len(b) \in Nat
  BY BlockOf, Zenon
<1>4. /\ ub \in Opened /\ ub.frags \in Seq({m \in Stream : m.type = "frag"})
      /\ ub.env \in Stream /\ ub.env.type = "env" /\ k \in Nat
  BY LenProperties, Zenon DEF Serves, Opened
<1>5. /\ st = [parent |-> st.parent, txs |-> st.txs] /\ st.parent = ub.env.parent
      /\ st.txs = SubSeq(b, 1, c[k])
  BY Zenon DEF Serves
<1>6. u = [env |-> ub.env, frags |-> Append(ub.frags, f), lastSequenceNumber |-> {f.seq}]
  <2>1. ub = [env |-> ub.env, frags |-> ub.frags, lastSequenceNumber |-> ub.lastSequenceNumber]
    BY <1>4 DEF Opened
  <2>2. u = [ub EXCEPT !.frags = Append(ub.frags, f), !.lastSequenceNumber = {f.seq}]
    BY DEF Geth!AddFrag
  <2>. HIDE DEF u
  <2>. QED BY <2>1, <2>2, Zenon
<1>7. t = [parent |-> st.parent, txs |-> st.txs \o f.txs]
  <2>1. t = [st EXCEPT !.txs = st.txs \o f.txs]
    BY DEF Geth!ExecuteFrag
  <2>. HIDE DEF t
  <2>. QED BY <2>1, <1>5, Zenon
<1>8. st.txs \o f.txs = SubSeq(b, 1, c[k + 1]) /\ c[k + 1] \in 0 .. Len(b)
  <2>1. /\ c[k] \in Nat /\ c[k + 1] \in c[k] .. Len(b)
        /\ f.txs = SubSeq(b, c[k] + 1, c[k + 1])
    BY <1>1, <1>2, Zenon
  <2>. HIDE DEF b, c, k
  <2>2. /\ SubSeq(b, 1, c[k]) \o SubSeq(b, c[k] + 1, c[k + 1]) = SubSeq(b, 1, c[k + 1])
        /\ c[k + 1] \in 0 .. Len(b)
    BY <2>1, <1>3, LongerPrefix, Zenon
  <2>. QED BY ZenonT(60), <2>1, <2>2, <1>5
<1>9. Serves(tip, cut, u, t)
  <2>1. /\ Append(ub.frags, f) \in Seq({m \in Stream : m.type = "frag"})
        /\ Len(Append(ub.frags, f)) = k + 1 /\ Append(ub.frags, f)[k + 1] = f
    BY <1>4, AppendProperties
  <2>2. u \in Opened
    <3>1. ub.env \in {m \in Stream : m.type = "env"} /\ {f.seq} \in SUBSET Nat
      BY ZenonT(60), <1>1, <1>4
    <3>. HIDE DEF u
    <3>. QED BY <1>6, <2>1, <3>1, Zenon DEF Opened
  <2>. HIDE DEF u, t
  <2>3. /\ u.env = ub.env /\ u.frags = Append(ub.frags, f) /\ u.lastSequenceNumber = {f.seq}
    BY <1>6, Zenon
  <2>4. /\ t = [parent |-> t.parent, txs |-> t.txs] /\ t.parent = st.parent
        /\ t.txs = SubSeq(b, 1, c[k + 1])
    <3>. HIDE DEF b, c, k
    <3>. QED BY <1>7, <1>8, Zenon
  <2>5. c[k + 1] \in 0 .. Len(b)
    BY <1>8, Zenon
  <2>6. Len(u.frags) = k + 1 /\ u.frags[k + 1] = f
    BY <2>1, <2>3, Zenon
  <2>7. cut[u.env.block][Len(u.frags)] = c[k + 1] /\ TxsIn(tip[u.env.block]) = b
    BY <2>3, <2>6, Zenon
  <2>. HIDE DEF b, c, h, k
  <2>8. Len(u.frags) # 0 /\ Len(u.frags) - 1 = k
    BY <1>4, <2>6
  <2>9. /\ u.lastSequenceNumber = IF Len(u.frags) = 0 THEN {} ELSE {Len(u.frags) - 1}
        /\ u.frags[Len(u.frags)].seq = Len(u.frags) - 1
    BY <1>2, <2>3, <2>6, <2>8, Zenon
  <2>10. t.parent = u.env.parent
    BY <1>5, <2>3, <2>4
  <2>. QED BY <2>2, <2>4, <2>5, <2>7, <2>9, <2>10, Zenon DEF Serves
<1>10. ASSUME f.last PROVE Geth!SealedHash(ub, t) = h
  <2>1. t.txs = b
    <3>1. c[k + 1] = Len(b)
      BY <1>1, <1>2, <1>10, Zenon
    <3>2. SubSeq(b, 1, Len(b)) = b
      BY <1>3, SubSeqFull, Zenon
    <3>. HIDE DEF t, b, c, k
    <3>3. t.txs = st.txs \o f.txs
      BY <1>7, Zenon
    <3>. QED BY <1>8, <3>1, <3>2, <3>3, Zenon
  <2>2. ub.env.parent = SubSeq(h, 1, n - 1) /\ ub.env.time = h[n].time
    BY ZenonT(60), <1>3, <1>4 DEF IsStreamOf, Geth!Parent, Geth!Time
  <2>3. h[n] = [time |-> h[n].time, txs |-> b]
    BY <1>3, Zenon DEF Geth!Content, TxsIn
  <2>4. n - 1 \in Nat /\ Len(h) = (n - 1) + 1 /\ (n - 1) + 1 = n
    <3>1. n \in Nat \ {0} /\ Len(h) = n
      BY <1>3, Zenon
    <3>. HIDE DEF n, h
    <3>. QED BY <3>1
  <2>. HIDE DEF t, b, c, h, k
  <2>5. Append(SubSeq(h, 1, n - 1), h[n]) = h
    BY ZenonT(60), <1>3, <2>4, ParentThenLast
  <2>6. Geth!SealedHash(ub, t) = Append(SubSeq(h, 1, n - 1), [time |-> h[n].time, txs |-> b])
    BY <2>1, <2>2, Zenon DEF Geth!SealedHash
  <2>. QED BY <2>3, <2>5, <2>6, Zenon
<1>. QED BY <1>9, <1>10, Zenon DEF Extended

\* NewFragV0 adds a frag to what is served, or nothing is served any more; the
\* block it writes at the last frag is the gateway's.
LEMMA NewFragServes ==
    ASSUME NEW tip, NEW cut, IsStreamOf(tip, cut), ServeInv(tip, cut),
           NEW f \in Stream, Geth!NewFragV0(f)
    PROVE  ServeInv(tip, cut)'
<1>1. CASE Geth!ResetCurrentUnsealedBlock /\ UNCHANGED blocks
  BY <1>1 DEF Geth!ResetCurrentUnsealedBlock, ServeInv, OnlyGatewayBlocks
<1>2. CASE /\ Geth!newFragV0OK(f) /\ Geth!InsertNewFrag(f) /\ f.type = "frag"
           /\ blocks' = IF f.last THEN blocks \cup Geth!SealBlock(f) ELSE blocks
  <2>1. PICK ub \in unsealed : f.block = ub.env.block /\ Geth!IsNextFrag(ub, f)
    BY <1>2, Zenon DEF Geth!newFragV0OK, Geth!ValidateNewFragV0
  <2>2. unsealed = {ub} /\ \A st \in unsealedState : Serves(tip, cut, ub, st)
    BY <2>1, Zenon DEF ServeInv
  <2>3. /\ unsealed' = {Geth!AddFrag(ub, f)}
        /\ unsealedState' = {Geth!ExecuteFrag(st, f) : st \in unsealedState}
    BY <1>2, <2>2 DEF Geth!InsertNewFrag
  <2>4. f.type = "frag"
    BY <1>2, Zenon
  <2>5. ASSUME NEW st \in unsealedState PROVE Extended(tip, cut, ub, st, f)
    <3>1. Serves(tip, cut, ub, st)
      BY <2>2, Zenon
    <3>2. f.block = ub.env.block /\ Geth!IsNextFrag(ub, f)
      BY <2>1, Zenon
    <3>. QED BY <2>4, <3>1, <3>2, FragServes, Zenon
  <2>6. \A u \in unsealed', t \in unsealedState' : Serves(tip, cut, u, t)
    BY <2>3, <2>5, Zenon DEF Extended
  <2>7. ASSUME f.last PROVE Geth!SealBlock(f) \subseteq GatewayTips
    <3>1. tip[f.block] \in GatewayTips
      BY <2>4, BlockOf, Zenon
    <3>2. Geth!SealBlock(f) =
             {Geth!SealedHash(ub, Geth!ExecuteFrag(st, f)) : st \in unsealedState}
      BY <2>2 DEF Geth!SealBlock
    <3>. QED BY <2>5, <2>7, <3>1, <3>2, Zenon DEF Extended
  <2>8. OnlyGatewayBlocks'
    BY <1>2, <2>7 DEF ServeInv, OnlyGatewayBlocks
  <2>. QED BY <2>3, <2>6, <2>8, Zenon DEF ServeInv
<1>. QED BY <1>1, <1>2 DEF Geth!NewFragV0

\* Every step of the node.
LEMMA ServeStep ==
    ASSUME NEW tip, NEW cut, IsStreamOf(tip, cut), ServeInv(tip, cut), EngineStep
    PROVE  ServeInv(tip, cut)'
<1>1. ASSUME NEW m \in Stream, Geth!SealFragV0(m) PROVE ServeInv(tip, cut)'
  BY <1>1 DEF Geth!SealFragV0, Geth!ResetCurrentUnsealedBlock, ServeInv, OnlyGatewayBlocks
<1>2. ASSUME NEW h \in Payload, Geth!newPayload(h) \/ Geth!forkchoiceUpdated(h)
      PROVE  ServeInv(tip, cut)'
  BY <1>2 DEF Geth!newPayload, Geth!forkchoiceUpdated, ServeInv, OnlyGatewayBlocks
<1>3. ASSUME UNCHANGED gethVars PROVE ServeInv(tip, cut)'
  BY <1>3 DEF gethVars, ServeInv, OnlyGatewayBlocks
<1>. QED BY <1>1, <1>2, <1>3, EnvServes, NewFragServes DEF EngineStep

\* What the invariant says of the block that is served.
LEMMA ServedIsPrefix ==
    ASSUME NEW tip, NEW cut, IsStreamOf(tip, cut), ServeInv(tip, cut)
    PROVE  ServesGatewayPrefix
<1>. SUFFICES ASSUME NEW ub \in unsealed, NEW st \in unsealedState
              PROVE  \E h \in GatewayTips : /\ Geth!Number(h) = ub.env.block
                                            /\ Geth!Parent(h) = st.parent
                                            /\ IsPrefixOf(st.txs, h[Len(h)].txs)
  BY DEF ServesGatewayPrefix
<1>. DEFINE h == tip[ub.env.block]
<1>1. Serves(tip, cut, ub, st)
  BY DEF ServeInv
<1>2. ub.env \in Stream /\ ub.env.type = "env"
  BY <1>1, Zenon DEF Serves, Opened
<1>3. h \in GatewayTips /\ Len(h) = ub.env.block /\ TxsIn(h) \in Seq(Tx)
  BY <1>2, BlockOf, Zenon
<1>4. Geth!Parent(h) = st.parent
  BY ZenonT(60), <1>1, <1>2 DEF Serves, IsStreamOf
<1>5. IsPrefixOf(st.txs, TxsIn(h))
  BY <1>1, <1>3, PrefixOf, Zenon DEF Serves
<1>. HIDE DEF h
<1>. QED BY <1>3, <1>4, <1>5 DEF Geth!Number, TxsIn

\* The two invariants of a follower hold together.
LEMMA ServeAlways ==
    ASSUME NEW CONSTANT tip, NEW CONSTANT cut, IsStreamOf(tip, cut)
    PROVE  FollowerSpec => []ServeInv(tip, cut)
<1>1. FollowerInit => ServeInv(tip, cut)
  BY DEF FollowerInit, Geth!GethInit, ServeInv, OnlyGatewayBlocks
<1>2. TypeOK /\ ServeInv(tip, cut) /\ [FollowerNext]_followerVars => ServeInv(tip, cut)'
  BY EngineHalf, ServeStep
<1>. QED BY <1>1, <1>2, BufferTypes, PTL DEF FollowerSpec

\* Whatever is lost, repeated, reordered or refused between the gateway and the
\* engine, the block that reads are served from (NewFragV0, IsNextFrag) is at any
\* time a prefix of the gateway's block, however that was cut into frags.
THEOREM ServedIsTheGateways ==
    ASSUME NEW CONSTANT tip, NEW CONSTANT cut, IsStreamOf(tip, cut)
    PROVE  FollowerSpec => []ServesGatewayPrefix
<1>1. ServeInv(tip, cut) => ServesGatewayPrefix
  BY ServedIsPrefix
<1>. QED BY <1>1, ServeAlways, PTL

\* And every block that the engine writes when a last frag arrives (sealUnsealed in
\* NewFragV0) is the gateway's block, whole.
THEOREM AssembledIsTheGateways ==
    ASSUME NEW CONSTANT tip, NEW CONSTANT cut, IsStreamOf(tip, cut)
    PROVE  FollowerSpec => []OnlyGatewayBlocks
<1>1. ServeInv(tip, cut) => OnlyGatewayBlocks
  BY DEF ServeInv
<1>. QED BY <1>1, ServeAlways, PTL
=============================================================================
