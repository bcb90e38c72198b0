------------------------- MODULE UnsealedBlockProofs -------------------------
(***************************************************************************)
(* Proofs about the unsealed block of op-geth, for any messages, payloads  *)
(* and limits.                                                             *)
(***************************************************************************)
EXTENDS UnsealedBlock, WellFoundedInduction, TLAPS

(***************************************************************************)
(* Sequences, as far as the proofs below need them.                        *)
(***************************************************************************)
\* The empty sequence, and any other.
LEMMA EmptySeq ==
    ASSUME NEW A
    PROVE  <<>> \in Seq(A) /\ Len(<<>>) = 0 /\ \A s \in Seq(A) : s # <<>> => Len(s) \in Nat \ {0}
OBVIOUS

\* A sequence is a function on its positions.
LEMMA LenProperties ==
    ASSUME NEW A, NEW s \in Seq(A)
    PROVE  Len(s) \in Nat /\ DOMAIN s = 1 .. Len(s) /\ s \in [1 .. Len(s) -> A]
OBVIOUS

\* Concatenation, position by position.
LEMMA ConcatProperties ==
    ASSUME NEW A, NEW s \in Seq(A), NEW t \in Seq(A)
    PROVE  /\ s \o t \in Seq(A) /\ Len(s \o t) = Len(s) + Len(t)
           /\ \A i \in 1 .. Len(s) + Len(t) :
                 (s \o t)[i] = IF i <= Len(s) THEN s[i] ELSE t[i - Len(s)]
OBVIOUS

\* A subsequence, position by position.
LEMMA SubSeqProperties ==
    ASSUME NEW A, NEW s, NEW k \in Int, NEW l \in Int, \A i \in k .. l : s[i] \in A
    PROVE  /\ SubSeq(s, k, l) \in Seq(A)
           /\ Len(SubSeq(s, k, l)) = IF k <= l THEN l - k + 1 ELSE 0
           /\ \A i \in 1 .. l - k + 1 : SubSeq(s, k, l)[i] = s[k + i - 1]
OBVIOUS

\* One element more.
LEMMA AppendProperties ==
    ASSUME NEW A, NEW s \in Seq(A), NEW x \in A
    PROVE  /\ Append(s, x) \in Seq(A) /\ Append(s, x) # <<>> /\ Len(Append(s, x)) = Len(s) + 1
           /\ Append(s, x)[Len(s) + 1] = x /\ \A i \in 1 .. Len(s) : Append(s, x)[i] = s[i]
OBVIOUS

\* The whole of a sequence.
LEMMA SubSeqFull ==
    ASSUME NEW A, NEW s \in Seq(A) PROVE SubSeq(s, 1, Len(s)) = s
OBVIOUS

-----------------------------------------------------------------------------

\* The hash that SealBlock computes is one.
LEMMA SealedHashType ==
    ASSUME NEW p \in Hash, NEW t \in Nat, NEW txs \in Seq(Tx)
    PROVE  Append(p, [time |-> t, txs |-> txs]) \in Hash
BY DEF Hash, Content

LEMMA AncestorsOfInitHead ==
    Ancestors(InitHead) \subseteq Hash /\ InitHead \in Ancestors(InitHead)
<1>. DEFINE Block == [time : Nat, txs : Seq(Tx)]
<1>1. InitHead \in Seq(Block) /\ Hash = Seq(Block)
  BY ChainAssumption DEF Hash, Content
<1>. HIDE DEF Block
<1>2. Len(InitHead) \in 0 .. Len(InitHead) /\ SubSeq(InitHead, 1, Len(InitHead)) = InitHead
  BY <1>1, LenProperties, SubSeqFull
<1>3. ASSUME NEW n \in 0 .. Len(InitHead) PROVE SubSeq(InitHead, 1, n) \in Seq(Block)
  <2>1. n \in Int /\ \A i \in 1 .. n : InitHead[i] \in Block
    BY <1>1
  <2>. QED BY <2>1, SubSeqProperties
<1>. QED BY <1>1, <1>2, <1>3, Zenon DEF Ancestors

-----------------------------------------------------------------------------
(***************************************************************************)
(* The open block and the state move together: a message that is refused   *)
(* discards both, an env opens both, and a frag extends both.              *)
(***************************************************************************)
LEMMA ResetType ==
    ASSUME ResetCurrentUnsealedBlock, head' \in blocks', blocks' \subseteq Hash
    PROVE  GethTypeOK'
BY DEF GethTypeOK, ResetCurrentUnsealedBlock

LEMMA EnvType ==
    ASSUME GethTypeOK, NEW m \in Message, EnvV0(m)
    PROVE  GethTypeOK'
<1>1. CASE envV0OK(m)
  <2>1. m \in Env /\ m.parent \in Hash /\ UNCHANGED <<blocks, head>>
    BY <1>1, MessageAssumption DEF EnvV0, Env, chain
  <2>2. SetCurrentUnsealedBlock(m)
    BY <1>1 DEF EnvV0
  <2>3. <<>> \in Seq(Frag) /\ <<>> \in Seq(Tx) /\ {} \in SUBSET Nat
    BY EmptySeq
  <2>4. [env |-> m, frags |-> <<>>, lastSequenceNumber |-> {}] \in OpenBlock
    BY <2>1, <2>3 DEF OpenBlock
  <2>5. [parent |-> m.parent, txs |-> <<>>] \in OpenState
    BY <2>1, <2>3 DEF OpenState
  <2>. QED BY <2>1, <2>2, <2>4, <2>5 DEF GethTypeOK, SetCurrentUnsealedBlock
<1>2. CASE ~envV0OK(m)
  <2>1. ResetCurrentUnsealedBlock /\ UNCHANGED <<blocks, head>>
    BY <1>2 DEF EnvV0, chain
  <2>. QED BY <2>1, ResetType DEF GethTypeOK
<1>. QED BY <1>1, <1>2

\* What a frag adds to the open block and to its state.
LEMMA AddFragType ==
    ASSUME NEW ub \in OpenBlock, NEW f \in Frag
    PROVE  /\ AddFrag(ub, f) \in OpenBlock
           /\ AddFrag(ub, f).env = ub.env
           /\ AddFrag(ub, f).frags = Append(ub.frags, f)
           /\ AddFrag(ub, f).lastSequenceNumber = {f.seq}
<1>1. Append(ub.frags, f) \in Seq(Frag) /\ {f.seq} \in SUBSET Nat
  BY MessageAssumption, AppendProperties DEF OpenBlock, Frag
<1>. QED BY <1>1, Zenon DEF OpenBlock, AddFrag

LEMMA ExecuteFragType ==
    ASSUME NEW st \in OpenState, NEW f \in Frag
    PROVE  /\ ExecuteFrag(st, f) \in OpenState
           /\ ExecuteFrag(st, f).parent = st.parent
           /\ ExecuteFrag(st, f).txs = st.txs \o f.txs
<1>1. st.txs \o f.txs \in Seq(Tx)
  BY MessageAssumption, ConcatProperties DEF OpenState, Frag
<1>. QED BY <1>1, Zenon DEF OpenState, ExecuteFrag

LEMMA InsertType ==
    ASSUME GethTypeOK, NEW f \in Frag, InsertNewFrag(f), UNCHANGED head,
           blocks \subseteq blocks', blocks' \subseteq Hash
    PROVE  GethTypeOK'
<1>1. unsealed' \subseteq OpenBlock
  BY AddFragType DEF InsertNewFrag, GethTypeOK
<1>2. unsealedState' \subseteq OpenState
  BY ExecuteFragType, Zenon DEF InsertNewFrag, GethTypeOK
<1>3. /\ \A a, b \in unsealed' : a = b
      /\ \A a, b \in unsealedState' : a = b
      /\ unsealed' = {} <=> unsealedState' = {}
  BY DEF GethTypeOK, InsertNewFrag
<1>. QED BY <1>1, <1>2, <1>3 DEF GethTypeOK

LEMMA SealBlockType ==
    ASSUME GethTypeOK, NEW f \in Frag
    PROVE  SealBlock(f) \subseteq Hash
<1>1. ASSUME NEW ub \in OpenBlock, NEW st \in OpenState
      PROVE  SealedHash(ub, ExecuteFrag(st, f)) \in Hash
  <2>1. ub.env.parent \in Hash /\ ub.env.time \in Nat
    BY MessageAssumption DEF OpenBlock, Env
  <2>2. ExecuteFrag(st, f).txs \in Seq(Tx)
    BY ExecuteFragType, Zenon DEF OpenState
  <2>. QED BY <2>1, <2>2, SealedHashType DEF SealedHash
<1>. QED BY <1>1 DEF SealBlock, GethTypeOK

LEMMA FragType ==
    ASSUME GethTypeOK, NEW f \in Message, NewFragV0(f)
    PROVE  GethTypeOK'
<1>0. f \in Frag
  BY DEF NewFragV0, Frag
<1>1. CASE newFragV0OK(f) /\ InsertNewFrag(f)
           /\ blocks' = IF f.last THEN blocks \cup SealBlock(f) ELSE blocks
  <2>1. blocks \subseteq blocks' /\ blocks' \subseteq Hash /\ UNCHANGED head
    BY <1>0, <1>1, SealBlockType DEF GethTypeOK, NewFragV0
  <2>. QED BY <1>0, <1>1, <2>1, InsertType
<1>2. CASE ResetCurrentUnsealedBlock /\ UNCHANGED blocks
  BY <1>2, ResetType DEF GethTypeOK, NewFragV0
<1>. QED BY <1>1, <1>2 DEF NewFragV0

\* The open block and its state have their types, and are set and reset together.
THEOREM GethTypeCorrect == GethSpec => []GethTypeOK
<1>1. GethInit => GethTypeOK
  BY AncestorsOfInitHead DEF GethInit, GethTypeOK
<1>2. GethTypeOK /\ [GethNext]_gethVars => GethTypeOK'
  <2>. SUFFICES ASSUME GethTypeOK, [GethNext]_gethVars PROVE GethTypeOK'
    OBVIOUS
  <2>1. ASSUME NEW m \in Message, EnvV0(m) PROVE GethTypeOK'
    BY <2>1, EnvType
  <2>2. ASSUME NEW m \in Message, NewFragV0(m) PROVE GethTypeOK'
    BY <2>2, FragType
  <2>3. ASSUME NEW m \in Message, SealFragV0(m) PROVE GethTypeOK'
    <3>1. ResetCurrentUnsealedBlock /\ UNCHANGED blocks /\ head' \in blocks
      BY <2>3 DEF SealFragV0, sealFragV0OK, ValidateSealFragV0, GethTypeOK
    <3>. QED BY <3>1, ResetType DEF GethTypeOK
  <2>4. ASSUME NEW h \in Payload, newPayload(h) PROVE GethTypeOK'
    <3>1. h \in Hash /\ blocks' = blocks \cup {h} /\ UNCHANGED <<head, unsealed, unsealedState>>
      BY <2>4, ChainAssumption DEF newPayload
    <3>. QED BY <3>1 DEF GethTypeOK
  <2>5. ASSUME NEW h \in Payload, forkchoiceUpdated(h) PROVE GethTypeOK'
    BY <2>5 DEF forkchoiceUpdated, GethTypeOK
  <2>6. CASE UNCHANGED gethVars
    BY <2>6 DEF gethVars, GethTypeOK
  <2>. QED BY <2>1, <2>2, <2>3, <2>4, <2>5, <2>6 DEF GethNext
<1>. QED BY <1>1, <1>2, PTL DEF GethSpec

-----------------------------------------------------------------------------
(***************************************************************************)
(* The frags of the open block are numbered by their position, and none    *)
(* follows a last one.                                                     *)
(***************************************************************************)
FragsInOrder(ub) ==
    /\ ub.lastSequenceNumber = IF ub.frags = <<>> THEN {} ELSE {Len(ub.frags) - 1}
    /\ \A i \in DOMAIN ub.frags :
          /\ ub.frags[i].block = ub.env.block
          /\ ub.frags[i].seq = i - 1
          /\ ub.frags[i].last => i = Len(ub.frags)

\* IsNextFrag accepts exactly the frag that comes next.
LEMMA NextFragNumber ==
    ASSUME NEW ub \in OpenBlock, FragsInOrder(ub), NEW f \in Frag, IsNextFrag(ub, f)
    PROVE  /\ f.seq = Len(ub.frags)
           /\ \A i \in DOMAIN ub.frags : ~ub.frags[i].last
<1>0. /\ ub.frags \in Seq(Frag) /\ Len(ub.frags) \in Nat
      /\ DOMAIN ub.frags = 1 .. Len(ub.frags)
      /\ ub.frags # <<>> => Len(ub.frags) >= 1
  BY EmptySeq, LenProperties DEF OpenBlock
<1>1. CASE ub.frags = <<>>
  <2>1. ub.lastSequenceNumber = {} /\ Len(ub.frags) = 0
    BY <1>1, EmptySeq DEF FragsInOrder
  <2>. QED BY <1>0, <2>1 DEF IsNextFrag
<1>2. CASE ub.frags # <<>>
  <2>1. ub.lastSequenceNumber = {Len(ub.frags) - 1}
    BY <1>2 DEF FragsInOrder
  <2>2. /\ ~ub.frags[Len(ub.frags) - 1 + 1].last
        /\ ub.frags[Len(ub.frags) - 1 + 1].seq + 1 = f.seq
    BY <2>1, Zenon DEF IsNextFrag
  <2>3. Len(ub.frags) - 1 + 1 = Len(ub.frags) /\ Len(ub.frags) \in DOMAIN ub.frags
    BY <1>0, <1>2
  <2>4. ~ub.frags[Len(ub.frags)].last /\ f.seq = Len(ub.frags)
    BY <1>0, <2>2, <2>3 DEF FragsInOrder
  <2>. QED BY <2>4 DEF FragsInOrder
<1>. QED BY <1>1, <1>2

LEMMA AddFragInOrder ==
    ASSUME NEW ub \in OpenBlock, FragsInOrder(ub),
           NEW f \in Frag, f.block = ub.env.block, IsNextFrag(ub, f)
    PROVE  FragsInOrder(AddFrag(ub, f))
<1>0. ub.frags \in Seq(Frag) /\ Len(ub.frags) \in Nat /\ DOMAIN ub.frags = 1 .. Len(ub.frags)
  BY LenProperties DEF OpenBlock
<1>1. f.seq = Len(ub.frags) /\ \A i \in DOMAIN ub.frags : ~ub.frags[i].last
  BY NextFragNumber
<1>. DEFINE fs == Append(ub.frags, f)
<1>2. /\ fs # <<>> /\ Len(fs) = Len(ub.frags) + 1
      /\ DOMAIN fs = 1 .. Len(ub.frags) + 1
      /\ fs[Len(ub.frags) + 1] = f
      /\ \A i \in 1 .. Len(ub.frags) : fs[i] = ub.frags[i]
  BY <1>0, AppendProperties, LenProperties
<1>. HIDE DEF fs
<1>3. \A i \in DOMAIN fs : /\ fs[i].block = ub.env.block
                           /\ fs[i].seq = i - 1
                           /\ fs[i].last => i = Len(fs)
  <2>. SUFFICES ASSUME NEW i \in DOMAIN fs
                PROVE  /\ fs[i].block = ub.env.block
                       /\ fs[i].seq = i - 1
                       /\ fs[i].last => i = Len(fs)
    OBVIOUS
  <2>1. CASE i \in 1 .. Len(ub.frags)
    BY <1>0, <1>1, <1>2, <2>1 DEF FragsInOrder
  <2>2. CASE i = Len(ub.frags) + 1
    BY <1>0, <1>1, <1>2, <2>2
  <2>. QED BY <1>0, <1>2, <2>1, <2>2
<1>4. {f.seq} = {Len(fs) - 1}
  BY <1>0, <1>1, <1>2
<1>. QED BY <1>2, <1>3, <1>4, AddFragType, Zenon DEF FragsInOrder, fs

LEMMA InsertWellFormed ==
    ASSUME GethTypeOK, OpenBlockWellFormed, NEW f \in Frag,
           ValidateNewFragV0(f), InsertNewFrag(f), blocks \subseteq blocks'
    PROVE  OpenBlockWellFormed'
<1>1. ASSUME NEW u \in unsealed'
      PROVE  /\ FragsInOrder(u)
             /\ u.env.parent \in blocks' /\ u.env.block = Number(u.env.parent) + 1
  <2>1. PICK ub \in unsealed : u = AddFrag(ub, f)
    BY DEF InsertNewFrag
  <2>2. f.block = ub.env.block /\ IsNextFrag(ub, f)
    BY DEF ValidateNewFragV0, GethTypeOK
  <2>3. /\ ub \in OpenBlock /\ FragsInOrder(ub)
        /\ ub.env.parent \in blocks /\ ub.env.block = Number(ub.env.parent) + 1
    BY Zenon DEF GethTypeOK, OpenBlockWellFormed, FragsInOrder
  <2>4. u.env = ub.env /\ FragsInOrder(u)
    BY <2>1, <2>2, <2>3, AddFragType, AddFragInOrder
  <2>. QED BY <2>3, <2>4
<1>. QED BY <1>1, Zenon DEF OpenBlockWellFormed, FragsInOrder

\* The open block extends a known one and holds its frags in order, from the
\* first, without a gap: IsNextFrag indexes within Frags.
THEOREM OpenBlockIsWellFormed == GethSpec => []OpenBlockWellFormed
<1>1. GethInit => OpenBlockWellFormed
  BY DEF GethInit, OpenBlockWellFormed
<1>2. GethTypeOK /\ OpenBlockWellFormed /\ [GethNext]_gethVars => OpenBlockWellFormed'
  <2>. SUFFICES ASSUME GethTypeOK, OpenBlockWellFormed, [GethNext]_gethVars
                PROVE  OpenBlockWellFormed'
    OBVIOUS
  <2>0. ASSUME ResetCurrentUnsealedBlock PROVE OpenBlockWellFormed'
    BY <2>0 DEF ResetCurrentUnsealedBlock, OpenBlockWellFormed
  <2>1. ASSUME NEW m \in Message, EnvV0(m) PROVE OpenBlockWellFormed'
    <3>1. CASE envV0OK(m) /\ SetCurrentUnsealedBlock(m)
      <4>1. m.parent \in blocks' /\ m.block = Number(m.parent) + 1
        BY <2>1, <3>1 DEF EnvV0, envV0OK, ValidateEnvV0, chain
      <4>. QED BY <3>1, <4>1 DEF SetCurrentUnsealedBlock, OpenBlockWellFormed
    <3>. QED BY <2>0, <2>1, <3>1 DEF EnvV0
  <2>2. ASSUME NEW m \in Message, NewFragV0(m) PROVE OpenBlockWellFormed'
    <3>1. CASE newFragV0OK(m) /\ InsertNewFrag(m) /\ blocks \subseteq blocks'
      BY <2>2, <3>1, InsertWellFormed DEF NewFragV0, newFragV0OK, Frag
    <3>. QED BY <2>0, <2>2, <3>1 DEF NewFragV0
  <2>3. ASSUME NEW m \in Message, SealFragV0(m) PROVE OpenBlockWellFormed'
    BY <2>0, <2>3 DEF SealFragV0
  <2>4. ASSUME UNCHANGED unsealed, blocks \subseteq blocks' PROVE OpenBlockWellFormed'
    BY <2>4 DEF OpenBlockWellFormed
  <2>5. ASSUME NEW h \in Payload, newPayload(h) \/ forkchoiceUpdated(h)
        PROVE  OpenBlockWellFormed'
    BY <2>4, <2>5 DEF newPayload, forkchoiceUpdated
  <2>6. CASE UNCHANGED gethVars
    BY <2>4, <2>6 DEF gethVars
  <2>. QED BY <2>1, <2>2, <2>3, <2>5, <2>6 DEF GethNext
<1>. QED BY <1>1, <1>2, GethTypeCorrect, PTL DEF GethSpec

-----------------------------------------------------------------------------
(***************************************************************************)
(* A block whose last frag is in is in the database.  It is there when the *)
(* last frag is accepted, no frag is accepted after it, and blocks stay.   *)
(***************************************************************************)
LEMMA InsertPreSeals ==
    ASSUME GethTypeOK, OpenBlockWellFormed, NEW f \in Frag, ValidateNewFragV0(f),
           InsertNewFrag(f), blocks' = IF f.last THEN blocks \cup SealBlock(f) ELSE blocks
    PROVE  CompleteBlockIsPreSealed'
<1>. SUFFICES ASSUME NEW u \in unsealed', NEW t \in unsealedState',
                     NEW i \in DOMAIN u.frags, u.frags[i].last
              PROVE  SealedHash(u, t) \in blocks'
  BY DEF CompleteBlockIsPreSealed, SealedHash
<1>1. PICK ub \in unsealed : u = AddFrag(ub, f)
  BY DEF InsertNewFrag
<1>2. PICK st \in unsealedState : t = ExecuteFrag(st, f)
  BY DEF InsertNewFrag
<1>3. ub \in OpenBlock /\ FragsInOrder(ub) /\ IsNextFrag(ub, f)
  BY Zenon DEF GethTypeOK, OpenBlockWellFormed, FragsInOrder, ValidateNewFragV0
<1>4. \A j \in DOMAIN ub.frags : ~ub.frags[j].last
  BY <1>3, NextFragNumber
<1>5. /\ u.frags = Append(ub.frags, f) /\ u.env = ub.env
      /\ ub.frags \in Seq(Frag)
  BY <1>1, <1>3, AddFragType, Zenon DEF OpenBlock
<1>6. /\ DOMAIN ub.frags = 1 .. Len(ub.frags) /\ Len(ub.frags) \in Nat
      /\ DOMAIN u.frags = 1 .. Len(ub.frags) + 1
      /\ u.frags[Len(ub.frags) + 1] = f
      /\ \A j \in 1 .. Len(ub.frags) : u.frags[j] = ub.frags[j]
  BY <1>5, AppendProperties, LenProperties
<1>7. f.last
  BY <1>4, <1>6
<1>8. SealedHash(u, t) = SealedHash(ub, ExecuteFrag(st, f))
  BY <1>2, <1>5 DEF SealedHash
<1>. QED BY <1>7, <1>8 DEF SealBlock

\* Once its last frag is accepted, the open block is in the database under the
\* hash that the seal will name.
THEOREM PreSealed == GethSpec => []CompleteBlockIsPreSealed
<1>1. GethInit => CompleteBlockIsPreSealed
  BY DEF GethInit, CompleteBlockIsPreSealed
<1>2. GethTypeOK /\ OpenBlockWellFormed /\ CompleteBlockIsPreSealed /\ [GethNext]_gethVars
      => CompleteBlockIsPreSealed'
  <2>. SUFFICES ASSUME GethTypeOK, OpenBlockWellFormed, CompleteBlockIsPreSealed,
                       [GethNext]_gethVars
                PROVE  CompleteBlockIsPreSealed'
    OBVIOUS
  <2>0. ASSUME ResetCurrentUnsealedBlock PROVE CompleteBlockIsPreSealed'
    BY <2>0 DEF ResetCurrentUnsealedBlock, CompleteBlockIsPreSealed
  <2>1. ASSUME NEW m \in Message, EnvV0(m) PROVE CompleteBlockIsPreSealed'
    <3>1. CASE SetCurrentUnsealedBlock(m)
      <4>1. \A u \in unsealed' : DOMAIN u.frags = {}
        BY <3>1 DEF SetCurrentUnsealedBlock
      <4>. QED BY <4>1 DEF CompleteBlockIsPreSealed
    <3>. QED BY <2>0, <2>1, <3>1 DEF EnvV0
  <2>2. ASSUME NEW m \in Message, NewFragV0(m) PROVE CompleteBlockIsPreSealed'
    <3>1. CASE newFragV0OK(m) /\ InsertNewFrag(m)
               /\ blocks' = IF m.last THEN blocks \cup SealBlock(m) ELSE blocks
      BY <2>2, <3>1, InsertPreSeals DEF NewFragV0, newFragV0OK, Frag
    <3>. QED BY <2>0, <2>2, <3>1 DEF NewFragV0
  <2>3. ASSUME NEW m \in Message, SealFragV0(m) PROVE CompleteBlockIsPreSealed'
    BY <2>0, <2>3 DEF SealFragV0
  <2>4. ASSUME UNCHANGED <<unsealed, unsealedState>>, blocks \subseteq blocks'
        PROVE  CompleteBlockIsPreSealed'
    BY <2>4 DEF CompleteBlockIsPreSealed, SealedHash
  <2>5. ASSUME NEW h \in Payload, newPayload(h) \/ forkchoiceUpdated(h)
        PROVE  CompleteBlockIsPreSealed'
    BY <2>4, <2>5 DEF newPayload, forkchoiceUpdated
  <2>6. CASE UNCHANGED gethVars
    BY <2>4, <2>6 DEF gethVars
  <2>. QED BY <2>1, <2>2, <2>3, <2>5, <2>6 DEF GethNext
<1>. QED BY <1>1, <1>2, GethTypeCorrect, OpenBlockIsWellFormed, PTL DEF GethSpec

-----------------------------------------------------------------------------
\* Preconfirmed frags are only added to while their block is open.
THEOREM PreconfirmedOnlyGrows == GethSpec => OpenBlockOnlyGrows
<1>. DEFINE Grows == \A ub \in unsealed, ub2 \in unsealed' :
                        /\ ub2.env = ub.env
                        /\ SubSeq(ub2.frags, 1, Len(ub.frags)) = ub.frags
<1>1. GethTypeOK /\ [GethNext]_gethVars => [Grows]_gethVars
  <2>. SUFFICES ASSUME GethTypeOK, GethNext PROVE Grows
    OBVIOUS
  <2>0. ASSUME ResetCurrentUnsealedBlock PROVE Grows
    BY <2>0 DEF ResetCurrentUnsealedBlock
  <2>1. ASSUME NEW m \in Message, EnvV0(m) PROVE Grows
    <3>1. CASE envV0OK(m)
      BY <3>1 DEF envV0OK, ValidateEnvV0
    <3>. QED BY <2>0, <2>1, <3>1 DEF EnvV0
  <2>2. ASSUME NEW m \in Message, NewFragV0(m) PROVE Grows
    <3>1. CASE InsertNewFrag(m)
      <4>1. ASSUME NEW ub \in unsealed
            PROVE  /\ AddFrag(ub, m).env = ub.env
                   /\ SubSeq(AddFrag(ub, m).frags, 1, Len(ub.frags)) = ub.frags
        <5>1. m \in Frag /\ ub \in OpenBlock /\ ub.frags \in Seq(Frag)
          BY <2>2, Zenon DEF NewFragV0, Frag, GethTypeOK, OpenBlock
        <5>2. SubSeq(Append(ub.frags, m), 1, Len(ub.frags)) = ub.frags
          BY <5>1
        <5>. QED BY <5>1, <5>2, AddFragType, Zenon
      <4>. QED BY <3>1, <4>1 DEF InsertNewFrag, GethTypeOK
    <3>. QED BY <2>0, <2>2, <3>1 DEF NewFragV0
  <2>3. ASSUME NEW m \in Message, SealFragV0(m) PROVE Grows
    BY <2>0, <2>3 DEF SealFragV0
  <2>4. ASSUME UNCHANGED unsealed PROVE Grows
    <3>1. \A ub \in unsealed : ub.frags \in Seq(Frag)
      BY DEF GethTypeOK, OpenBlock
    <3>2. \A ub \in unsealed : SubSeq(ub.frags, 1, Len(ub.frags)) = ub.frags
      BY <3>1, SubSeqFull
    <3>. QED BY <2>4, <3>2 DEF GethTypeOK
  <2>5. ASSUME NEW h \in Payload, newPayload(h) \/ forkchoiceUpdated(h) PROVE Grows
    BY <2>4, <2>5 DEF newPayload, forkchoiceUpdated
  <2>. QED BY <2>1, <2>2, <2>3, <2>5 DEF GethNext
<1>. QED BY <1>1, GethTypeCorrect, PTL DEF GethSpec, OpenBlockOnlyGrows

-----------------------------------------------------------------------------
(***************************************************************************)
(* A block enters the database after verification only, on a parent that   *)
(* is there.                                                               *)
(***************************************************************************)
LEMMA ParentOfSealed ==
    ASSUME GethTypeOK, OpenBlockWellFormed, NEW f \in Frag, NEW h \in SealBlock(f)
    PROVE  Parent(h) \in blocks
<1>1. PICK ub \in unsealed, st \in unsealedState : h = SealedHash(ub, ExecuteFrag(st, f))
  BY DEF SealBlock
<1>2. ub.env.parent \in blocks /\ ub.env.parent \in Hash /\ ub.env.time \in Nat
  BY MessageAssumption, Zenon DEF GethTypeOK, OpenBlockWellFormed, OpenBlock, Env
<1>. DEFINE x == [time |-> ub.env.time, txs |-> ExecuteFrag(st, f).txs]
<1>3. x \in Content
  BY <1>2, ExecuteFragType, Zenon DEF GethTypeOK, OpenState, Content
<1>4. h = Append(ub.env.parent, x)
  BY <1>1 DEF SealedHash
<1>. HIDE DEF x
<1>5. Parent(Append(ub.env.parent, x)) = ub.env.parent
  BY <1>2, <1>3, AppendProperties, SubSeqProperties DEF Hash, Parent
<1>. QED BY <1>2, <1>4, <1>5

\* Every block that has entered the database obeys the rules on timestamps, gas and
\* nonces and has its parent there, whatever the messages and payloads were.
THEOREM OnlyValidBlocks == GethSpec => []DatabaseIsValid
<1>1. GethInit => DatabaseIsValid
  BY DEF GethInit, DatabaseIsValid
<1>2. GethTypeOK /\ OpenBlockWellFormed /\ DatabaseIsValid /\ [GethNext]_gethVars
      => DatabaseIsValid'
  <2>. SUFFICES ASSUME GethTypeOK, OpenBlockWellFormed, DatabaseIsValid, [GethNext]_gethVars
                PROVE  DatabaseIsValid'
    OBVIOUS
  <2>0. ASSUME UNCHANGED blocks PROVE DatabaseIsValid'
    BY <2>0 DEF DatabaseIsValid
  <2>1. ASSUME NEW new, blocks' = blocks \cup new,
               \A h \in new : Parent(h) \in blocks /\ BlockValid(h)
        PROVE  DatabaseIsValid'
    BY <2>1 DEF DatabaseIsValid
  <2>2. ASSUME NEW m \in Message, NewFragV0(m) PROVE DatabaseIsValid'
    <3>1. CASE m.last /\ newFragV0OK(m) /\ blocks' = blocks \cup SealBlock(m)
      <4>1. \A h \in SealBlock(m) : Parent(h) \in blocks /\ BlockValid(h)
        BY <2>2, <3>1, ParentOfSealed DEF NewFragV0, newFragV0OK, Frag
      <4>. QED BY <2>1, <3>1, <4>1
    <3>. QED BY <2>0, <2>2, <3>1 DEF NewFragV0
  <2>3. ASSUME NEW h \in Payload, newPayload(h) PROVE DatabaseIsValid'
    <3>1. blocks' = blocks \cup {h} /\ Parent(h) \in blocks /\ BlockValid(h)
      BY <2>3 DEF newPayload
    <3>. QED BY <3>1 DEF DatabaseIsValid
  <2>. QED BY <2>0, <2>2, <2>3
          DEF GethNext, gethVars, EnvV0, SealFragV0, chain, forkchoiceUpdated
<1>. QED BY <1>1, <1>2, GethTypeCorrect, OpenBlockIsWellFormed, PTL DEF GethSpec

-----------------------------------------------------------------------------
(***************************************************************************)
(* The state that is read is that of the frags of the open block.  TxsOf   *)
(* computes their transactions by recursion: it has a value for every      *)
(* sequence of frags, and a frag adds its own to it.                       *)
(***************************************************************************)
\* The least counterexample of an inductive argument.
LEMMA LeastNat ==
    ASSUME NEW T, T \subseteq Nat, T # {}
    PROVE  \E m \in T : \A k \in T : m <= k
<1>. DEFINE R == OpToRel(<, Nat)
<1>1. IsWellFoundedOn(R, Nat)
  BY NatLessThanWellFounded, Zenon
<1>2. \A x, y \in Nat : <<x, y>> \in R <=> x < y
  BY DEF OpToRel
<1>. HIDE DEF R
<1>3. PICK x \in T : \A y \in T : ~(<<y, x>> \in R)
  BY <1>1, WFMin, Zenon
<1>4. ASSUME NEW y \in T PROVE x <= y
  <2>1. x \in Nat /\ y \in Nat
    OBVIOUS
  <2>2. ~(y < x)
    BY <1>2, <1>3, <2>1, Zenon
  <2>. QED BY <2>1, <2>2
<1>. QED BY <1>3, <1>4

\* The transactions of the frags, as a function of how many of them.
UpTo(g, frags) ==
    g = [n \in 0 .. Len(frags) |-> IF n = 0 THEN <<>> ELSE g[n - 1] \o frags[n].txs]

LEMMA TxsOfIsUpTo ==
    ASSUME NEW frags
    PROVE  TxsOf(frags) = (CHOOSE g : UpTo(g, frags))[Len(frags)]
BY DEF TxsOf, UpTo

LEMMA UpToExists ==
    ASSUME NEW frags, Len(frags) \in Nat, \A i \in 1 .. Len(frags) : frags[i].txs \in Seq(Tx)
    PROVE  \E g \in [0 .. Len(frags) -> Seq(Tx)] : UpTo(g, frags)
<1>. DEFINE N == Len(frags)
            Sums(g, k) == /\ g \in [0 .. k -> Seq(Tx)] /\ g[0] = <<>>
                          /\ \A i \in 1 .. k : g[i] = g[i - 1] \o frags[i].txs
            T == {k \in 0 .. N : \A g : ~Sums(g, k)}
<1>0. N \in Nat
  OBVIOUS
<1>1. ASSUME T # {} PROVE FALSE
  <2>1. PICK m \in Nat : m \in T /\ \A k \in T : m <= k
    <3>1. T \subseteq Nat
      <4>. HIDE DEF N, Sums
      <4>. QED BY <1>0
    <3>. HIDE DEF T
    <3>. QED BY <1>1, <3>1, LeastNat, Zenon
  <2>2. m \in 0 .. N /\ \A g : ~Sums(g, m)
    <3>. HIDE DEF N, Sums
    <3>. QED BY <2>1
  <2>3. m # 0
    <3>1. Sums([i \in 0 .. 0 |-> <<>>], 0)
      OBVIOUS
    <3>. HIDE DEF Sums
    <3>. QED BY <2>2, <3>1
  <2>4. m \in 1 .. N /\ m - 1 \in 0 .. N
    BY <1>0, <2>2, <2>3
  <2>5. PICK g : Sums(g, m - 1)
    <3>1. m - 1 \notin T
      <4>. HIDE DEF T
      <4>. QED BY <2>1, <2>4
    <3>. HIDE DEF N, Sums
    <3>. QED BY <2>4, <3>1
  <2>. DEFINE x == g[m - 1] \o frags[m].txs
              h == [i \in 0 .. m |-> IF i = m THEN x ELSE g[i]]
  <2>6. x \in Seq(Tx)
    <3>1. g[m - 1] \in Seq(Tx) /\ frags[m].txs \in Seq(Tx)
      BY <2>4, <2>5
    <3>. QED BY <3>1
  <2>7. /\ h[m] = x /\ h[0] = g[0] /\ DOMAIN h = 0 .. m
        /\ \A i \in 0 .. m - 1 : h[i] = g[i]
    <3>. HIDE DEF x
    <3>. QED BY <2>4
  <2>8. h \in [0 .. m -> Seq(Tx)]
    <3>1. \A i \in 0 .. m - 1 : g[i] \in Seq(Tx)
      BY <2>5
    <3>. HIDE DEF x
    <3>. QED BY <2>4, <2>6, <3>1
  <2>9. ASSUME NEW i \in 1 .. m PROVE h[i] = h[i - 1] \o frags[i].txs
    <3>1. i - 1 \in 0 .. m - 1 /\ (i = m \/ (i \in 1 .. m - 1 /\ i \in 0 .. m - 1))
      BY <2>4
    <3>2. h[i - 1] = g[i - 1]
      BY <2>7, <3>1
    <3>. HIDE DEF h
    <3>3. CASE i = m
      BY <2>7, <3>2, <3>3, Zenon
    <3>4. CASE i \in 1 .. m - 1 /\ i \in 0 .. m - 1
      BY <2>5, <2>7, <3>2, <3>4, Zenon
    <3>. QED BY <3>1, <3>3, <3>4, Zenon
  <2>. HIDE DEF h
  <2>10. Sums(h, m)
    BY <2>5, <2>7, <2>8, <2>9, Zenon
  <2>. HIDE DEF Sums
  <2>. QED BY <2>2, <2>10
<1>2. PICK g : Sums(g, N)
  <2>1. N \in 0 .. N
    OBVIOUS
  <2>. HIDE DEF Sums
  <2>. QED BY <1>1, <2>1
<1>3. ASSUME NEW i \in 0 .. N
      PROVE  g[i] = IF i = 0 THEN <<>> ELSE g[i - 1] \o frags[i].txs
  <2>1. g[0] = <<>> /\ \A k \in 1 .. N : g[k] = g[k - 1] \o frags[k].txs
    BY <1>2, Zenon
  <2>2. i = 0 \/ i \in 1 .. N
    BY <1>0
  <2>. HIDE DEF N, Sums
  <2>. QED BY <2>1, <2>2, Zenon
<1>4. g = [n \in 0 .. N |-> IF n = 0 THEN <<>> ELSE g[n - 1] \o frags[n].txs]
  BY <1>2, <1>3, Zenon
<1>. QED BY <1>2, <1>4, Zenon DEF UpTo

LEMMA UpToUnique ==
    ASSUME NEW frags, Len(frags) \in Nat, NEW g, UpTo(g, frags), NEW h, UpTo(h, frags)
    PROVE  g = h
<1>. DEFINE N == Len(frags)
            T == {k \in 0 .. N : g[k] # h[k]}
<1>0. /\ g = [n \in 0 .. N |-> g[n]] /\ h = [n \in 0 .. N |-> h[n]]
      /\ \A n \in 0 .. N : /\ g[n] = IF n = 0 THEN <<>> ELSE g[n - 1] \o frags[n].txs
                           /\ h[n] = IF n = 0 THEN <<>> ELSE h[n - 1] \o frags[n].txs
  BY DEF UpTo
<1>1. ASSUME T # {} PROVE FALSE
  <2>1. PICK k \in T : \A l \in T : k <= l
    <3>1. T \subseteq Nat
      OBVIOUS
    <3>. HIDE DEF T
    <3>. QED BY <1>1, <3>1, LeastNat, Zenon
  <2>2. k \in 0 .. N /\ g[k] # h[k] /\ k # 0
    BY <1>0, <2>1, Zenon
  <2>3. k - 1 \in 0 .. N /\ k - 1 \notin T
    BY <2>1, <2>2
  <2>4. g[k - 1] = h[k - 1]
    BY <2>3
  <2>. QED BY <1>0, <2>2, <2>4, Zenon
<1>2. \A n \in 0 .. N : g[n] = h[n]
  BY <1>1
<1>. QED BY <1>0, <1>2

\* Nothing has been executed of no frags, and a frag adds its transactions.
LEMMA TxsOfEmpty == TxsOf(<<>>) = <<>>
<1>1. Len(<<>>) = 0 /\ \A i \in 1 .. Len(<<>>) : <<>>[i].txs \in Seq(Tx)
  OBVIOUS
<1>2. PICK g \in [0 .. Len(<<>>) -> Seq(Tx)] : UpTo(g, <<>>)
  BY <1>1, UpToExists, Zenon
<1>3. UpTo(CHOOSE x : UpTo(x, <<>>), <<>>)
  BY <1>2
<1>. DEFINE c == CHOOSE x : UpTo(x, <<>>)
<1>4. TxsOf(<<>>) = c[0]
  BY <1>1, TxsOfIsUpTo
<1>. HIDE DEF c
<1>5. c[0] = <<>>
  BY <1>1, <1>3 DEF UpTo, c
<1>. QED BY <1>4, <1>5

LEMMA TxsOfAppend ==
    ASSUME NEW frags \in Seq(Frag), NEW f \in Frag
    PROVE  /\ TxsOf(frags) \in Seq(Tx)
           /\ TxsOf(Append(frags, f)) = TxsOf(frags) \o f.txs
<1>. DEFINE N == Len(frags)
            fs == Append(frags, f)
            c == CHOOSE x : UpTo(x, frags)
            d == CHOOSE x : UpTo(x, fs)
            r == [n \in 0 .. N |-> d[n]]
<1>0. \A x \in Frag : x.txs \in Seq(Tx)
  BY MessageAssumption DEF Frag
<1>1. /\ N \in Nat /\ fs \in Seq(Frag) /\ Len(fs) = N + 1
      /\ fs[N + 1] = f /\ \A i \in 1 .. N : fs[i] = frags[i]
  BY AppendProperties, LenProperties
<1>2. /\ \A i \in 1 .. N : frags[i].txs \in Seq(Tx)
      /\ \A i \in 1 .. N + 1 : fs[i].txs \in Seq(Tx)
  BY <1>0, <1>1
<1>. HIDE DEF fs
<1>3. UpTo(c, frags) /\ \E g \in [0 .. N -> Seq(Tx)] : UpTo(g, frags)
  BY <1>1, <1>2, UpToExists
<1>4. UpTo(d, fs)
  BY <1>1, <1>2, UpToExists
<1>5. TxsOf(frags) = c[N] /\ TxsOf(fs) = d[N + 1]
  BY <1>1, TxsOfIsUpTo
<1>. HIDE DEF c, d
<1>6. d[0] = <<>> /\ \A n \in 1 .. N + 1 : d[n] = d[n - 1] \o fs[n].txs
  <2>1. \A n \in 0 .. N + 1 : d[n] = IF n = 0 THEN <<>> ELSE d[n - 1] \o fs[n].txs
    BY <1>1, <1>4, Zenon DEF UpTo
  <2>2. 0 \in 0 .. N + 1 /\ \A n \in 1 .. N + 1 : n \in 0 .. N + 1 /\ n # 0
    BY <1>1
  <2>. QED BY <2>1, <2>2, Zenon
<1>7. UpTo(r, frags)
  <2>1. ASSUME NEW n \in 0 .. N
        PROVE  r[n] = IF n = 0 THEN <<>> ELSE r[n - 1] \o frags[n].txs
    <3>1. CASE n = 0
      BY <1>1, <1>6, <3>1
    <3>2. CASE n # 0
      <4>1. n \in 1 .. N /\ n - 1 \in 0 .. N /\ n \in 1 .. N + 1
        BY <1>1, <3>2
      <4>2. r[n] = d[n] /\ r[n - 1] = d[n - 1] /\ fs[n] = frags[n]
        BY <1>1, <4>1
      <4>. QED BY <1>6, <3>2, <4>1, <4>2, Zenon
    <3>. QED BY <3>1, <3>2
  <2>2. r = [n \in 0 .. N |-> r[n]]
    OBVIOUS
  <2>. HIDE DEF r
  <2>3. r = [n \in 0 .. N |-> IF n = 0 THEN <<>> ELSE r[n - 1] \o frags[n].txs]
    BY <2>1, <2>2
  <2>. QED BY <2>3 DEF UpTo
<1>8. r = c
  BY <1>1, <1>3, <1>7, UpToUnique
<1>9. c[N] = d[N] /\ c[N] \in Seq(Tx)
  <2>1. N \in 0 .. N
    BY <1>1
  <2>2. r[N] = d[N]
    BY <2>1
  <2>3. PICK g \in [0 .. N -> Seq(Tx)] : UpTo(g, frags)
    BY <1>3
  <2>4. g = c
    BY <1>1, <1>3, <2>3, UpToUnique
  <2>. QED BY <1>8, <2>1, <2>2, <2>3, <2>4
<1>10. d[N + 1] = d[N] \o f.txs
  <2>1. N + 1 \in 1 .. N + 1 /\ N + 1 - 1 = N
    BY <1>1
  <2>2. PICK n \in 1 .. N + 1 : n = N + 1 /\ n - 1 = N
    BY <2>1
  <2>3. d[n] = d[n - 1] \o fs[n].txs
    BY <1>6, Zenon
  <2>. QED BY <1>1, <2>2, <2>3, Zenon
<1>. QED BY <1>5, <1>9, <1>10 DEF fs

\* No transaction is in txs twice.
NoRepeat(txs) == \A i, j \in DOMAIN txs : txs[i] = txs[j] => i = j

LEMMA NoRepeatConcat ==
    ASSUME NEW s \in Seq(Tx), NEW t \in Seq(Tx), NoRepeat(s), NoRepeat(t),
           TxSet(s) \cap TxSet(t) = {}
    PROVE  NoRepeat(s \o t)
<1>. DEFINE c == s \o t
            m == Len(s)
            n == Len(t)
<1>1. /\ m \in Nat /\ n \in Nat /\ DOMAIN s = 1 .. m /\ DOMAIN t = 1 .. n
      /\ DOMAIN c = 1 .. m + n
      /\ \A i \in 1 .. m + n : c[i] = IF i <= m THEN s[i] ELSE t[i - m]
  BY ConcatProperties, LenProperties
<1>. HIDE DEF c, m, n
<1>. SUFFICES ASSUME NEW i \in 1 .. m + n, NEW j \in 1 .. m + n, c[i] = c[j] PROVE i = j
  BY <1>1, Zenon DEF NoRepeat, c
<1>2. ASSUME NEW k \in 1 .. m + n
      PROVE  \/ k \in 1 .. m /\ c[k] = s[k] /\ c[k] \in TxSet(s)
             \/ k - m \in 1 .. n /\ c[k] = t[k - m] /\ c[k] \in TxSet(t)
  <2>1. CASE k <= m
    <3>1. k \in 1 .. m /\ c[k] = s[k]
      BY <1>1, <2>1
    <3>. QED BY <1>1, <3>1 DEF TxSet
  <2>2. CASE ~(k <= m)
    <3>1. k - m \in 1 .. n /\ c[k] = t[k - m]
      BY <1>1, <2>2
    <3>. QED BY <1>1, <3>1, Zenon DEF TxSet
  <2>. QED BY <2>1, <2>2
<1>3. CASE c[i] \in TxSet(s)
  <2>1. i \in 1 .. m /\ j \in 1 .. m /\ s[i] = s[j]
    BY <1>2, <1>3
  <2>. QED BY <1>1, <2>1 DEF NoRepeat
<1>4. CASE c[i] \notin TxSet(s)
  <2>1. i - m \in 1 .. n /\ j - m \in 1 .. n /\ t[i - m] = t[j - m]
    BY <1>2, <1>4
  <2>2. i - m = j - m
    BY <1>1, <2>1, Zenon DEF NoRepeat
  <2>. QED BY <1>1, <2>2
<1>. QED BY <1>3, <1>4

\* A frag is executed on the state of the open block, and added to its frags.
LEMMA InsertMatches ==
    ASSUME GethTypeOK, StateMatchesOpenBlock, NEW f \in Frag, CanExecuteFrag(f), InsertNewFrag(f)
    PROVE  StateMatchesOpenBlock'
<1>. SUFFICES ASSUME NEW u \in unsealed', NEW t \in unsealedState'
              PROVE  t.parent = u.env.parent /\ t.txs = TxsOf(u.frags) /\ NoRepeat(t.txs)
  BY DEF StateMatchesOpenBlock, NoRepeat
<1>1. PICK ub \in unsealed : u = AddFrag(ub, f)
  BY DEF InsertNewFrag
<1>2. PICK st \in unsealedState : t = ExecuteFrag(st, f)
  BY DEF InsertNewFrag
<1>3. /\ ub \in OpenBlock /\ ub.frags \in Seq(Frag)
      /\ st \in OpenState /\ st.txs \in Seq(Tx) /\ f.txs \in Seq(Tx)
  BY MessageAssumption, Zenon DEF GethTypeOK, OpenBlock, OpenState, Frag
<1>4. st.parent = ub.env.parent /\ st.txs = TxsOf(ub.frags) /\ NoRepeat(st.txs)
  BY DEF StateMatchesOpenBlock, NoRepeat
<1>5. u.env = ub.env /\ u.frags = Append(ub.frags, f)
  BY <1>1, <1>3, AddFragType, Zenon
<1>6. t.parent = st.parent /\ t.txs = st.txs \o f.txs
  BY <1>2, <1>3, ExecuteFragType, Zenon
<1>7. NoRepeat(f.txs) /\ TxSet(st.txs) \cap TxSet(f.txs) = {}
  <2>1. Executes(History(st.parent) \cup TxSet(st.txs), f.txs, GasLimit)
    BY DEF CanExecuteFrag, GethTypeOK
  <2>. QED BY <2>1 DEF Executes, NoRepeat
<1>8. TxsOf(u.frags) = TxsOf(ub.frags) \o f.txs
  BY <1>3, <1>5, TxsOfAppend, Zenon
<1>9. NoRepeat(t.txs)
  BY <1>3, <1>4, <1>6, <1>7, NoRepeatConcat
<1>. QED BY <1>4, <1>5, <1>6, <1>8, <1>9

\* RPC reads are served from the transactions of the open block's frags, each once
\* and in order, on its parent: whatever was refused, reset or reopened before.
THEOREM StateIsTheOpenBlocks == GethSpec => []StateMatchesOpenBlock
<1>1. GethInit => StateMatchesOpenBlock
  BY DEF GethInit, StateMatchesOpenBlock
<1>2. GethTypeOK /\ StateMatchesOpenBlock /\ [GethNext]_gethVars => StateMatchesOpenBlock'
  <2>. SUFFICES ASSUME GethTypeOK, StateMatchesOpenBlock, [GethNext]_gethVars
                PROVE  StateMatchesOpenBlock'
    OBVIOUS
  <2>0. ASSUME ResetCurrentUnsealedBlock PROVE StateMatchesOpenBlock'
    BY <2>0 DEF ResetCurrentUnsealedBlock, StateMatchesOpenBlock
  <2>1. ASSUME NEW m \in Message, EnvV0(m) PROVE StateMatchesOpenBlock'
    <3>1. CASE SetCurrentUnsealedBlock(m)
      <4>1. ASSUME NEW u \in unsealed', NEW t \in unsealedState'
            PROVE  t.parent = u.env.parent /\ t.txs = <<>> /\ u.frags = <<>>
        BY <3>1 DEF SetCurrentUnsealedBlock
      <4>. QED BY <4>1, TxsOfEmpty DEF StateMatchesOpenBlock
    <3>. QED BY <2>0, <2>1, <3>1 DEF EnvV0
  <2>2. ASSUME NEW m \in Message, NewFragV0(m) PROVE StateMatchesOpenBlock'
    <3>1. CASE newFragV0OK(m) /\ InsertNewFrag(m)
      BY <2>2, <3>1, InsertMatches DEF NewFragV0, newFragV0OK, Frag
    <3>. QED BY <2>0, <2>2, <3>1 DEF NewFragV0
  <2>3. ASSUME NEW m \in Message, SealFragV0(m) PROVE StateMatchesOpenBlock'
    BY <2>0, <2>3 DEF SealFragV0
  <2>4. ASSUME UNCHANGED <<unsealed, unsealedState>> PROVE StateMatchesOpenBlock'
    BY <2>4 DEF StateMatchesOpenBlock
  <2>5. ASSUME NEW h \in Payload, newPayload(h) \/ forkchoiceUpdated(h)
        PROVE  StateMatchesOpenBlock'
    BY <2>4, <2>5 DEF newPayload, forkchoiceUpdated
  <2>6. CASE UNCHANGED gethVars
    BY <2>4, <2>6 DEF gethVars
  <2>. QED BY <2>1, <2>2, <2>3, <2>5, <2>6 DEF GethNext
<1>. QED BY <1>1, <1>2, GethTypeCorrect, PTL DEF GethSpec
=============================================================================
