-------------------------- MODULE SequencerProofs --------------------------
(***************************************************************************)
(* Proofs about the gateway's sequencer and its database, for any blocks,  *)
(* engine calls, transactions and attributes: the pending blocks stay      *)
(* sorted, the head moves back for forks only, what is gossiped is a       *)
(* sequence of whole blocks, and what is sealed is what was preconfirmed.  *)
(***************************************************************************)
EXTENDS Sequencer, WellFoundedInduction, TLAPS

(***************************************************************************)
(* Sequences, as far as the proofs below need them.                        *)
(***************************************************************************)
\* The empty sequence, and any other.
LEMMA EmptySeq ==
    ASSUME NEW A
    PROVE  <<>> \in Seq(A) /\ Len(<<>>) = 0 /\ \A s \in Seq(A) : s # <<>> => Len(s) \in Nat \ {0}
OBVIOUS

\* A sequence is a function on its positions.
LEMMA LenProperties ==
    ASSUME NEW A, NEW s \in Seq(A)
    PROVE  Len(s) \in Nat /\ DOMAIN s = 1 .. Len(s) /\ s \in [1 .. Len(s) -> A]
OBVIOUS

\* Concatenation, position by position.
LEMMA ConcatProperties ==
    ASSUME NEW A, NEW s \in Seq(A), NEW t \in Seq(A)
    PROVE  /\ s \o t \in Seq(A) /\ Len(s \o t) = Len(s) + Len(t)
           /\ \A i \in 1 .. Len(s) + Len(t) :
                 (s \o t)[i] = IF i <= Len(s) THEN s[i] ELSE t[i - Len(s)]
OBVIOUS

\* A subsequence, position by position.
LEMMA SubSeqProperties ==
    ASSUME NEW A, NEW s, NEW k \in Int, NEW l \in Int, \A i \in k .. l : s[i] \in A
    PROVE  /\ SubSeq(s, k, l) \in Seq(A)
           /\ Len(SubSeq(s, k, l)) = IF k <= l THEN l - k + 1 ELSE 0
           /\ \A i \in 1 .. l - k + 1 : SubSeq(s, k, l)[i] = s[k + i - 1]
OBVIOUS

\* One element more.
LEMMA AppendProperties ==
    ASSUME NEW A, NEW s \in Seq(A), NEW x \in A
    PROVE  /\ Append(s, x) \in Seq(A) /\ Append(s, x) # <<>> /\ Len(Append(s, x)) = Len(s) + 1
           /\ Append(s, x)[Len(s) + 1] = x /\ \A i \in 1 .. Len(s) : Append(s, x)[i] = s[i]
OBVIOUS

\* The whole of a sequence.
LEMMA SubSeqFull ==
    ASSUME NEW A, NEW s \in Seq(A) PROVE SubSeq(s, 1, Len(s)) = s
OBVIOUS

\* Sequences that agree everywhere are equal.
LEMMA SeqEqual ==
    ASSUME NEW A, NEW s \in Seq(A), NEW t \in Seq(A), Len(s) = Len(t),
           \A i \in 1 .. Len(s) : s[i] = t[i]
    PROVE  s = t
OBVIOUS

\* A subsequence of nothing.
LEMMA SubSeqEmpty ==
    ASSUME NEW s, NEW k \in Int, NEW l \in Int, l < k PROVE SubSeq(s, k, l) = <<>>
OBVIOUS

-----------------------------------------------------------------------------

\* The least counterexample of an inductive argument.
LEMMA LeastNat ==
    ASSUME NEW T, T \subseteq Nat, T # {}
    PROVE  \E m \in T : \A k \in T : m <= k
<1>. DEFINE R == OpToRel(<, Nat)
<1>1. IsWellFoundedOn(R, Nat)
  BY NatLessThanWellFounded, Zenon
<1>2. \A x, y \in Nat : <<x, y>> \in R <=> x < y
  BY DEF OpToRel
<1>. HIDE DEF R
<1>3. PICK x \in T : \A y \in T : ~(<<y, x>> \in R)
  BY <1>1, WFMin, Zenon
<1>4. ASSUME NEW y \in T PROVE x <= y
  <2>1. x \in Nat /\ y \in Nat
    OBVIOUS
  <2>2. ~(y < x)
    BY <1>2, <1>3, <2>1, Zenon
  <2>. QED BY <2>1, <2>2
<1>. QED BY <1>3, <1>4

\* A proper hash, and what is left of one.
NonGenesis == Hash \ {<<>>}

\* A prefix of a hash is a hash, of the length asked for.
LEMMA PrefixType ==
  ASSUME NEW h \in Hash, NEW n \in Nat, n <= Len(h)
  PROVE  SubSeq(h, 1, n) \in Hash /\ Len(SubSeq(h, 1, n)) = n
<1>1. \A i \in 1 .. n : h[i] \in Content
  BY DEF Hash
<1>. QED BY <1>1, SubSeqProperties DEF Hash

\* The parent of a block is a hash one shorter.
LEMMA ParentType ==
  ASSUME NEW h \in NonGenesis
  PROVE  Parent(h) \in Hash /\ Len(Parent(h)) = Len(h) - 1 /\ Len(h) \in Nat \ {0}
<1>1. h \in Seq(Content) /\ h # <<>>
  BY DEF NonGenesis, Hash
<1>2. Len(h) \in Nat \ {0}
  BY <1>1, EmptySeq, LenProperties
<1>3. h \in Hash /\ Len(h) - 1 \in Nat /\ Len(h) - 1 <= Len(h)
  BY <1>1, <1>2 DEF Hash
<1>4. SubSeq(h, 1, Len(h) - 1) \in Hash /\ Len(SubSeq(h, 1, Len(h) - 1)) = Len(h) - 1
  BY <1>3, PrefixType, Zenon
<1>. QED BY <1>2, <1>4 DEF Parent

\* Cutting off the tail of the pending blocks keeps the rest in place.
LEMMA PendingPrefix ==
  ASSUME NEW p \in Seq(NonGenesis), NEW n \in Nat, n <= Len(p)
  PROVE  /\ SubSeq(p, 1, n) \in Seq(NonGenesis)
         /\ Len(SubSeq(p, 1, n)) = n
         /\ \A i \in 1 .. n : SubSeq(p, 1, n)[i] = p[i]
<1>1. \A i \in 1 .. n : p[i] \in NonGenesis
  OBVIOUS
<1>. QED BY <1>1, SubSeqProperties

\* Where insert_pending_block puts the block, and what becomes of the others.
LEMMA Inserted ==
  ASSUME NEW p \in Seq(NonGenesis), NEW b \in NonGenesis, NEW i \in 1 .. Len(p) + 1
  PROVE  LET q == SubSeq(p, 1, i - 1) \o <<b>> \o SubSeq(p, i, Len(p))
         IN  /\ q \in Seq(NonGenesis)
             /\ Len(q) = Len(p) + 1
             /\ \A j \in 1 .. Len(q) :
                   q[j] = IF j < i THEN p[j] ELSE IF j = i THEN b ELSE p[j - 1]
<1>. DEFINE l == SubSeq(p, 1, i - 1)
            r == SubSeq(p, i, Len(p))
<1>1. Len(p) \in Nat /\ \A j \in 1 .. Len(p) : p[j] \in NonGenesis
  BY LenProperties
<1>2. l \in Seq(NonGenesis) /\ Len(l) = i - 1 /\ \A j \in 1 .. i - 1 : l[j] = p[j]
  BY <1>1, PendingPrefix
<1>3. /\ r \in Seq(NonGenesis) /\ Len(r) = Len(p) - i + 1
      /\ \A j \in 1 .. Len(p) - i + 1 : r[j] = p[i + j - 1]
  <2>1. \A j \in i .. Len(p) : p[j] \in NonGenesis
    BY <1>1
  <2>. QED BY <1>1, <2>1, SubSeqProperties
<1>4. <<b>> \in Seq(NonGenesis) /\ Len(<<b>>) = 1 /\ <<b>>[1] = b
  OBVIOUS
<1>. HIDE DEF l, r
<1>5. /\ l \o <<b>> \in Seq(NonGenesis) /\ Len(l \o <<b>>) = i
      /\ \A j \in 1 .. i : (l \o <<b>>)[j] = IF j < i THEN p[j] ELSE b
  BY <1>1, <1>2, <1>4, ConcatProperties
<1>6. /\ (l \o <<b>>) \o r \in Seq(NonGenesis)
      /\ Len((l \o <<b>>) \o r) = Len(p) + 1
      /\ \A j \in 1 .. Len(p) + 1 :
            ((l \o <<b>>) \o r)[j] = IF j <= i THEN (l \o <<b>>)[j] ELSE r[j - i]
  <2>. DEFINE lb == l \o <<b>>
  <2>1. lb \in Seq(NonGenesis) /\ Len(lb) = i
    BY <1>5
  <2>. HIDE DEF lb
  <2>2. /\ lb \o r \in Seq(NonGenesis) /\ Len(lb \o r) = Len(lb) + Len(r)
        /\ \A j \in 1 .. Len(lb) + Len(r) :
              (lb \o r)[j] = IF j <= Len(lb) THEN lb[j] ELSE r[j - Len(lb)]
    BY <1>3, <2>1, ConcatProperties, Zenon
  <2>3. Len(lb) + Len(r) = Len(p) + 1
    BY <1>1, <1>3, <2>1
  <2>. QED BY <2>1, <2>2, <2>3 DEF lb
<1>7. \A j \in 1 .. Len(p) + 1 :
         ((l \o <<b>>) \o r)[j] = IF j < i THEN p[j] ELSE IF j = i THEN b ELSE p[j - 1]
  <2>. SUFFICES ASSUME NEW j \in 1 .. Len(p) + 1
                PROVE  ((l \o <<b>>) \o r)[j]
                          = IF j < i THEN p[j] ELSE IF j = i THEN b ELSE p[j - 1]
    BY Zenon
  <2>1. CASE j <= i
    BY <1>1, <1>5, <1>6, <2>1
  <2>2. CASE j > i
    <3>1. j - i \in 1 .. Len(p) - i + 1 /\ i + (j - i) - 1 = j - 1
      BY <1>1, <2>2
    <3>2. r[j - i] = p[j - 1]
      BY <1>3, <3>1
    <3>. QED BY <1>1, <1>6, <2>2, <3>2
  <2>3. j <= i \/ j > i
    BY <1>1
  <2>. QED BY <2>1, <2>2, <2>3, Zenon
<1>. QED BY <1>6, <1>7, Zenon DEF l, r

-----------------------------------------------------------------------------
(***************************************************************************)
(* The inductive invariant: the types and the order of the pending blocks. *)
(***************************************************************************)
SyncInv == SyncTypeOK /\ PendingSorted

\* insert_pending_block keeps pending_blocks a sorted list of blocks: whichever
\* block of the same number the binary search hits.
LEMMA InsertSorted ==
  ASSUME SyncInv, NEW b \in NonGenesis, insert_pending_block(b)
  PROVE  pendingBlocks' \in Seq(NonGenesis) /\ PendingSorted'
<1>. DEFINE p == pendingBlocks
<1>1. p \in Seq(NonGenesis) /\ Len(p) \in Nat /\ DOMAIN p = 1 .. Len(p)
  BY LenProperties DEF SyncInv, SyncTypeOK, NonGenesis
<1>2. \A j \in 1 .. Len(p) : Number(p[j]) \in Nat
  BY <1>1, LenProperties DEF NonGenesis, Hash, Number
<1>3. Number(b) \in Nat
  BY LenProperties DEF NonGenesis, Hash, Number
<1>4. PICK i \in PendingIndices(b) :
         p' = SubSeq(p, 1, i - 1) \o <<b>> \o SubSeq(p, i, Len(p))
  BY Zenon DEF insert_pending_block
<1>5. /\ i \in 1 .. Len(p) + 1
      /\ \A j \in 1 .. Len(p) : j < i => Number(p[j]) >= Number(b)
      /\ \A j \in 1 .. Len(p) : j >= i => Number(p[j]) <= Number(b)
  <2>. DEFINE equal == {j \in DOMAIN p : Number(p[j]) = Number(b)}
              above == {j \in DOMAIN p : Number(p[j]) > Number(b)}
  <2>1. CASE equal # {}
    <3>1. i \in equal
      BY <1>4, <2>1 DEF PendingIndices
    <3>. QED BY <1>1, <1>2, <1>3, <3>1 DEF SyncInv, PendingSorted
  <2>2. CASE equal = {}
    <3>1. i \in 1 .. Len(p) + 1 /\ above = 1 .. i - 1
      BY <1>4, <2>2 DEF PendingIndices
    <3>2. \A j \in 1 .. Len(p) : j < i <=> Number(p[j]) > Number(b)
      <4>1. \A j \in 1 .. Len(p) : j \in above <=> Number(p[j]) > Number(b)
        BY <1>1
      <4>. HIDE DEF p, above
      <4>. QED BY <1>1, <3>1, <4>1
    <3>. HIDE DEF p
    <3>. QED BY <1>1, <1>2, <1>3, <3>1, <3>2
  <2>. QED BY <2>1, <2>2
<1>6. /\ p' \in Seq(NonGenesis) /\ Len(p') = Len(p) + 1
      /\ \A j \in 1 .. Len(p') :
            p'[j] = IF j < i THEN p[j] ELSE IF j = i THEN b ELSE p[j - 1]
  <2>. DEFINE q == SubSeq(p, 1, i - 1) \o <<b>> \o SubSeq(p, i, Len(p))
  <2>1. /\ q \in Seq(NonGenesis) /\ Len(q) = Len(p) + 1
        /\ \A j \in 1 .. Len(q) :
              q[j] = IF j < i THEN p[j] ELSE IF j = i THEN b ELSE p[j - 1]
    <3>1. p \in Seq(NonGenesis) /\ i \in 1 .. Len(p) + 1
      BY <1>1, <1>5
    <3>. HIDE DEF p
    <3>. QED BY <3>1, Inserted, Zenon
  <2>2. p' = q
    BY <1>4
  <2>. HIDE DEF p, q
  <2>. QED BY <2>1, <2>2
<1>7. DOMAIN p' = 1 .. Len(p) + 1
  BY <1>6, LenProperties
<1>. HIDE DEF p
<1>8. ASSUME NEW j \in 1 .. Len(p) + 1, NEW m \in 1 .. Len(p) + 1, j < m
      PROVE  Number(p'[j]) >= Number(p'[m])
  <2>1. \A x, y \in 1 .. Len(p) : x < y => Number(p[x]) >= Number(p[y])
    BY <1>1 DEF SyncInv, PendingSorted, p
  <2>2. CASE m < i
    BY <1>1, <1>5, <1>6, <1>8, <2>1, <2>2
  <2>3. CASE m = i
    BY <1>1, <1>5, <1>6, <1>8, <2>3
  <2>4. CASE m > i /\ j = i
    <3>1. m - 1 \in 1 .. Len(p) /\ p'[j] = b /\ p'[m] = p[m - 1]
      BY <1>1, <1>5, <1>6, <2>4
    <3>2. Number(p[m - 1]) <= Number(b) /\ Number(p[m - 1]) \in Nat
      BY <1>1, <1>2, <1>5, <2>4, <3>1
    <3>. QED BY <1>3, <3>1, <3>2
  <2>5. CASE m > i /\ j > i
    BY <1>1, <1>5, <1>6, <1>8, <2>1, <2>5
  <2>6. CASE m > i /\ j < i
    <3>1. /\ j \in 1 .. Len(p) /\ m - 1 \in 1 .. Len(p)
          /\ p'[j] = p[j] /\ p'[m] = p[m - 1]
      BY <1>1, <1>5, <1>6, <2>6
    <3>2. Number(p[j]) >= Number(b) /\ Number(p[m - 1]) <= Number(b)
      BY <1>1, <1>5, <2>6, <3>1
    <3>3. Number(p[j]) \in Nat /\ Number(p[m - 1]) \in Nat
      BY <1>2, <3>1
    <3>. QED BY <1>3, <3>1, <3>2, <3>3
  <2>. QED BY <1>1, <1>5, <2>2, <2>3, <2>4, <2>5, <2>6
<1>. QED BY <1>6, <1>7, <1>8 DEF PendingSorted, p

\* Popping from the end keeps pending_blocks a sorted list of blocks.
LEMMA PopSorted ==
  ASSUME SyncInv, NEW n \in Nat, n <= Len(pendingBlocks),
         pendingBlocks' = SubSeq(pendingBlocks, 1, n)
  PROVE  pendingBlocks' \in Seq(NonGenesis) /\ PendingSorted'
<1>1. pendingBlocks \in Seq(NonGenesis) /\ DOMAIN pendingBlocks = 1 .. Len(pendingBlocks)
  BY LenProperties DEF SyncInv, SyncTypeOK, NonGenesis
<1>2. /\ pendingBlocks' \in Seq(NonGenesis) /\ Len(pendingBlocks') = n
      /\ \A i \in 1 .. n : pendingBlocks'[i] = pendingBlocks[i]
  BY <1>1, PendingPrefix
<1>3. DOMAIN pendingBlocks' = 1 .. n
  BY <1>2, LenProperties
<1>. QED BY <1>1, <1>2, <1>3 DEF SyncInv, PendingSorted

\* The blocks commit_block looks at while it drains pending_blocks are blocks.
LEMMA DrainTypes ==
  ASSUME SyncInv, NEW b \in NonGenesis, NEW k \in 0 .. Len(pendingBlocks)
  PROVE  /\ HeadAfter(b, k) \in NonGenesis
         /\ k < Len(pendingBlocks) => Popped(k + 1) \in NonGenesis
<1>1. pendingBlocks \in Seq(NonGenesis) /\ Len(pendingBlocks) \in Nat
  BY LenProperties DEF SyncInv, SyncTypeOK, NonGenesis
<1>2. \A i \in 1 .. Len(pendingBlocks) : Popped(i) \in NonGenesis
  BY <1>1 DEF Popped
<1>. QED BY <1>1, <1>2 DEF HeadAfter

\* What CommitReorg rolls back to is two below the block, and exists.
LEMMA ReorgDepth ==
  ASSUME SyncInv, NEW b \in NonGenesis,
         Number(b) <= Number(db) + 1, Parent(b) # RolledBack(b)
  PROVE  /\ Parent(RolledBack(b)) \in Hash
         /\ Number(Parent(RolledBack(b))) = Number(b) - 2
         /\ Number(b) \in Nat /\ Number(b) >= 2
<1>1. db \in Hash /\ Len(db) \in Nat
  BY LenProperties DEF SyncInv, SyncTypeOK, Hash
<1>2. Len(b) \in Nat \ {0}
  BY ParentType
<1>3. Len(b) # 1
  <2>. SUFFICES ASSUME Len(b) = 1 PROVE FALSE
    OBVIOUS
  <2>1. Parent(b) = <<>> /\ RolledBack(b) = <<>>
    BY SubSeqEmpty DEF Parent, RolledBack, Number
  <2>. QED BY <2>1
<1>4. RolledBack(b) \in Hash /\ Len(RolledBack(b)) = Len(b) - 1
  <2>1. Len(b) - 1 \in Nat /\ Len(b) - 1 <= Len(db)
    BY <1>1, <1>2 DEF Number
  <2>. QED BY <1>1, <2>1, PrefixType, Zenon DEF RolledBack, Number
<1>5. RolledBack(b) \in NonGenesis
  BY <1>2, <1>3, <1>4 DEF NonGenesis
<1>. QED BY <1>2, <1>3, <1>4, <1>5, ParentType DEF Number

\* Every call of commit_block preserves the invariant, and what it returns has the
\* block that the head needs next.
LEMMA CommitBlockStep ==
  ASSUME SyncInv, NEW b \in NonGenesis, commit_block(b)
  PROVE  SyncInv' /\ NextBlockRequested'
<1>1. /\ db \in Hash /\ Number(db) \in Nat
      /\ pendingBlocks \in Seq(NonGenesis) /\ Len(pendingBlocks) \in Nat
      /\ PendingSorted
  BY LenProperties DEF SyncInv, SyncTypeOK, Hash, NonGenesis, Number
<1>2. Number(b) \in Nat \ {0} /\ Parent(b) \in Hash
  BY ParentType DEF Number
<1>3. CASE CommitTooHigh(b)
  <2>1. pendingBlocks' \in Seq(NonGenesis) /\ PendingSorted'
    BY <1>3, InsertSorted DEF CommitTooHigh
  <2>2. /\ db' = db /\ blocksToFetch' = {<<Number(db) + 1, Number(b) - 1>>}
        /\ Number(b) > Number(db) + 1
    BY <1>3 DEF CommitTooHigh
  <2>3. NextBlockRequested'
    BY <1>1, <1>2, <2>2 DEF NextBlockRequested
  <2>4. blocksToFetch' \subseteq Nat \X Nat
    BY <1>1, <1>2, <2>2
  <2>. QED BY <1>1, <2>1, <2>2, <2>3, <2>4 DEF SyncInv, SyncTypeOK, NonGenesis
<1>4. CASE CommitAgain(b)
  BY <1>1, <1>4 DEF CommitAgain, SyncInv, SyncTypeOK, NonGenesis, PendingSorted,
                    NextBlockRequested
<1>5. CASE CommitReorg(b)
  <2>1. pendingBlocks' \in Seq(NonGenesis) /\ PendingSorted'
    BY <1>5, InsertSorted DEF CommitReorg
  <2>2. /\ db' \in Hash /\ Number(db') = Number(b) - 2 /\ Number(b) >= 2
        /\ blocksToFetch' = {<<Number(b) - 2, Number(b)>>}
    BY <1>5, ReorgDepth DEF CommitReorg
  <2>3. NextBlockRequested'
    BY <1>2, <2>2 DEF NextBlockRequested
  <2>4. blocksToFetch' \subseteq Nat \X Nat
    BY <1>2, <2>2
  <2>. QED BY <2>1, <2>2, <2>3, <2>4 DEF SyncInv, SyncTypeOK, NonGenesis
<1>6. CASE CommitNext(b)
  <2>1. PICK k \in 0 .. Len(pendingBlocks) :
           /\ db' = HeadAfter(b, k)
           /\ pendingBlocks' = SubSeq(pendingBlocks, 1, Len(pendingBlocks) - k)
    BY <1>6 DEF CommitNext
  <2>2. Len(pendingBlocks) - k \in Nat /\ Len(pendingBlocks) - k <= Len(pendingBlocks)
    BY <1>1
  <2>3. pendingBlocks' \in Seq(NonGenesis) /\ PendingSorted'
    BY <2>1, <2>2, PopSorted
  <2>4. db' \in Hash
    BY <2>1, DrainTypes DEF NonGenesis
  <2>5. blocksToFetch' = {}
    BY <1>6 DEF CommitNext
  <2>. QED BY <2>3, <2>4, <2>5 DEF SyncInv, SyncTypeOK, NonGenesis, NextBlockRequested
<1>7. CASE CommitMismatch(b)
  <2>1. PICK k \in 0 .. Len(pendingBlocks) :
           /\ Mismatch(b, k)
           /\ db' = Parent(HeadAfter(b, k))
           /\ pendingBlocks' = SubSeq(pendingBlocks, 1, Len(pendingBlocks) - k - 1)
           /\ blocksToFetch' = {<<Number(Popped(k + 1)) - 1, Number(Popped(k + 1))>>}
    BY <1>7 DEF CommitMismatch
  <2>2. k < Len(pendingBlocks) /\ Number(Popped(k + 1)) = Number(HeadAfter(b, k)) + 1
    BY <2>1 DEF Mismatch
  <2>3. /\ Len(pendingBlocks) - k - 1 \in Nat
        /\ Len(pendingBlocks) - k - 1 <= Len(pendingBlocks)
    BY <1>1, <2>2
  <2>4. pendingBlocks' \in Seq(NonGenesis) /\ PendingSorted'
    BY <2>1, <2>3, PopSorted
  <2>5. /\ db' \in Hash /\ Number(db') = Number(HeadAfter(b, k)) - 1
        /\ Number(HeadAfter(b, k)) \in Nat \ {0}
    BY <2>1, DrainTypes, ParentType, Zenon DEF Number
  <2>6. NextBlockRequested'
    BY <2>1, <2>2, <2>5 DEF NextBlockRequested
  <2>7. blocksToFetch' \subseteq Nat \X Nat
    BY <2>1, <2>2, <2>5
  <2>. QED BY <2>4, <2>5, <2>6, <2>7 DEF SyncInv, SyncTypeOK, NonGenesis
<1>. QED BY <1>3, <1>4, <1>5, <1>6, <1>7 DEF commit_block

\* The invariant holds at the start.
LEMMA SyncInitInv == SyncInit => SyncInv /\ NextBlockRequested
<1>. SUFFICES ASSUME SyncInit PROVE SyncInv /\ NextBlockRequested
  OBVIOUS
<1>1. db \in Hash /\ pendingBlocks = <<>> /\ blocksToFetch = {}
  BY BlockAssumption DEF SyncInit
<1>2. DOMAIN pendingBlocks = {}
  BY <1>1
<1>3. PendingSorted
  BY <1>2 DEF PendingSorted
<1>. QED BY <1>1, <1>3 DEF SyncInv, SyncTypeOK, NextBlockRequested

\* Every step preserves the invariant.
LEMMA SyncNextInv ==
  SyncInv /\ NextBlockRequested /\ [SyncNext]_syncVars => (SyncInv /\ NextBlockRequested)'
<1>. SUFFICES ASSUME SyncInv, NextBlockRequested, [SyncNext]_syncVars
              PROVE  (SyncInv /\ NextBlockRequested)'
  OBVIOUS
<1>1. CASE SyncNext
  <2>1. PICK b \in Block : commit_block(b)
    BY <1>1 DEF SyncNext
  <2>2. b \in NonGenesis
    BY BlockAssumption DEF NonGenesis
  <2>. QED BY <2>1, <2>2, CommitBlockStep
<1>2. CASE UNCHANGED syncVars
  BY <1>2 DEF syncVars, SyncInv, SyncTypeOK, PendingSorted, NextBlockRequested
<1>. QED BY <1>1, <1>2

\* The database, the pending blocks and the ranges always have their types.
THEOREM SyncTypeCorrect == SyncSpec => []SyncTypeOK
<1>1. SyncInv => SyncTypeOK
  BY DEF SyncInv
<1>. QED BY <1>1, SyncInitInv, SyncNextInv, PTL DEF SyncSpec

\* pending_blocks is always sorted in reverse order, for every set of blocks, chains
\* and forks, and every order in which commit_block is given them.
THEOREM PendingAlwaysSorted == SyncSpec => []PendingSorted
<1>1. SyncInv => PendingSorted
  BY DEF SyncInv
<1>. QED BY <1>1, SyncInitInv, SyncNextInv, PTL DEF SyncSpec

\* The range commit_block returns always has the block that the head needs next,
\* however far the database was rolled back.
THEOREM NextBlockAlwaysRequested == SyncSpec => []NextBlockRequested
BY SyncInitInv, SyncNextInv, PTL DEF SyncSpec

-----------------------------------------------------------------------------
(***************************************************************************)
(* The head moves back for a block of another chain only.                  *)
(***************************************************************************)
LEMMA SelfAncestor ==
  ASSUME NEW h \in Hash
  PROVE  h \in Ancestors(h)
<1>1. h \in Seq(Content) /\ Len(h) \in 0 .. Len(h)
  BY LenProperties DEF Hash
<1>2. SubSeq(h, 1, Len(h)) = h
  BY <1>1, SubSeqFull
<1>. QED BY <1>1, <1>2, Zenon DEF Ancestors

\* What is below the parent is below the block.
LEMMA AncestorOfParent ==
  ASSUME NEW h \in NonGenesis, NEW a \in Ancestors(Parent(h))
  PROVE  a \in Ancestors(h)
<1>. DEFINE m == Len(h) - 1
<1>1. Parent(h) \in Hash /\ Len(Parent(h)) = m /\ m \in Nat /\ Len(h) = m + 1
  BY ParentType
<1>2. h \in Seq(Content) /\ Parent(h) = SubSeq(h, 1, m)
  BY DEF NonGenesis, Hash, Parent
<1>. HIDE DEF m
<1>3. PICK n \in 0 .. m : a = SubSeq(Parent(h), 1, n)
  BY <1>1 DEF Ancestors
<1>4. SubSeq(SubSeq(h, 1, m), 1, n) = SubSeq(h, 1, n)
  <2>1. \A i \in 1 .. m : h[i] \in Content
    BY <1>1, <1>2
  <2>. DEFINE p == SubSeq(h, 1, m)
  <2>2. p \in Seq(Content) /\ Len(p) = m /\ \A i \in 1 .. m : p[i] = h[i]
    BY <1>1, <2>1, SubSeqProperties
  <2>. HIDE DEF p
  <2>3. \A i \in 1 .. n : p[i] \in Content /\ h[i] \in Content /\ p[i] = h[i]
    BY <1>1, <2>1, <2>2
  <2>4. /\ SubSeq(p, 1, n) \in Seq(Content) /\ Len(SubSeq(p, 1, n)) = n
        /\ \A i \in 1 .. n : SubSeq(p, 1, n)[i] = p[i]
    BY <1>1, <2>2, <2>3, SubSeqProperties
  <2>5. /\ SubSeq(h, 1, n) \in Seq(Content) /\ Len(SubSeq(h, 1, n)) = n
        /\ \A i \in 1 .. n : SubSeq(h, 1, n)[i] = h[i]
    BY <1>1, <1>2, <2>3, SubSeqProperties
  <2>6. SubSeq(p, 1, n) = SubSeq(h, 1, n)
    BY <2>3, <2>4, <2>5, SeqEqual
  <2>. QED BY <2>6, Zenon DEF p
<1>5. n \in 0 .. Len(h)
  BY <1>1
<1>. QED BY <1>2, <1>3, <1>4, <1>5, Zenon DEF Ancestors

\* A block that is next and extends the head has the head as its parent.
LEMMA NextOnHead ==
  ASSUME SyncInv, NEW b \in NonGenesis, Number(b) <= Number(db) + 1, ~AlreadyCommitted(b),
         db \in Ancestors(b)
  PROVE  Parent(b) = db /\ RolledBack(b) = db
<1>1. db \in Hash /\ db \in Seq(Content) /\ Len(db) \in Nat
  BY LenProperties DEF SyncInv, SyncTypeOK, Hash
<1>2. b \in Hash /\ b \in Seq(Content) /\ Len(b) \in Nat
  BY LenProperties DEF NonGenesis, Hash
<1>3. PICK n \in 0 .. Len(b) : db = SubSeq(b, 1, n)
  BY DEF Ancestors
<1>4. Len(db) = n
  BY <1>2, <1>3, PrefixType
<1>5. n # Len(b)
  <2>1. n = Len(b) => db = b
    BY <1>2, <1>3, SubSeqFull
  <2>. QED BY <1>1, <2>1, SelfAncestor DEF AlreadyCommitted
<1>6. Len(b) - 1 = n
  BY <1>1, <1>2, <1>4, <1>5 DEF Number
<1>7. SubSeq(db, 1, n) = db
  BY <1>1, <1>4, SubSeqFull
<1>. QED BY <1>3, <1>6, <1>7 DEF Parent, RolledBack, Number

\* The pending blocks that are executed on b are above it.
LEMMA DrainExtends ==
  ASSUME SyncInv, NEW b \in NonGenesis, NEW k \in 0 .. Len(pendingBlocks),
         \A i \in 1 .. k : Linked(b, i), Parent(b) = db
  PROVE  \A i \in 0 .. k : db \in Ancestors(Parent(HeadAfter(b, i)))
<1>. DEFINE T == {i \in 0 .. k : db \notin Ancestors(Parent(HeadAfter(b, i)))}
<1>. SUFFICES ASSUME T # {} PROVE FALSE
  OBVIOUS
<1>0. Len(pendingBlocks) \in Nat /\ db \in Hash
  BY LenProperties DEF SyncInv, SyncTypeOK
<1>1. PICK m \in T : \A i \in T : m <= i
  <2>1. T \subseteq Nat
    BY <1>0
  <2>. HIDE DEF T
  <2>. QED BY <2>1, LeastNat, Zenon
<1>2. m \in 0 .. k /\ db \notin Ancestors(Parent(HeadAfter(b, m)))
  BY <1>1
<1>3. m # 0
  <2>1. HeadAfter(b, 0) = b
    BY DEF HeadAfter
  <2>. QED BY <1>0, <1>2, <2>1, SelfAncestor
<1>4. m \in 1 .. k /\ m - 1 \in 0 .. k /\ m - 1 \notin T /\ m - 1 \in 0 .. Len(pendingBlocks)
  BY <1>0, <1>1, <1>2, <1>3
<1>5. db \in Ancestors(Parent(HeadAfter(b, m - 1)))
  BY <1>4
<1>6. HeadAfter(b, m - 1) \in NonGenesis
  BY <1>4, DrainTypes
<1>7. db \in Ancestors(HeadAfter(b, m - 1))
  BY <1>5, <1>6, AncestorOfParent
<1>8. Parent(HeadAfter(b, m)) = HeadAfter(b, m - 1)
  <2>1. Linked(b, m) /\ HeadAfter(b, m) = Popped(m)
    BY <1>3, <1>4 DEF HeadAfter
  <2>. QED BY <2>1 DEF Linked
<1>. QED BY <1>2, <1>7, <1>8

\* commit_block never moves the head back for a block on its chain, below or above it.
THEOREM HeadMovesBackForForksOnly == SyncSpec => RollsBackForAnotherChainOnly
<1>. DEFINE A == \A b \in Block :
                    /\ commit_block(b)
                    /\ b \in Ancestors(db) \/ db \in Ancestors(b)
                    => db \in Ancestors(db')
<1>1. SyncInv /\ [SyncNext]_syncVars => [A]_syncVars
  <2>. SUFFICES ASSUME SyncInv, NEW b \in Block, commit_block(b),
                       b \in Ancestors(db) \/ db \in Ancestors(b)
                PROVE  db \in Ancestors(db')
    OBVIOUS
  <2>0. b \in NonGenesis /\ db \in Hash
    BY BlockAssumption DEF NonGenesis, SyncInv, SyncTypeOK
  <2>1. CASE CommitTooHigh(b) \/ CommitAgain(b)
    BY <2>0, <2>1, SelfAncestor DEF CommitTooHigh, CommitAgain
  <2>2. CASE CommitReorg(b)
    <3>1. Parent(b) = db /\ RolledBack(b) = db
      BY <2>0, <2>2, NextOnHead DEF CommitReorg, AlreadyCommitted
    <3>. QED BY <2>2, <3>1 DEF CommitReorg
  <2>3. CASE CommitNext(b) \/ CommitMismatch(b)
    <3>1. Parent(b) = db
      BY <2>0, <2>3, NextOnHead DEF CommitNext, CommitMismatch, IsNextBlock, AlreadyCommitted
    <3>2. PICK k \in 0 .. Len(pendingBlocks) :
             Drains(b, k) /\ (db' = HeadAfter(b, k) \/ db' = Parent(HeadAfter(b, k)))
      BY <2>3 DEF CommitNext, CommitMismatch
    <3>3. Len(pendingBlocks) \in Nat
      BY LenProperties DEF SyncInv, SyncTypeOK
    <3>4. db \in Ancestors(Parent(HeadAfter(b, k)))
      BY <2>0, <3>1, <3>2, <3>3, DrainExtends DEF Drains
    <3>5. HeadAfter(b, k) \in NonGenesis
      BY <2>0, DrainTypes
    <3>. QED BY <3>2, <3>4, <3>5, AncestorOfParent
  <2>. QED BY <2>1, <2>2, <2>3 DEF commit_block
<1>. QED BY <1>1, SyncInitInv, SyncNextInv, PTL DEF SyncSpec, RollsBackForAnotherChainOnly

-----------------------------------------------------------------------------
(***************************************************************************)
(* The gossip.                                                             *)
(***************************************************************************)
Last(e) == IF e = <<>> THEN <<>> ELSE e[Len(e)]

\* e is a sequence of messages in which each may follow the one before.
Whole(e) ==
    /\ e \in Seq(TxSet(e))
    /\ \A i \in DOMAIN e : MayFollow(IF i = 1 THEN <<>> ELSE e[i - 1], e[i])

\* While a block is being sorted the last message is of that block, and is its env or
\* the frag before the next.
Open(p) ==
    /\ p # <<>>
    /\ p.block = Number(parent) + 1
    /\ \/ p.type = "env" /\ fragSeq.nextSeq = 0
       \/ p.type = "frag" /\ ~p.last /\ fragSeq.nextSeq = p.seq + 1

\* Otherwise the last message, if there is one, is a seal.
Closed(p) == p = <<>> \/ p.type = "seal"

GossipInv ==
    /\ Whole(emitted)
    /\ fragSeq.nextSeq \in Nat
    /\ state = "Sorting" => Open(Last(emitted))
    /\ state # "Sorting" => Closed(Last(emitted))

\* A message that may follow the last one is added.
LEMMA AppendWhole ==
    ASSUME NEW e, Whole(e), NEW m, MayFollow(Last(e), m)
    PROVE  Whole(Append(e, m)) /\ Last(Append(e, m)) = m
<1> DEFINE S == TxSet(e)
           n == Len(e)
           f == Append(e, m)
<1>1. /\ e \in Seq(S \cup {m}) /\ n \in Nat /\ DOMAIN e = 1 .. n
      /\ e = <<>> <=> n = 0
  BY DEF Whole
<1>2. /\ f \in Seq(S \cup {m}) /\ Len(f) = n + 1 /\ DOMAIN f = 1 .. n + 1
      /\ f[n + 1] = m /\ \A i \in 1 .. n : f[i] = e[i]
      /\ f # <<>>
  BY <1>1
<1>3. TxSet(f) = S \cup {m}
  BY <1>1, <1>2 DEF TxSet
<1>4. Last(f) = m
  BY <1>2 DEF Last
<1>5. ASSUME NEW i \in DOMAIN f PROVE MayFollow(IF i = 1 THEN <<>> ELSE f[i - 1], f[i])
  <2>1. CASE i = n + 1
    <3>1. Last(e) = IF i = 1 THEN <<>> ELSE f[i - 1]
      <4>1. i - 1 = n /\ (i = 1 <=> n = 0)
        BY <1>1, <2>1
      <4>2. n # 0 => n \in 1 .. n
        BY <1>1
      <4>3. n # 0 => f[n] = e[n]
        BY <1>2, <4>2
      <4> HIDE DEF f
      <4> QED BY <1>1, <4>1, <4>3 DEF Last
    <3> QED BY <1>2, <2>1, <3>1
  <2>2. CASE i \in 1 .. n
    <3>1. f[i] = e[i] /\ (i # 1 => f[i - 1] = e[i - 1])
      BY <1>1, <1>2, <2>2
    <3> QED BY <1>1, <2>2, <3>1, Zenon DEF Whole
  <2> QED BY <1>1, <1>2, <1>5, <2>1, <2>2
<1> QED BY <1>2, <1>3, <1>4, <1>5 DEF Whole

\* What is left alone while nothing is gossiped.
LEMMA QuietStep ==
    ASSUME GossipInv, UNCHANGED <<emitted, fragSeq, parent>>, state' = "Sorting" <=> state = "Sorting"
    PROVE  GossipInv'
BY DEF GossipInv, Open, Closed

\* A step outside of Sorting may also change the parent.
LEMMA OutsideStep ==
    ASSUME GossipInv, UNCHANGED <<emitted, fragSeq>>, state # "Sorting", state' # "Sorting"
    PROVE  GossipInv'
BY DEF GossipInv

\* An env is gossiped when sorting starts.
LEMMA EnvStep ==
    ASSUME GossipInv, state # "Sorting", NEW a, emitted' = Append(emitted, EnvMessage(a)),
           state' = "Sorting", fragSeq' = NoFrags, UNCHANGED parent
    PROVE  GossipInv'
<1> DEFINE m == EnvMessage(a)
<1>1. m.type = "env" /\ m.block = Number(parent) + 1 /\ m # <<>>
  BY DEF EnvMessage
<1>2. MayFollow(Last(emitted), m)
  BY <1>1 DEF GossipInv, Closed, MayFollow
<1> HIDE DEF m
<1>3. Whole(emitted') /\ Last(emitted') = m
  BY <1>2, AppendWhole DEF GossipInv, m
<1> QED BY <1>1, <1>3 DEF GossipInv, Open, NoFrags

\* The next frag of the block may follow, and the seal may follow the last frag.
LEMMA FragFollows ==
    ASSUME GossipInv, state = "Sorting", NEW last \in BOOLEAN
    PROVE  /\ MayFollow(Last(emitted), FragMessage(last))
           /\ FragMessage(last) # <<>>
           /\ FragMessage(last).block = Number(parent) + 1
           /\ FragMessage(last).type = "frag" /\ FragMessage(last).last = last
           /\ FragMessage(last).seq = fragSeq.nextSeq
<1> DEFINE m == FragMessage(last)
<1>1. /\ m.type = "frag" /\ m.block = Number(parent) + 1
      /\ m.last = last /\ m.seq = fragSeq.nextSeq /\ m # <<>>
  BY DEF FragMessage
<1> HIDE DEF m
<1>2. MayFollow(Last(emitted), m)
  BY <1>1 DEF GossipInv, Open, MayFollow
<1> QED BY <1>1, <1>2 DEF m

LEMMA TickStep ==
    ASSUME GossipInv, TickSealFrag
    PROVE  GossipInv'
<1> DEFINE m == FragMessage(FALSE)
<1>1. /\ MayFollow(Last(emitted), m) /\ m # <<>> /\ m.block = Number(parent) + 1
      /\ m.type = "frag" /\ ~ m.last /\ m.seq = fragSeq.nextSeq
  BY FragFollows, Zenon DEF TickSealFrag
<1>2. emitted' = Append(emitted, m) /\ state' = "Sorting" /\ parent' = parent
  BY DEF TickSealFrag
<1>3. fragSeq'.nextSeq = fragSeq.nextSeq + 1
  BY DEF TickSealFrag, FragSealed
<1> HIDE DEF m
<1>4. Whole(emitted') /\ Last(emitted') = m
  BY <1>1, <1>2, AppendWhole DEF GossipInv
<1> QED BY <1>1, <1>2, <1>3, <1>4 DEF GossipInv, Open

\* getPayload gossips the last frag and the seal.
LEMMA SealStep ==
    ASSUME GossipInv, state = "Sorting", state' # "Sorting", fragSeq' = NoFrags,
           emitted' = emitted \o <<FragMessage(TRUE), SealMessage>>
    PROVE  GossipInv'
<1> DEFINE f == FragMessage(TRUE)
           s == SealMessage
<1>1. /\ MayFollow(Last(emitted), f) /\ f # <<>> /\ f.block = Number(parent) + 1
      /\ f.type = "frag" /\ f.last /\ f.seq = fragSeq.nextSeq
  BY FragFollows, Zenon
<1>2. s.type = "seal" /\ s.block = Number(parent) + 1 /\ s.total = fragSeq.nextSeq + 1
  BY DEF SealMessage, FragSealed
<1>3. emitted' = emitted \o <<f, s>>
  OBVIOUS
<1> HIDE DEF f, s
<1>4. MayFollow(f, s)
  BY <1>1, <1>2 DEF MayFollow
<1>5. emitted \o <<f, s>> = Append(Append(emitted, f), s)
  <2>1. emitted \in Seq(TxSet(emitted) \cup {f, s})
    BY DEF GossipInv, Whole
  <2> QED BY <2>1
<1>6. Whole(Append(emitted, f)) /\ Last(Append(emitted, f)) = f
  BY <1>1, AppendWhole DEF GossipInv
<1>7. Whole(emitted') /\ Last(emitted') = s
  BY <1>3, <1>4, <1>5, <1>6, AppendWhole, Zenon
<1> QED BY <1>2, <1>7 DEF GossipInv, Closed, NoFrags

-----------------------------------------------------------------------------
LEMMA PayloadInv ==
    ASSUME GossipInv, NEW b, handle_new_payload_engine_api(b)
    PROVE  GossipInv'
<1>1. CASE NewPayloadAhead(b) \/ NewPayloadIsHead(b) \/ NewPayloadCommit(b)
  BY <1>1, OutsideStep
     DEF NewPayloadAhead, NewPayloadIsHead, NewPayloadCommit, Waiting, Becomes, sync_until, ctxVars
<1>2. CASE IgnoredCall
  BY <1>2, QuietStep DEF IgnoredCall, ctxVars
<1> QED BY <1>1, <1>2 DEF handle_new_payload_engine_api

LEMMA ForkchoiceInv ==
    ASSUME GossipInv, NEW h, NEW attrs, handle_fork_choice_updated_engine_api(h, attrs)
    PROVE  GossipInv'
<1>1. CASE IgnoredCall
  BY <1>1, QuietStep DEF IgnoredCall, ctxVars
<1>2. CASE ForkchoiceAtHead(attrs)
  <2>1. CASE Waiting /\ Becomes("WaitingForForkChoiceWithAttributes") /\ UNCHANGED ctxVars
    BY <2>1, QuietStep DEF Waiting, Becomes, ctxVars
  <2>2. ASSUME NEW a \in attrs, Waiting, start_sequencing(a),
               emitted' = Append(emitted, EnvMessage(a)), Becomes("Sorting")
        PROVE  GossipInv'
    BY <2>2, EnvStep DEF Waiting, start_sequencing, Becomes
  <2>3. CASE UNCHANGED <<state, lastBlockNumber, ctxVars, requests>>
    BY <2>3, QuietStep DEF ctxVars
  <2> QED BY <1>2, <2>1, <2>2, <2>3 DEF ForkchoiceAtHead
<1> QED BY <1>1, <1>2 DEF handle_fork_choice_updated_engine_api

LEMMA GetPayloadInv ==
    ASSUME GossipInv, handle_get_payload_engine_api
    PROVE  GossipInv'
<1>1. CASE IgnoredCall
  BY <1>1, QuietStep DEF IgnoredCall, ctxVars
<1>2. CASE ~ IgnoredCall
  <2>1. /\ state = "Sorting" /\ fragSeq' = NoFrags
        /\ emitted' = emitted \o <<FragMessage(TRUE), SealMessage>>
        /\ CommitSealed \/ Becomes("WaitingForNewPayload")
    BY <1>2, Zenon DEF handle_get_payload_engine_api
  <2>2. state' # "Sorting"
    BY <2>1 DEF CommitSealed, Becomes
  <2> QED BY <2>1, <2>2, SealStep
<1> QED BY <1>1, <1>2

LEMMA BlockSyncInv ==
    ASSUME GossipInv, NEW b, handle_block_sync(b)
    PROVE  GossipInv'
<1>1. UNCHANGED <<fragSeq, emitted>>
  BY DEF handle_block_sync
<1>2. CASE SyncingBlock(b) \/ WaitingBlock(b)
  BY <1>1, <1>2, OutsideStep DEF SyncingBlock, WaitingBlock, Waiting, Becomes, sync_until
<1>3. CASE UNCHANGED <<syncVars, state, lastBlockNumber, parent, requests>>
  BY <1>1, <1>3, QuietStep
<1> QED BY <1>2, <1>3 DEF handle_block_sync

LEMMA GossipStep == GossipInv /\ [SequencerNext]_sequencerVars => GossipInv'
<1>. SUFFICES ASSUME GossipInv, [SequencerNext]_sequencerVars PROVE GossipInv'
  OBVIOUS
<1>1. CASE EngineCalls
  BY <1>1, PayloadInv, ForkchoiceInv, GetPayloadInv DEF EngineCalls
<1>2. CASE Tick
  BY <1>2, TickStep, QuietStep, Zenon DEF Tick, TickApply
<1>3. CASE \E b \in Block : handle_block_sync(b)
  BY <1>3, BlockSyncInv
<1>4. CASE UNCHANGED sequencerVars
  BY <1>4, QuietStep DEF sequencerVars, ctxVars
<1>. QED BY <1>1, <1>2, <1>3, <1>4 DEF SequencerNext

\* Whatever the engine API is called with, whatever blocks are fetched and whichever
\* transactions are sorted, the gossip is a sequence of whole blocks.
THEOREM GossipIsWhole == SequencerSpec => []GossipWellFormed
<1>1. SequencerInit => GossipInv
  BY DEF SequencerInit, GossipInv, Whole, Last, Closed, NoFrags, TxSet
<1>2. GossipInv => GossipWellFormed
  BY Zenon DEF GossipInv, Whole, GossipWellFormed
<1> QED BY <1>1, <1>2, GossipStep, PTL DEF SequencerSpec

-----------------------------------------------------------------------------
(***************************************************************************)
(* The transactions of the frags after the last env, as FraggedTxs         *)
(* computes them: g is its recursive function for the first n messages of  *)
(* e.                                                                      *)
(***************************************************************************)
Fragged(g, e, n) ==
    g = [k \in 0 .. n |->
            IF k = 0 \/ e[k].type = "env" THEN <<>>
            ELSE IF e[k].type = "frag" THEN g[k - 1] \o e[k].txs
            ELSE g[k - 1]]

TxsUpTo(e, n) == (CHOOSE g : Fragged(g, e, n))[n]

\* What a message makes of the transactions so far.
After(txs, m) ==
    IF m.type = "env" THEN <<>> ELSE IF m.type = "frag" THEN txs \o m.txs ELSE txs

\* The frags among the first n messages hold transactions.
FragTxs(e, n) == \A i \in 1 .. n : e[i].type = "frag" => e[i].txs \in Seq(Tx)

LEMMA FraggedTxsIsUpTo ==
    ASSUME NEW n PROVE FraggedTxs(n) = TxsUpTo(emitted, n)
BY DEF FraggedTxs, TxsUpTo, Fragged

LEMMA FraggedSteps ==
    ASSUME NEW n \in Nat, NEW e, NEW g, Fragged(g, e, n)
    PROVE  g[0] = <<>> /\ \A k \in 1 .. n : g[k] = After(g[k - 1], e[k])
<1>1. \A k \in 0 .. n : g[k] = IF k = 0 \/ e[k].type = "env" THEN <<>>
                               ELSE IF e[k].type = "frag" THEN g[k - 1] \o e[k].txs
                               ELSE g[k - 1]
  BY Zenon DEF Fragged
<1>2. 0 \in 0 .. n /\ \A k \in 1 .. n : k \in 0 .. n /\ k # 0
  OBVIOUS
<1>. QED BY <1>1, <1>2, Zenon DEF After

LEMMA FraggedExists ==
    ASSUME NEW n \in Nat, NEW e, FragTxs(e, n)
    PROVE  \E g \in [0 .. n -> Seq(Tx)] : Fragged(g, e, n)
<1>. DEFINE Sums(g, k) == /\ g \in [0 .. k -> Seq(Tx)] /\ g[0] = <<>>
                          /\ \A i \in 1 .. k : g[i] = After(g[i - 1], e[i])
            T == {k \in 0 .. n : \A g : ~Sums(g, k)}
<1>1. ASSUME T # {} PROVE FALSE
  <2>1. PICK m \in Nat : m \in T /\ \A k \in T : m <= k
    <3>1. T \subseteq Nat
      <4>. HIDE DEF Sums
      <4>. QED OBVIOUS
    <3>. HIDE DEF T
    <3>. QED BY <1>1, <3>1, LeastNat, Zenon
  <2>2. m \in 0 .. n /\ \A g : ~Sums(g, m)
    <3>. HIDE DEF Sums
    <3>. QED BY <2>1
  <2>3. m # 0
    <3>1. Sums([i \in 0 .. 0 |-> <<>>], 0)
      OBVIOUS
    <3>. HIDE DEF Sums
    <3>. QED BY <2>2, <3>1
  <2>4. m \in 1 .. n /\ m - 1 \in 0 .. n
    BY <2>2, <2>3
  <2>5. PICK g : Sums(g, m - 1)
    <3>1. m - 1 \notin T
      <4>. HIDE DEF T
      <4>. QED BY <2>1, <2>4
    <3>. HIDE DEF Sums
    <3>. QED BY <2>4, <3>1
  <2>. DEFINE x == After(g[m - 1], e[m])
              h == [i \in 0 .. m |-> IF i = m THEN x ELSE g[i]]
  <2>6. x \in Seq(Tx)
    <3>1. g[m - 1] \in Seq(Tx)
      BY <2>4, <2>5
    <3>. QED BY <2>4, <3>1 DEF FragTxs, After
  <2>7. /\ h[m] = x /\ h[0] = g[0] /\ DOMAIN h = 0 .. m
        /\ \A i \in 0 .. m - 1 : h[i] = g[i]
    <3>. HIDE DEF x
    <3>. QED BY <2>4
  <2>8. h \in [0 .. m -> Seq(Tx)]
    <3>1. \A i \in 0 .. m - 1 : g[i] \in Seq(Tx)
      BY <2>5
    <3>. HIDE DEF x
    <3>. QED BY <2>4, <2>6, <3>1
  <2>9. ASSUME NEW i \in 1 .. m PROVE h[i] = After(h[i - 1], e[i])
    <3>1. i - 1 \in 0 .. m - 1 /\ (i = m \/ (i \in 1 .. m - 1 /\ i \in 0 .. m - 1))
      BY <2>4
    <3>2. h[i - 1] = g[i - 1]
      BY <2>7, <3>1
    <3>. HIDE DEF h
    <3>3. CASE i = m
      BY <2>7, <3>2, <3>3
    <3>4. CASE i \in 1 .. m - 1 /\ i \in 0 .. m - 1
      BY <2>5, <2>7, <3>2, <3>4
    <3>. QED BY <3>1, <3>3, <3>4
  <2>. HIDE DEF h
  <2>10. Sums(h, m)
    BY <2>5, <2>7, <2>8, <2>9
  <2>. HIDE DEF Sums
  <2>. QED BY <2>2, <2>10
<1>2. PICK g : Sums(g, n)
  <2>1. n \in 0 .. n
    OBVIOUS
  <2>. HIDE DEF Sums
  <2>. QED BY <1>1, <2>1
<1>3. ASSUME NEW k \in 0 .. n
      PROVE  g[k] = IF k = 0 \/ e[k].type = "env" THEN <<>>
                    ELSE IF e[k].type = "frag" THEN g[k - 1] \o e[k].txs
                    ELSE g[k - 1]
  <2>1. k = 0 => g[k] = <<>>
    BY <1>2
  <2>2. k # 0 => g[k] = After(g[k - 1], e[k])
    BY <1>2
  <2>. QED BY <2>1, <2>2, Zenon DEF After
<1>4. Fragged(g, e, n)
  BY <1>2, <1>3, Zenon DEF Fragged
<1>. QED BY <1>2, <1>4

Agree(e, f, n) == \A i \in 1 .. n : e[i] = f[i]

LEMMA FraggedUnique ==
    ASSUME NEW n \in Nat, NEW e, NEW g, Fragged(g, e, n), NEW h, Fragged(h, e, n)
    PROVE  g = h
<1>. DEFINE T == {k \in 0 .. n : g[k] # h[k]}
<1>0. /\ g[0] = <<>> /\ \A k \in 1 .. n : g[k] = After(g[k - 1], e[k])
      /\ h[0] = <<>> /\ \A k \in 1 .. n : h[k] = After(h[k - 1], e[k])
  BY FraggedSteps
<1>1. ASSUME T # {} PROVE FALSE
  <2>1. PICK k \in T : \A l \in T : k <= l
    <3>1. T \subseteq Nat
      OBVIOUS
    <3>. HIDE DEF T
    <3>. QED BY <1>1, <3>1, LeastNat, Zenon
  <2>2. k \in 1 .. n /\ g[k] # h[k]
    BY <1>0, <2>1
  <2>3. k - 1 \in 0 .. n /\ k - 1 \notin T
    BY <2>1, <2>2
  <2>4. g[k - 1] = h[k - 1]
    BY <2>3
  <2>. QED BY <1>0, <2>2, <2>4
<1>2. g = [k \in 0 .. n |-> g[k]] /\ h = [k \in 0 .. n |-> h[k]]
  BY DEF Fragged
<1>3. \A k \in 0 .. n : g[k] = h[k]
  BY <1>1
<1>. QED BY <1>2, <1>3

\* Only the first messages matter for the first values.
LEMMA FraggedPrefix ==
    ASSUME NEW m \in Nat, NEW n \in Nat, m <= n, NEW e, NEW f, Agree(e, f, m),
           NEW h, Fragged(h, f, n)
    PROVE  Fragged([k \in 0 .. m |-> h[k]], e, m)
<1>. DEFINE g == [k \in 0 .. m |-> h[k]]
<1>1. h[0] = <<>> /\ \A k \in 1 .. n : h[k] = After(h[k - 1], f[k])
  BY FraggedSteps
<1>2. ASSUME NEW k \in 0 .. m
      PROVE  g[k] = IF k = 0 \/ e[k].type = "env" THEN <<>>
                    ELSE IF e[k].type = "frag" THEN g[k - 1] \o e[k].txs
                    ELSE g[k - 1]
  <2>1. CASE k = 0
    BY <1>1, <2>1
  <2>2. CASE k # 0
    <3>1. k \in 1 .. n /\ k \in 1 .. m /\ k - 1 \in 0 .. m
      BY <2>2
    <3>2. h[k] = After(h[k - 1], e[k])
      BY <1>1, <3>1 DEF Agree
    <3>3. g[k] = h[k] /\ g[k - 1] = h[k - 1]
      BY <3>1
    <3>. HIDE DEF g
    <3>. QED BY <2>2, <3>2, <3>3 DEF After
  <2>. QED BY <2>1, <2>2
<1>3. g = [k \in 0 .. m |-> g[k]]
  OBVIOUS
<1>. HIDE DEF g
<1>4. Fragged(g, e, m)
  BY <1>2, <1>3 DEF Fragged
<1>. QED BY <1>4 DEF g

LEMMA TxsUpToIs ==
    ASSUME NEW n \in Nat, NEW e, FragTxs(e, n), NEW g, Fragged(g, e, n)
    PROVE  TxsUpTo(e, n) = g[n] /\ g[n] \in Seq(Tx)
<1>. DEFINE c == CHOOSE x : Fragged(x, e, n)
<1>1. PICK h \in [0 .. n -> Seq(Tx)] : Fragged(h, e, n)
  BY FraggedExists
<1>2. Fragged(c, e, n) /\ TxsUpTo(e, n) = c[n]
  BY <1>1 DEF TxsUpTo
<1>. HIDE DEF c
<1>3. c = g /\ h = g
  BY <1>1, <1>2, FraggedUnique
<1>. QED BY <1>1, <1>2, <1>3

\* The messages after the first n do not matter, and message n + 1 adds to what is
\* before it.
LEMMA TxsUpToAgree ==
    ASSUME NEW n \in Nat, NEW e, NEW f, FragTxs(e, n), Agree(e, f, n)
    PROVE  TxsUpTo(e, n) = TxsUpTo(f, n) /\ TxsUpTo(e, n) \in Seq(Tx)
<1>1. FragTxs(f, n) /\ n <= n /\ n \in 0 .. n
  BY DEF FragTxs, Agree
<1>2. PICK h \in [0 .. n -> Seq(Tx)] : Fragged(h, f, n)
  BY <1>1, FraggedExists
<1>. DEFINE g == [k \in 0 .. n |-> h[k]]
<1>3. Fragged(g, e, n)
  BY <1>1, <1>2, FraggedPrefix
<1>4. g[n] = h[n]
  BY <1>1
<1>. HIDE DEF g
<1>. QED BY <1>1, <1>2, <1>3, <1>4, TxsUpToIs

LEMMA TxsUpToNext ==
    ASSUME NEW n \in Nat, NEW e, FragTxs(e, n + 1)
    PROVE  TxsUpTo(e, n + 1) = After(TxsUpTo(e, n), e[n + 1])
<1>0. PICK m \in Nat : m = n + 1 /\ m - 1 = n
  OBVIOUS
<1>1. /\ FragTxs(e, n) /\ FragTxs(e, m) /\ Agree(e, e, n)
      /\ n <= m /\ n \in 0 .. n /\ m \in 1 .. m
  BY <1>0 DEF FragTxs, Agree
<1>2. PICK h \in [0 .. m -> Seq(Tx)] : Fragged(h, e, m)
  BY <1>1, FraggedExists
<1>. DEFINE g == [k \in 0 .. n |-> h[k]]
<1>3. Fragged(g, e, n)
  BY <1>1, <1>2, FraggedPrefix, Zenon
<1>4. g[n] = h[n]
  BY <1>1
<1>. HIDE DEF g
<1>5. TxsUpTo(e, n) = g[n] /\ TxsUpTo(e, m) = h[m]
  BY <1>1, <1>2, <1>3, TxsUpToIs
<1>6. h[m] = After(h[m - 1], e[m])
  BY <1>1, <1>2, FraggedSteps
<1>. QED BY <1>0, <1>4, <1>5, <1>6

-----------------------------------------------------------------------------
(***************************************************************************)
(* While a block is sorted, its env and the frags after it are what the    *)
(* sequencer will seal.                                                    *)
(***************************************************************************)
\* Message j is the last env of the first n.
LastEnv(e, n, j) ==
    j \in 1 .. n /\ e[j].type = "env" /\ \A k \in j + 1 .. n : e[k].type # "env"

BlockOf(e, n, j) == Append(e[j].parent, [time |-> e[j].time, txs |-> TxsUpTo(e, n)])

SealsKept(e) ==
    \A i \in 1 .. Len(e) :
        e[i].type = "seal" => \E j : LastEnv(e, i, j) /\ e[i].hash = BlockOf(e, i, j)

\* With attributes a and parent p, txs are what the frags of the block so far hold.
Preconfirmed(e, a, p, txs) ==
    /\ TxsUpTo(e, Len(e)) = txs
    /\ \E j : LastEnv(e, Len(e), j) /\ e[j].parent = p /\ e[j].time = a.time

SealInv ==
    /\ GossipInv
    /\ FragTxs(emitted, Len(emitted))
    /\ SealsKept(emitted)
    /\ fragSeq.txs \in Seq(Tx)
    /\ sorting \in [txs : Seq(Tx), committed : Nat]
    /\ state = "Sorting" =>
          \E a \in Attributes : attributes = {a} /\ Preconfirmed(emitted, a, parent, fragSeq.txs)

LEMMA EnvAtIs ==
    ASSUME NEW i \in Nat, NEW j, LastEnv(emitted, i, j)
    PROVE  EnvAt(i) = j
<1>1. ASSUME NEW k \in 1 .. i, emitted[k].type = "env", \A l \in k + 1 .. i : emitted[l].type # "env"
      PROVE  k = j
  <2>1. j \in 1 .. i /\ emitted[j].type = "env" /\ \A l \in j + 1 .. i : emitted[l].type # "env"
    BY DEF LastEnv
  <2>2. ~(j < k) /\ ~(k < j)
    BY <1>1, <2>1
  <2>. QED BY <2>1, <2>2
<1>. QED BY <1>1 DEF LastEnv, EnvAt

\* A message is added: the ones before it stay what they were.
LEMMA AppendMessage ==
    ASSUME NEW e, e \in Seq(TxSet(e)), FragTxs(e, Len(e)), NEW m, m.type = "frag" => m.txs \in Seq(Tx)
    PROVE  LET f == Append(e, m)
           IN  /\ Len(f) = Len(e) + 1 /\ Len(e) \in Nat /\ f[Len(f)] = m
               /\ FragTxs(f, Len(f))
               /\ Agree(f, e, Len(e))
               /\ TxsUpTo(f, Len(f)) = After(TxsUpTo(e, Len(e)), m)
               /\ \A i \in 0 .. Len(e) : TxsUpTo(f, i) = TxsUpTo(e, i)
<1>. DEFINE n == Len(e)
            f == Append(e, m)
            S == TxSet(e) \cup {m}
<1>1. e \in Seq(S) /\ m \in S
  OBVIOUS
<1>2. /\ n \in Nat /\ Len(f) = n + 1 /\ f[n + 1] = m
      /\ \A i \in 1 .. n : f[i] = e[i]
  BY <1>1, AppendProperties, LenProperties
<1>. HIDE DEF f, S
<1>3. Agree(f, e, n) /\ FragTxs(f, n + 1)
  BY <1>2 DEF Agree, FragTxs
<1>4. \A i \in 0 .. n : i \in Nat /\ Agree(f, e, i) /\ FragTxs(f, i)
  BY <1>2, <1>3 DEF Agree, FragTxs
<1>5. \A i \in 0 .. n : TxsUpTo(f, i) = TxsUpTo(e, i)
  BY <1>4, TxsUpToAgree
<1>6. TxsUpTo(f, n + 1) = After(TxsUpTo(f, n), f[n + 1])
  BY <1>2, <1>3, TxsUpToNext
<1>7. TxsUpTo(f, n) = TxsUpTo(e, n)
  BY <1>2, <1>5
<1>. QED BY <1>2, <1>3, <1>5, <1>6, <1>7 DEF f

LEMMA AppendKeepsSeals ==
    ASSUME NEW e, e \in Seq(TxSet(e)), FragTxs(e, Len(e)), SealsKept(e), NEW m,
           m.type = "frag" => m.txs \in Seq(Tx),
           m.type = "seal" => \E j : LastEnv(e, Len(e), j) /\ m.hash = BlockOf(e, Len(e), j)
    PROVE  SealsKept(Append(e, m))
<1>. DEFINE n == Len(e)
            f == Append(e, m)
<1>1. /\ Len(f) = n + 1 /\ n \in Nat /\ f[n + 1] = m
      /\ \A i \in 1 .. n : f[i] = e[i]
      /\ TxsUpTo(f, n + 1) = After(TxsUpTo(e, n), m)
      /\ \A i \in 0 .. n : TxsUpTo(f, i) = TxsUpTo(e, i)
  BY AppendMessage DEF Agree
<1>. HIDE DEF f, n
<1>. SUFFICES ASSUME NEW i \in 1 .. n + 1, f[i].type = "seal"
              PROVE  \E j : LastEnv(f, i, j) /\ f[i].hash = BlockOf(f, i, j)
  BY <1>1, Zenon DEF SealsKept, f
<1>2. CASE i \in 1 .. n
  <2>1. f[i] = e[i] /\ i \in 0 .. n
    BY <1>1, <1>2
  <2>2. PICK j : LastEnv(e, i, j) /\ e[i].hash = BlockOf(e, i, j)
    BY <1>2, <2>1, Zenon DEF SealsKept, n
  <2>3. j \in 1 .. n /\ j \in 1 .. i /\ \A k \in j + 1 .. i : k \in 1 .. n
    BY <1>1, <1>2, <2>2 DEF LastEnv
  <2>4. LastEnv(f, i, j)
    BY <1>1, <2>2, <2>3, Zenon DEF LastEnv
  <2>5. BlockOf(f, i, j) = BlockOf(e, i, j)
    BY <1>1, <2>1, <2>3, Zenon DEF BlockOf
  <2>. QED BY <2>1, <2>2, <2>4, <2>5, Zenon
<1>3. CASE i = n + 1
  <2>1. f[i] = m
    BY <1>1, <1>3, Zenon
  <2>2. PICK j : LastEnv(e, n, j) /\ m.hash = BlockOf(e, n, j)
    BY <2>1 DEF n
  <2>3. j \in 1 .. n /\ j \in 1 .. i /\ \A k \in j + 1 .. i : k \in j + 1 .. n \/ k = n + 1
    BY <1>1, <1>3, <2>2 DEF LastEnv
  <2>4. LastEnv(f, i, j)
    <3>1. \A k \in j + 1 .. n : k \in 1 .. n /\ f[k].type # "env"
      BY <1>1, <2>2, <2>3 DEF LastEnv
    <3>. QED BY <1>1, <1>3, <2>1, <2>2, <2>3, <3>1, Zenon DEF LastEnv
  <2>5. TxsUpTo(f, i) = TxsUpTo(e, n)
    BY <1>1, <1>3, <2>1, Zenon DEF After
  <2>6. BlockOf(f, i, j) = BlockOf(e, n, j)
    BY <1>1, <2>3, <2>5, Zenon DEF BlockOf
  <2>. QED BY <2>1, <2>2, <2>4, <2>6
<1>. QED BY <1>1, <1>2, <1>3

LEMMA EnvPreconfirms ==
    ASSUME NEW e, e \in Seq(TxSet(e)), FragTxs(e, Len(e)), NEW m, m.type = "env"
    PROVE  Preconfirmed(Append(e, m), m, m.parent, <<>>)
<1>. DEFINE n == Len(e)
            f == Append(e, m)
<1>1. /\ Len(f) = n + 1 /\ n \in Nat /\ f[n + 1] = m
      /\ TxsUpTo(f, n + 1) = After(TxsUpTo(e, n), m)
  BY AppendMessage
<1>. HIDE DEF f, n
<1>2. TxsUpTo(f, n + 1) = <<>>
  BY <1>1 DEF After
<1>3. LastEnv(f, n + 1, n + 1)
  BY <1>1 DEF LastEnv
<1>4. Preconfirmed(f, m, m.parent, <<>>)
  BY <1>1, <1>2, <1>3 DEF Preconfirmed
<1>. QED BY <1>4 DEF f

LEMMA FragPreconfirms ==
    ASSUME NEW e, e \in Seq(TxSet(e)), FragTxs(e, Len(e)), NEW a, NEW p, NEW txs,
           Preconfirmed(e, a, p, txs), NEW m, m.type = "frag", m.txs \in Seq(Tx)
    PROVE  Preconfirmed(Append(e, m), a, p, txs \o m.txs)
<1>. DEFINE n == Len(e)
            f == Append(e, m)
<1>1. /\ Len(f) = n + 1 /\ n \in Nat /\ f[n + 1] = m
      /\ \A i \in 1 .. n : f[i] = e[i]
      /\ TxsUpTo(f, n + 1) = After(TxsUpTo(e, n), m)
  BY AppendMessage DEF Agree
<1>2. PICK j : LastEnv(e, n, j) /\ e[j].parent = p /\ e[j].time = a.time
  BY Zenon DEF Preconfirmed
<1>3. TxsUpTo(e, n) = txs
  BY DEF Preconfirmed
<1>. HIDE DEF f, n
<1>4. TxsUpTo(f, n + 1) = txs \o m.txs
  BY <1>1, <1>3 DEF After
<1>5. j \in 1 .. n /\ j \in 1 .. n + 1 /\ \A k \in j + 1 .. n + 1 : k \in j + 1 .. n \/ k = n + 1
  BY <1>1, <1>2 DEF LastEnv
<1>6. \A k \in j + 1 .. n : k \in 1 .. n /\ f[k].type # "env"
  BY <1>1, <1>2, <1>5 DEF LastEnv
<1>7. f[j] = e[j] /\ f[j].type = "env"
  BY <1>1, <1>2, <1>5 DEF LastEnv
<1>8. LastEnv(f, n + 1, j)
  BY <1>1, <1>5, <1>6, <1>7, Zenon DEF LastEnv
<1>9. Preconfirmed(f, a, p, txs \o m.txs)
  BY <1>1, <1>2, <1>4, <1>7, <1>8, Zenon DEF Preconfirmed
<1>. QED BY <1>9 DEF f

\* The messages of the sequencer.
LEMMA FragMessageTxs ==
    ASSUME SealInv, NEW last
    PROVE  /\ FragMessage(last).type = "frag"
           /\ FragMessage(last).txs = sorting.txs /\ sorting.txs \in Seq(Tx)
BY DEF FragMessage, SealInv

LEMMA QuietSeal ==
    ASSUME SealInv, GossipInv', UNCHANGED <<emitted, fragSeq, parent, attributes>>,
           sorting' \in [txs : Seq(Tx), committed : Nat],
           state' = "Sorting" => state = "Sorting"
    PROVE  SealInv'
BY DEF SealInv

LEMMA OutsideSeal ==
    ASSUME SealInv, GossipInv', UNCHANGED <<emitted, fragSeq, sorting>>, state' # "Sorting"
    PROVE  SealInv'
BY DEF SealInv

LEMMA EnvSeal ==
    ASSUME SealInv, GossipInv', NEW a \in Attributes, start_sequencing(a),
           emitted' = Append(emitted, EnvMessage(a))
    PROVE  SealInv'
<1>. DEFINE m == EnvMessage(a)
<1>1. m.type = "env" /\ m.parent = parent /\ m.time = a.time
  BY DEF EnvMessage
<1>2. emitted' = Append(emitted, m)
  OBVIOUS
<1>. HIDE DEF m
<1>3. emitted \in Seq(TxSet(emitted)) /\ FragTxs(emitted, Len(emitted)) /\ SealsKept(emitted)
  BY Zenon DEF SealInv, GossipInv, Whole
<1>4. FragTxs(emitted', Len(emitted')) /\ SealsKept(emitted')
  BY <1>1, <1>2, <1>3, AppendMessage, AppendKeepsSeals, Zenon
<1>5. Preconfirmed(emitted', a, parent, <<>>)
  <2>1. Preconfirmed(emitted', m, m.parent, <<>>)
    BY <1>1, <1>2, <1>3, EnvPreconfirms
  <2>. QED BY <1>1, <2>1, Zenon DEF Preconfirmed
<1>6. a.forced \in Seq(Tx)
  BY AttributesAssumption
<1>7. /\ fragSeq'.txs = <<>> /\ parent' = parent /\ attributes' = {a}
      /\ sorting' \in [txs : Seq(Tx), committed : Nat]
  BY <1>6 DEF start_sequencing, apply_block_start_to_state, NoFrags
<1>. QED BY <1>4, <1>5, <1>7 DEF SealInv

LEMMA TickSeal ==
    ASSUME SealInv, GossipInv', TickSealFrag
    PROVE  SealInv'
<1>. DEFINE m == FragMessage(FALSE)
<1>1. m.type = "frag" /\ m.txs = sorting.txs /\ sorting.txs \in Seq(Tx)
  BY FragMessageTxs, Zenon
<1>2. /\ emitted' = Append(emitted, m) /\ state = "Sorting" /\ UNCHANGED <<parent, attributes>>
      /\ fragSeq'.txs = fragSeq.txs \o sorting.txs /\ sorting' = NoSort
  BY Zenon DEF TickSealFrag, FragSealed
<1>. HIDE DEF m
<1>3. emitted \in Seq(TxSet(emitted)) /\ FragTxs(emitted, Len(emitted)) /\ SealsKept(emitted)
  BY Zenon DEF SealInv, GossipInv, Whole
<1>4. FragTxs(emitted', Len(emitted')) /\ SealsKept(emitted')
  BY <1>1, <1>2, <1>3, AppendMessage, AppendKeepsSeals, Zenon
<1>5. PICK a \in Attributes : attributes = {a} /\ Preconfirmed(emitted, a, parent, fragSeq.txs)
  BY <1>2 DEF SealInv
<1>6. Preconfirmed(emitted', a, parent, fragSeq.txs \o m.txs)
  BY <1>1, <1>2, <1>3, <1>5, FragPreconfirms
<1>7. fragSeq'.txs \in Seq(Tx) /\ sorting' \in [txs : Seq(Tx), committed : Nat]
  BY <1>1, <1>2 DEF SealInv, NoSort
<1>. QED BY <1>1, <1>2, <1>4, <1>5, <1>6, <1>7 DEF SealInv

LEMMA TwoMessages ==
    ASSUME NEW e, e \in Seq(TxSet(e)), NEW f, NEW s
    PROVE  /\ e \o <<f, s>> = Append(Append(e, f), s)
           /\ Append(e, f) \in Seq(TxSet(Append(e, f)))
<1>. DEFINE n == Len(e)
            c == Append(e, f)
<1>1. e \in Seq(TxSet(e) \cup {f, s})
  OBVIOUS
<1>2. e \o <<f, s>> = Append(Append(e, f), s)
  BY <1>1
<1>3. /\ n \in Nat /\ DOMAIN e = 1 .. n /\ DOMAIN c = 1 .. n + 1
      /\ c[n + 1] = f /\ \A i \in 1 .. n : c[i] = e[i]
      /\ c \in Seq(TxSet(e) \cup {f})
  BY <1>1
<1>. HIDE DEF c, n
<1>4. TxSet(c) = TxSet(e) \cup {f}
  BY <1>3 DEF TxSet
<1>. QED BY <1>2, <1>3, <1>4 DEF c

LEMMA GetPayloadSeal ==
    ASSUME SealInv, GossipInv', state = "Sorting", state' # "Sorting",
           fragSeq' = NoFrags, sorting' = NoSort,
           emitted' = emitted \o <<FragMessage(TRUE), SealMessage>>
    PROVE  SealInv'
<1>. DEFINE f == FragMessage(TRUE)
            s == SealMessage
            e == Append(emitted, f)
<1>1. f.type = "frag" /\ f.txs = sorting.txs /\ sorting.txs \in Seq(Tx)
  BY FragMessageTxs, Zenon
<1>2. PICK a \in Attributes : attributes = {a} /\ Preconfirmed(emitted, a, parent, fragSeq.txs)
  BY DEF SealInv
<1>3. s.type = "seal" /\ s.hash = Append(parent, [time |-> a.time, txs |-> fragSeq.txs \o sorting.txs])
  <2>1. (CHOOSE x \in attributes : TRUE) = a
    BY <1>2
  <2>. QED BY <2>1, Zenon DEF SealMessage, SealedHash, FragSealed
<1>4. emitted \in Seq(TxSet(emitted)) /\ FragTxs(emitted, Len(emitted)) /\ SealsKept(emitted)
  BY Zenon DEF SealInv, GossipInv, Whole
<1>5. emitted' = emitted \o <<f, s>>
  OBVIOUS
<1>. HIDE DEF f, s
<1>6. emitted' = Append(e, s) /\ e \in Seq(TxSet(e))
  <2>1. emitted \o <<f, s>> = Append(Append(emitted, f), s)
    BY <1>4, TwoMessages
  <2>2. e \in Seq(TxSet(e))
    BY <1>4, TwoMessages, Zenon
  <2>. QED BY <1>5, <2>1, <2>2, Zenon
<1>8. FragTxs(e, Len(e)) /\ SealsKept(e)
  BY <1>1, <1>4, AppendMessage, AppendKeepsSeals, Zenon
<1>9. Preconfirmed(e, a, parent, fragSeq.txs \o f.txs)
  BY <1>1, <1>2, <1>4, FragPreconfirms, Zenon
<1>. HIDE DEF e
<1>10. \E j : LastEnv(e, Len(e), j) /\ s.hash = BlockOf(e, Len(e), j)
  BY <1>1, <1>3, <1>9, Zenon DEF Preconfirmed, BlockOf
<1>11. FragTxs(emitted', Len(emitted')) /\ SealsKept(emitted')
  <2>1. s.type # "frag"
    BY <1>3
  <2>2. FragTxs(Append(e, s), Len(Append(e, s)))
    BY <1>6, <1>8, <2>1, AppendMessage, Zenon
  <2>3. SealsKept(Append(e, s))
    BY <1>6, <1>8, <1>10, <2>1, AppendKeepsSeals, Zenon
  <2>. QED BY <1>6, <2>2, <2>3, Zenon
<1>12. fragSeq'.txs \in Seq(Tx) /\ sorting' \in [txs : Seq(Tx), committed : Nat]
  BY DEF NoFrags, NoSort
<1>. QED BY <1>11, <1>12, Zenon DEF SealInv

LEMMA ForkchoiceSeal ==
    ASSUME SealInv, GossipInv', NEW h, NEW attrs, attrs \subseteq Attributes,
           handle_fork_choice_updated_engine_api(h, attrs)
    PROVE  SealInv'
<1>0. sorting \in [txs : Seq(Tx), committed : Nat]
  BY DEF SealInv
<1>1. CASE IgnoredCall
  BY <1>0, <1>1, QuietSeal DEF IgnoredCall, ctxVars
<1>2. CASE ForkchoiceAtHead(attrs)
  <2>1. CASE Waiting /\ Becomes("WaitingForForkChoiceWithAttributes") /\ UNCHANGED ctxVars
    BY <2>1, OutsideSeal DEF Becomes, ctxVars
  <2>2. ASSUME NEW a \in attrs, start_sequencing(a), emitted' = Append(emitted, EnvMessage(a))
        PROVE  SealInv'
    BY <2>2, EnvSeal
  <2>3. CASE UNCHANGED <<state, lastBlockNumber, ctxVars, requests>>
    BY <1>0, <2>3, QuietSeal DEF ctxVars
  <2>. QED BY <1>2, <2>1, <2>2, <2>3 DEF ForkchoiceAtHead
<1>. QED BY <1>1, <1>2 DEF handle_fork_choice_updated_engine_api

LEMMA PayloadSeal ==
    ASSUME SealInv, GossipInv', NEW b, handle_new_payload_engine_api(b)
    PROVE  SealInv'
<1>1. CASE NewPayloadAhead(b) \/ NewPayloadIsHead(b) \/ NewPayloadCommit(b)
  <2>1. UNCHANGED <<emitted, fragSeq, sorting>> /\ state' # "Sorting"
    BY <1>1 DEF NewPayloadAhead, NewPayloadIsHead, NewPayloadCommit, Becomes, sync_until, ctxVars
  <2>. QED BY <2>1, OutsideSeal
<1>2. CASE IgnoredCall
  BY <1>2, QuietSeal, Zenon DEF IgnoredCall, ctxVars, SealInv
<1>. QED BY <1>1, <1>2 DEF handle_new_payload_engine_api

LEMMA BlockSyncSeal ==
    ASSUME SealInv, GossipInv', NEW b, handle_block_sync(b)
    PROVE  SealInv'
<1>1. UNCHANGED <<fragSeq, emitted, sorting, attributes>>
  BY DEF handle_block_sync
<1>2. CASE SyncingBlock(b) \/ WaitingBlock(b)
  BY <1>1, <1>2, OutsideSeal DEF SyncingBlock, WaitingBlock, Becomes, sync_until
<1>3. CASE UNCHANGED <<syncVars, state, lastBlockNumber, parent, requests>>
  BY <1>1, <1>3, QuietSeal, Zenon DEF SealInv
<1>. QED BY <1>2, <1>3 DEF handle_block_sync

LEMMA SealInvStep == SealInv /\ [SequencerNext]_sequencerVars => SealInv'
<1>. SUFFICES ASSUME SealInv, [SequencerNext]_sequencerVars PROVE SealInv'
  OBVIOUS
<1>0. GossipInv' /\ sorting \in [txs : Seq(Tx), committed : Nat]
  BY GossipStep DEF SealInv
<1>1. ASSUME NEW b, handle_new_payload_engine_api(b) PROVE SealInv'
  BY <1>0, <1>1, PayloadSeal
<1>2. ASSUME NEW b, NEW attrs \in {{}} \cup {{a} : a \in Attributes},
             handle_fork_choice_updated_engine_api(b, attrs)
      PROVE  SealInv'
  BY <1>0, <1>2, ForkchoiceSeal
<1>3. CASE handle_get_payload_engine_api
  <2>1. CASE IgnoredCall
    BY <1>0, <2>1, QuietSeal DEF IgnoredCall, ctxVars
  <2>2. CASE ~IgnoredCall
    <3>1. /\ state = "Sorting" /\ fragSeq' = NoFrags /\ sorting' = NoSort
          /\ emitted' = emitted \o <<FragMessage(TRUE), SealMessage>>
          /\ CommitSealed \/ Becomes("WaitingForNewPayload")
      BY <1>3, <2>2, Zenon DEF handle_get_payload_engine_api
    <3>2. state' # "Sorting"
      BY <3>1 DEF CommitSealed, Becomes
    <3>. QED BY <1>0, <3>1, <3>2, GetPayloadSeal
  <2>. QED BY <2>1, <2>2
<1>4. CASE TickSealFrag
  BY <1>0, <1>4, TickSeal
<1>5. ASSUME NEW t \in Tx, TickApply(t) PROVE SealInv'
  <2>1. Append(sorting.txs, t) \in Seq(Tx) /\ sorting' = [sorting EXCEPT !.txs = Append(@, t)]
    BY <1>0, <1>5 DEF TickApply
  <2>2. sorting' \in [txs : Seq(Tx), committed : Nat]
    BY <1>0, <2>1, Zenon
  <2>. QED BY <1>0, <1>5, <2>2, QuietSeal DEF TickApply
<1>6. ASSUME NEW b, handle_block_sync(b) PROVE SealInv'
  BY <1>0, <1>6, BlockSyncSeal
<1>7. CASE UNCHANGED sequencerVars
  BY <1>0, <1>7, QuietSeal DEF sequencerVars, ctxVars
<1>. QED BY <1>1, <1>2, <1>3, <1>4, <1>5, <1>6, <1>7 DEF SequencerNext, EngineCalls, Tick

\* A sealed block is the one that was preconfirmed: the parent and time of its env and
\* the transactions of its frags in their order, whatever is fetched, asked for or
\* inserted while it is sorted.
THEOREM SealsArePreconfirmed == SequencerSpec => []SealKeepsPreconfirmations
<1>1. SequencerInit => SealInv
  <2>. SUFFICES ASSUME SequencerInit PROVE SealInv
    OBVIOUS
  <2>1. GossipInv
    BY DEF SequencerInit, GossipInv, Whole, Last, Closed, NoFrags, TxSet
  <2>2. emitted = <<>> /\ fragSeq.txs = <<>> /\ sorting = NoSort /\ state # "Sorting"
    BY DEF SequencerInit, NoFrags
  <2>. QED BY <2>1, <2>2 DEF SealInv, FragTxs, SealsKept, NoSort
<1>2. SealInv => SealKeepsPreconfirmations
  <2>. SUFFICES ASSUME SealInv, NEW i \in DOMAIN emitted, emitted[i].type = "seal"
                PROVE  emitted[i].hash = Append(emitted[EnvAt(i)].parent,
                          [time |-> emitted[EnvAt(i)].time, txs |-> FraggedTxs(i)])
    BY DEF SealKeepsPreconfirmations
  <2>1. DOMAIN emitted = 1 .. Len(emitted) /\ i \in Nat
    <3>1. emitted \in Seq(TxSet(emitted))
      BY Zenon DEF SealInv, GossipInv, Whole
    <3>. QED BY <3>1
  <2>2. PICK j : LastEnv(emitted, i, j) /\ emitted[i].hash = BlockOf(emitted, i, j)
    BY <2>1, Zenon DEF SealInv, SealsKept
  <2>3. EnvAt(i) = j /\ FraggedTxs(i) = TxsUpTo(emitted, i)
    BY <2>1, <2>2, EnvAtIs, FraggedTxsIsUpTo, Zenon
  <2>. QED BY <2>2, <2>3, Zenon DEF BlockOf
<1>. QED BY <1>1, <1>2, SealInvStep, PTL DEF SequencerSpec
=============================================================================
