-------------------------- MODULE GatewayProofs --------------------------
(***************************************************************************)
(* Proofs about the whole gateway, with its fetcher, the execution node    *)
(* and op-node, for any chain, blocks, transactions, attributes and batch  *)
(* size: it builds on the head of the execution node, what it seals has    *)
(* the state root of its transactions, and no fetched block comes in while *)
(* it sorts.                                                               *)
(***************************************************************************)
EXTENDS Gateway, WellFoundedInduction, TLAPS

(***************************************************************************)
(* Sequences, as far as the proofs below need them.                        *)
(***************************************************************************)
\* The empty sequence, and any other.
LEMMA EmptySeq ==
    ASSUME NEW A
    PROVE  <<>> \in Seq(A) /\ Len(<<>>) = 0 /\ \A s \in Seq(A) : s # <<>> => Len(s) \in Nat \ {0}
OBVIOUS

\* A sequence is a function on its positions.
LEMMA LenProperties ==
    ASSUME NEW A, NEW s \in Seq(A)
    PROVE  Len(s) \in Nat /\ DOMAIN s = 1 .. Len(s) /\ s \in [1 .. Len(s) -> A]
OBVIOUS

\* Concatenation, position by position.
LEMMA ConcatProperties ==
    ASSUME NEW A, NEW s \in Seq(A), NEW t \in Seq(A)
    PROVE  /\ s \o t \in Seq(A) /\ Len(s \o t) = Len(s) + Len(t)
           /\ \A i \in 1 .. Len(s) + Len(t) :
                 (s \o t)[i] = IF i <= Len(s) THEN s[i] ELSE t[i - Len(s)]
OBVIOUS

\* A subsequence, position by position.
LEMMA SubSeqProperties ==
    ASSUME NEW A, NEW s, NEW k \in Int, NEW l \in Int, \A i \in k .. l : s[i] \in A
    PROVE  /\ SubSeq(s, k, l) \in Seq(A)
           /\ Len(SubSeq(s, k, l)) = IF k <= l THEN l - k + 1 ELSE 0
           /\ \A i \in 1 .. l - k + 1 : SubSeq(s, k, l)[i] = s[k + i - 1]
OBVIOUS

\* One element more.
LEMMA AppendProperties ==
    ASSUME NEW A, NEW s \in Seq(A), NEW x \in A
    PROVE  /\ Append(s, x) \in Seq(A) /\ Append(s, x) # <<>> /\ Len(Append(s, x)) = Len(s) + 1
           /\ Append(s, x)[Len(s) + 1] = x /\ \A i \in 1 .. Len(s) : Append(s, x)[i] = s[i]
OBVIOUS

\* The whole of a sequence.
LEMMA SubSeqFull ==
    ASSUME NEW A, NEW s \in Seq(A) PROVE SubSeq(s, 1, Len(s)) = s
OBVIOUS

\* Sequences that agree everywhere are equal.
LEMMA SeqEqual ==
    ASSUME NEW A, NEW s \in Seq(A), NEW t \in Seq(A), Len(s) = Len(t),
           \A i \in 1 .. Len(s) : s[i] = t[i]
    PROVE  s = t
OBVIOUS

\* Two subsequences that meet.
LEMMA ConcatAdjacentSubSeq ==
    ASSUME NEW A, NEW s \in Seq(A),
           NEW k \in 1 .. Len(s) + 1, NEW l \in k - 1 .. Len(s), NEW m \in l .. Len(s)
    PROVE  SubSeq(s, k, l) \o SubSeq(s, l + 1, m) = SubSeq(s, k, m)
OBVIOUS

-----------------------------------------------------------------------------

\* The least counterexample of an inductive argument.
LEMMA LeastNat ==
    ASSUME NEW T, T \subseteq Nat, T # {}
    PROVE  \E m \in T : \A k \in T : m <= k
<1>. DEFINE R == OpToRel(<, Nat)
<1>1. IsWellFoundedOn(R, Nat)
  BY NatLessThanWellFounded, Zenon
<1>2. \A x, y \in Nat : <<x, y>> \in R <=> x < y
  BY DEF OpToRel
<1>. HIDE DEF R
<1>3. PICK x \in T : \A y \in T : ~(<<y, x>> \in R)
  BY <1>1, WFMin, Zenon
<1>4. ASSUME NEW y \in T PROVE x <= y
  <2>1. x \in Nat /\ y \in Nat
    OBVIOUS
  <2>2. ~(y < x)
    BY <1>2, <1>3, <2>1, Zenon
  <2>. QED BY <2>1, <2>2
<1>. QED BY <1>3, <1>4

\* The blocks that have a parent.
NonGenesis == Hash \ {<<>>}

\* A prefix of a chain is a chain.
LEMMA PrefixType ==
  ASSUME NEW h \in Hash, NEW n \in Nat, n <= Len(h)
  PROVE  SubSeq(h, 1, n) \in Hash /\ Len(SubSeq(h, 1, n)) = n
<1>1. \A i \in 1 .. n : h[i] \in Content
  BY DEF Hash
<1>. QED BY <1>1, SubSeqProperties DEF Hash

\* The parent of a block.
LEMMA ParentType ==
  ASSUME NEW h \in NonGenesis
  PROVE  Parent(h) \in Hash /\ Len(Parent(h)) = Len(h) - 1 /\ Len(h) \in Nat \ {0}
<1>1. h \in Seq(Content) /\ h # <<>>
  BY DEF NonGenesis, Hash
<1>2. Len(h) \in Nat \ {0}
  BY <1>1, EmptySeq, LenProperties
<1>3. h \in Hash /\ Len(h) - 1 \in Nat /\ Len(h) - 1 <= Len(h)
  BY <1>1, <1>2 DEF Hash
<1>4. SubSeq(h, 1, Len(h) - 1) \in Hash /\ Len(SubSeq(h, 1, Len(h) - 1)) = Len(h) - 1
  BY <1>3, PrefixType, Zenon
<1>. QED BY <1>2, <1>4 DEF Parent

\* A block is on its own chain.
LEMMA SelfAncestor ==
  ASSUME NEW h \in Hash
  PROVE  h \in Ancestors(h)
<1>1. h \in Seq(Content) /\ Len(h) \in 0 .. Len(h)
  BY LenProperties DEF Hash
<1>2. SubSeq(h, 1, Len(h)) = h
  BY <1>1, SubSeqFull
<1>. QED BY <1>1, <1>2, Zenon DEF Ancestors

\* What is on the chain of a block's parent is on the block's.
LEMMA AncestorOfParent ==
  ASSUME NEW h \in NonGenesis, NEW a \in Ancestors(Parent(h))
  PROVE  a \in Ancestors(h)
<1>. DEFINE m == Len(h) - 1
<1>1. Parent(h) \in Hash /\ Len(Parent(h)) = m /\ m \in Nat /\ Len(h) = m + 1
  BY ParentType
<1>2. h \in Seq(Content) /\ Parent(h) = SubSeq(h, 1, m)
  BY DEF NonGenesis, Hash, Parent
<1>. HIDE DEF m
<1>3. PICK n \in 0 .. m : a = SubSeq(Parent(h), 1, n)
  BY <1>1 DEF Ancestors
<1>4. SubSeq(SubSeq(h, 1, m), 1, n) = SubSeq(h, 1, n)
  <2>1. \A i \in 1 .. m : h[i] \in Content
    BY <1>1, <1>2
  <2>. DEFINE p == SubSeq(h, 1, m)
  <2>2. p \in Seq(Content) /\ Len(p) = m /\ \A i \in 1 .. m : p[i] = h[i]
    BY <1>1, <2>1, SubSeqProperties
  <2>. HIDE DEF p
  <2>3. \A i \in 1 .. n : p[i] \in Content /\ h[i] \in Content /\ p[i] = h[i]
    BY <1>1, <2>1, <2>2
  <2>4. /\ SubSeq(p, 1, n) \in Seq(Content) /\ Len(SubSeq(p, 1, n)) = n
        /\ \A i \in 1 .. n : SubSeq(p, 1, n)[i] = p[i]
    BY <1>1, <2>2, <2>3, SubSeqProperties
  <2>5. /\ SubSeq(h, 1, n) \in Seq(Content) /\ Len(SubSeq(h, 1, n)) = n
        /\ \A i \in 1 .. n : SubSeq(h, 1, n)[i] = h[i]
    BY <1>1, <1>2, <2>3, SubSeqProperties
  <2>6. SubSeq(p, 1, n) = SubSeq(h, 1, n)
    BY <2>3, <2>4, <2>5, SeqEqual
  <2>. QED BY <2>6, Zenon DEF p
<1>5. n \in 0 .. Len(h)
  BY <1>1
<1>. QED BY <1>2, <1>3, <1>4, <1>5, Zenon DEF Ancestors

-----------------------------------------------------------------------------
(***************************************************************************)
(* The gateway on the chain of the execution node.                         *)
(***************************************************************************)
\* A prefix of a prefix.
LEMMA PrefixOfPrefix ==
  ASSUME NEW h \in Hash, NEW m \in Nat, NEW n \in Nat, m <= n, n <= Len(h)
  PROVE  SubSeq(SubSeq(h, 1, n), 1, m) = SubSeq(h, 1, m)
<1>. DEFINE p == SubSeq(h, 1, n)
<1>1. h \in Seq(Content) /\ \A i \in 1 .. n : h[i] \in Content
  BY DEF Hash
<1>2. p \in Seq(Content) /\ Len(p) = n /\ \A i \in 1 .. n : p[i] = h[i]
  BY <1>1, SubSeqProperties
<1>. HIDE DEF p
<1>3. \A i \in 1 .. m : p[i] \in Content /\ h[i] \in Content /\ p[i] = h[i]
  BY <1>1, <1>2
<1>4. /\ SubSeq(p, 1, m) \in Seq(Content) /\ Len(SubSeq(p, 1, m)) = m
      /\ \A i \in 1 .. m : SubSeq(p, 1, m)[i] = p[i]
  BY <1>2, <1>3, SubSeqProperties
<1>5. /\ SubSeq(h, 1, m) \in Seq(Content) /\ Len(SubSeq(h, 1, m)) = m
      /\ \A i \in 1 .. m : SubSeq(h, 1, m)[i] = h[i]
  BY <1>3, SubSeqProperties
<1>6. SubSeq(p, 1, m) = SubSeq(h, 1, m)
  BY <1>3, <1>4, <1>5, SeqEqual
<1>. QED BY <1>6 DEF p

\* An ancestor is the prefix of its length.
LEMMA AncestorIs ==
  ASSUME NEW h \in Hash, NEW a \in Ancestors(h)
  PROVE  /\ a \in Hash /\ Len(a) \in Nat /\ Len(h) \in Nat /\ Len(a) <= Len(h)
         /\ a = SubSeq(h, 1, Len(a))
<1>1. Len(h) \in Nat
  BY LenProperties DEF Hash
<1>2. PICK n \in 0 .. Len(h) : a = SubSeq(h, 1, n)
  BY DEF Ancestors
<1>3. a \in Hash /\ Len(a) = n
  <2>1. n \in Nat /\ n <= Len(h)
    BY <1>1
  <2>. QED BY <1>2, <2>1, PrefixType, Zenon
<1>. QED BY <1>1, <1>2, <1>3

\* On one chain the lower of two blocks is an ancestor of the other.
LEMMA SameChain ==
  ASSUME NEW h \in Hash, NEW a \in Ancestors(h), NEW c \in Ancestors(h), Len(c) <= Len(a)
  PROVE  c = SubSeq(a, 1, Len(c)) /\ c \in Ancestors(a)
<1>1. /\ a = SubSeq(h, 1, Len(a)) /\ c = SubSeq(h, 1, Len(c))
      /\ Len(a) \in Nat /\ Len(c) \in Nat /\ Len(a) <= Len(h)
  BY AncestorIs
<1>2. SubSeq(SubSeq(h, 1, Len(a)), 1, Len(c)) = SubSeq(h, 1, Len(c))
  BY <1>1, PrefixOfPrefix
<1>3. c = SubSeq(a, 1, Len(c))
  BY <1>1, <1>2
<1>4. Len(c) \in 0 .. Len(a)
  BY <1>1
<1>. QED BY <1>3, <1>4, Zenon DEF Ancestors

\* The only ancestor as high as a block is the block.
LEMMA TopAncestor ==
  ASSUME NEW h \in Hash, NEW a \in Ancestors(h), Len(a) = Len(h)
  PROVE  a = h
<1>1. a = SubSeq(h, 1, Len(h)) /\ h \in Seq(Content)
  BY AncestorIs DEF Hash
<1>. QED BY <1>1, SubSeqFull

-----------------------------------------------------------------------------
\* The gateway starts from a block of the execution node's chain.
StartsOnChain == InitHead \in Ancestors(InitRemote)

\* The number of the block before the i-th fetched one, once that is taken.
Before(i) == IF i = 1 THEN Number(db) ELSE Number(synced[i - 1])

\* The fetcher has nothing to do and nothing to take.
Idle == requests = <<>> /\ nextBlock >= syncUntil

\* Nothing is ever pending: what is fetched comes in order, what is inserted extends
\* the head or is left to the fetcher.
GatewayTypes ==
    /\ remote \in Hash /\ db \in Hash
    /\ pendingBlocks = <<>> /\ blocksToFetch = {}
    /\ nextBlock \in Nat \ {0} /\ syncUntil \in Nat
    /\ requests \in Seq((Nat \ {0}) \X Nat)
    /\ synced \in Seq(NonGenesis)

\* What is asked for exists, and something is still asked for only while the head of
\* the execution node is not.
Ranges ==
    /\ syncUntil <= Number(remote)
    /\ \A i \in DOMAIN requests : requests[i][2] <= Number(remote)
    /\ requests # <<>> => syncUntil < Number(remote)

\* A fetched block is on the chain and not above the next one; the head of the
\* execution node is the last to be fetched.
Handed(i) ==
    /\ synced[i] \in Ancestors(remote)
    /\ Number(synced[i]) <= Before(i) + 1
    /\ Number(synced[i]) = Number(remote) => i = Len(synced) /\ Idle

\* What the fetcher asks for, has handed in and asks for next leaves no gap.
FetcherInv ==
    /\ Ranges
    /\ \A i \in DOMAIN synced : Handed(i)
    /\ nextBlock <= Before(Len(synced) + 1) + 1

\* Where the database is on the chain of the execution node, and what holds there.  It
\* is ahead when the sequencer has committed its own block, until that or another one
\* is inserted.
AtHead ==
    /\ db = remote
    /\ Waiting \/ (state = "Sorting" /\ driver = "get" /\ parent = db)
    /\ parent = <<>> \/ parent = db
    /\ Idle /\ synced = <<>>
    /\ sharedState # <<>> => state = "Sorting" \/ driver = "insert"

\* The database is on the chain and below its head: the gateway waits or syncs to it.
Behind ==
    /\ db \in Ancestors(remote) /\ db # remote
    /\ Waiting \/ (state = "Syncing" /\ lastBlockNumber = Number(remote))
    /\ sharedState = <<>>

\* The database holds the gateway's own sealed block, not inserted yet.
Ahead ==
    /\ db # <<>> /\ Parent(db) = remote
    /\ Waiting /\ driver = "insert"
    /\ parent = db /\ sharedState = <<>>
    /\ Idle /\ synced = <<>>

\* The shared state has the transactions of the open block that it should have.
OpenBlock ==
    state = "Sorting" =>
        /\ attributes # {} /\ attributes \subseteq Attributes
        /\ fragSeq.txs \in Seq(Tx) /\ sorting \in [txs : Seq(Tx), committed : Nat]
        /\ sorting.committed \in 0 .. Len(sorting.txs)
        /\ sharedState = fragSeq.txs \o SubSeq(sorting.txs, 1, sorting.committed)

\* What is sent, and the seals in it.
Messages(e) ==
    /\ e \in Seq(TxSet(e))
    /\ \A m \in TxSet(e) : m.type = "seal" => m.hash \in NonGenesis /\ RootOf(m)

\* The inductive invariant.
GatewayInv ==
    /\ GatewayTypes
    /\ FetcherInv
    /\ AtHead \/ Behind \/ Ahead
    /\ OpenBlock
    /\ Messages(emitted)

-----------------------------------------------------------------------------
\* With nothing pending, a block that links to the head, below it or not, is taken or
\* is there already, and nothing is asked for.
LEMMA CommitLinked ==
  ASSUME GatewayTypes, NEW b \in NonGenesis, commit_block(b), Number(b) <= Number(db) + 1,
         b \in Ancestors(db) \/ Parent(b) = RolledBack(b)
  PROVE  /\ pendingBlocks' = <<>> /\ blocksToFetch' = {}
         /\ db' = IF b \in Ancestors(db) THEN db ELSE b
<1>1. pendingBlocks = <<>> /\ Len(pendingBlocks) = 0
  BY DEF GatewayTypes
<1>2. Len(b) \in Nat /\ Len(db) \in Nat
  BY LenProperties DEF GatewayTypes, NonGenesis, Hash
<1>3. CASE CommitTooHigh(b)
  BY <1>2, <1>3 DEF CommitTooHigh, Number
<1>4. CASE CommitAgain(b)
  BY <1>1, <1>4 DEF CommitAgain, AlreadyCommitted
<1>5. CASE CommitReorg(b)
  BY <1>5 DEF CommitReorg, AlreadyCommitted
<1>6. CASE CommitNext(b)
  <2>1. PICK k \in 0 .. 0 : /\ db' = HeadAfter(b, k)
                            /\ pendingBlocks' = SubSeq(pendingBlocks, 1, Len(pendingBlocks) - k)
    BY <1>1, <1>6 DEF CommitNext
  <2>2. k = 0
    OBVIOUS
  <2>3. db' = b /\ pendingBlocks' = <<>>
    BY <1>1, <2>1, <2>2 DEF HeadAfter
  <2>. QED BY <1>6, <2>3 DEF CommitNext, IsNextBlock, AlreadyCommitted
<1>7. CASE CommitMismatch(b)
  BY <1>1, <1>7 DEF CommitMismatch, Mismatch
<1>. QED BY <1>3, <1>4, <1>5, <1>6, <1>7 DEF commit_block

\* A fetched block of the chain that is not above the next one.
LEMMA CommitFetched ==
  ASSUME GatewayTypes, db \in Ancestors(remote), NEW b \in NonGenesis, b \in Ancestors(remote),
         Number(b) <= Number(db) + 1, commit_block(b)
  PROVE  /\ pendingBlocks' = <<>> /\ blocksToFetch' = {}
         /\ db' = IF Number(b) <= Number(db) THEN db ELSE b
<1>1. /\ remote \in Hash /\ Len(b) \in Nat \ {0} /\ Len(db) \in Nat
      /\ b \in Hash /\ db \in Hash /\ db \in Seq(Content)
  BY LenProperties, ParentType DEF GatewayTypes, NonGenesis, Hash
<1>2. CASE Len(b) <= Len(db)
  <2>1. b \in Ancestors(db)
    BY <1>1, <1>2, SameChain
  <2>. QED BY <1>2, <2>1, CommitLinked DEF Number
<1>3. CASE ~(Len(b) <= Len(db))
  <2>1. Len(b) = Len(db) + 1 /\ Len(db) <= Len(b) /\ Len(b) - 1 = Len(db)
    BY <1>1, <1>3 DEF Number
  <2>2. db = SubSeq(b, 1, Len(db))
    BY <1>1, <2>1, SameChain
  <2>3. Parent(b) = RolledBack(b)
    <3>1. SubSeq(db, 1, Len(db)) = db
      BY <1>1, SubSeqFull
    <3>. QED BY <2>1, <2>2, <3>1 DEF Parent, RolledBack, Number
  <2>4. b \notin Ancestors(db)
    BY <1>1, <1>3, AncestorIs
  <2>. QED BY <1>3, <2>3, <2>4, CommitLinked DEF Number
<1>. QED BY <1>2, <1>3

\* The database goes on with the block inserted after the execution node's head,
\* whether that is its own head or the parent of its own head.
LEMMA CommitInserted ==
  ASSUME GatewayTypes, NEW b \in NonGenesis, Parent(b) = remote, b # db, commit_block(b),
         db = remote \/ (db # <<>> /\ Parent(db) = remote)
  PROVE  pendingBlocks' = <<>> /\ blocksToFetch' = {} /\ db' = b
<1>1. /\ Len(b) \in Nat \ {0} /\ Len(db) \in Nat /\ Len(remote) = Len(b) - 1
      /\ b \in Hash /\ db \in Hash /\ db \in Seq(Content)
  BY LenProperties, ParentType DEF GatewayTypes, NonGenesis, Hash
<1>2. CASE db = remote
  <2>1. SubSeq(db, 1, Len(db)) = db
    BY <1>1, SubSeqFull
  <2>2. Parent(b) = RolledBack(b)
    BY <1>1, <1>2, <2>1 DEF RolledBack, Number
  <2>3. b \notin Ancestors(db)
    BY <1>1, <1>2, AncestorIs
  <2>. QED BY <1>1, <1>2, <2>2, <2>3, CommitLinked DEF Number
<1>3. CASE db # <<>> /\ Parent(db) = remote
  <2>1. Len(db) = Len(b)
    BY <1>1, <1>3, ParentType DEF NonGenesis
  <2>2. Parent(b) = RolledBack(b)
    BY <1>3, <2>1 DEF RolledBack, Number, Parent
  <2>3. b \notin Ancestors(db)
    BY <1>1, <2>1, TopAncestor
  <2>. QED BY <1>1, <2>1, <2>2, <2>3, CommitLinked DEF Number
<1>. QED BY <1>2, <1>3

\* A message more.
LEMMA AddMessage ==
  ASSUME NEW e, Messages(e), NEW m, m.type = "seal" => m.hash \in NonGenesis /\ RootOf(m)
  PROVE  Messages(Append(e, m))
<1>. DEFINE S == TxSet(e) \cup {m}
            f == Append(e, m)
<1>1. e \in Seq(S) /\ Len(e) \in Nat /\ DOMAIN e = 1 .. Len(e)
  BY DEF Messages
<1>2. /\ f \in Seq(S) /\ DOMAIN f = 1 .. Len(e) + 1
      /\ f[Len(e) + 1] = m /\ \A i \in 1 .. Len(e) : f[i] = e[i]
  BY <1>1
<1>3. TxSet(f) = S
  BY <1>1, <1>2 DEF TxSet
<1>. QED BY <1>2, <1>3 DEF Messages

-----------------------------------------------------------------------------
(***************************************************************************)
(* The fetcher.                                                            *)
(***************************************************************************)
\* The smaller of two bounds.
LEMMA LeastIs ==
  ASSUME NEW S, S \subseteq Nat, S # {}
  PROVE  Fetcher!Least(S) \in S /\ \A x \in S : Fetcher!Least(S) <= x
BY LeastNat, Zenon DEF Fetcher!Least

\* The greatest of what is asked for.
LEMMA GreatestIs ==
  ASSUME NEW S, S \subseteq Nat, S # {}, NEW n \in Nat, \A x \in S : x <= n
  PROVE  Fetcher!Greatest(S) \in S /\ \A x \in S : x <= Fetcher!Greatest(S)
<1>. DEFINE T == {n - x : x \in S}
<1>1. T \subseteq Nat /\ T # {}
  <2>1. \A x \in S : n - x \in Nat
    OBVIOUS
  <2>. QED BY <2>1, Zenon
<1>2. PICK m \in T : \A k \in T : m <= k
  <2>. HIDE DEF T
  <2>. QED BY <1>1, LeastNat, Zenon
<1>3. PICK x \in S : m = n - x
  BY <1>2
<1>4. \A y \in S : x >= y
  <2>. TAKE y \in S
  <2>1. n - y \in T /\ y \in Nat /\ x \in Nat
    OBVIOUS
  <2>2. n - x <= n - y
    BY <1>2, <1>3, <2>1, Zenon
  <2>. QED BY <2>1, <2>2
<1>5. /\ Fetcher!Greatest(S) \in S
      /\ \A y \in S : Fetcher!Greatest(S) >= y
  BY <1>4, Zenon DEF Fetcher!Greatest
<1>. QED BY <1>5

\* The requests move the range that is fetched down and up, inside the chain.
LEMMA RequestsTaken ==
  ASSUME GatewayTypes, Ranges, Fetcher!ReceiveRequests
  PROVE  /\ nextBlock' \in Nat \ {0} /\ nextBlock' <= nextBlock
         /\ syncUntil' \in Nat /\ syncUntil' <= Number(remote)
         /\ requests' = <<>> /\ synced' = synced
<1>. DEFINE S == {nextBlock} \cup {requests[i][1] : i \in DOMAIN requests}
            U == {syncUntil} \cup {requests[i][2] : i \in DOMAIN requests}
<1>1. \A i \in DOMAIN requests : requests[i][1] \in Nat \ {0} /\ requests[i][2] \in Nat
  BY DEF GatewayTypes
<1>2. /\ Len(remote) \in Nat
      /\ nextBlock' = Fetcher!Least(S) /\ syncUntil' = Fetcher!Greatest(U)
      /\ requests' = <<>> /\ synced' = synced
  BY LenProperties DEF GatewayTypes, Hash, Fetcher!ReceiveRequests
<1>3. S \subseteq Nat \ {0} /\ S # {} /\ nextBlock \in S
  BY <1>1 DEF GatewayTypes
<1>4. U \subseteq Nat /\ U # {} /\ \A x \in U : x <= Len(remote)
  BY <1>1, Zenon DEF GatewayTypes, Ranges, Number
<1>. HIDE DEF S, U
<1>5. Fetcher!Least(S) \in S /\ Fetcher!Least(S) <= nextBlock
  <2>1. S \subseteq Nat
    BY <1>3
  <2>. QED BY <1>3, <2>1, LeastIs, Zenon
<1>6. Fetcher!Greatest(U) \in U
  BY <1>2, <1>4, GreatestIs, Zenon
<1>. QED BY <1>2, <1>3, <1>4, <1>5, <1>6, Zenon DEF Number

\* An idle fetcher stays idle.
LEMMA IdleTakesNothing ==
  ASSUME GatewayTypes, Idle, Fetcher!ReceiveRequests
  PROVE  nextBlock' = nextBlock /\ syncUntil' = syncUntil /\ requests' = <<>>
<1>1. DOMAIN requests = {}
  BY DEF Idle
<1>2. /\ nextBlock' = Fetcher!Least({nextBlock})
      /\ syncUntil' = Fetcher!Greatest({syncUntil})
  <2>1. /\ {nextBlock} \cup {requests[i][1] : i \in DOMAIN requests} = {nextBlock}
        /\ {syncUntil} \cup {requests[i][2] : i \in DOMAIN requests} = {syncUntil}
    BY <1>1
  <2>. QED BY <2>1, Zenon DEF Fetcher!ReceiveRequests
<1>3. nextBlock \in Nat /\ syncUntil \in Nat
  BY DEF GatewayTypes
<1>4. Fetcher!Least({nextBlock}) \in {nextBlock}
  BY <1>3, LeastIs
<1>5. Fetcher!Greatest({syncUntil}) \in {syncUntil}
  BY <1>3, GreatestIs
<1>. QED BY <1>2, <1>4, <1>5 DEF Fetcher!ReceiveRequests

\* What is handed in, and the numbers before it.
LEMMA BeforeType ==
  ASSUME GatewayTypes
  PROVE  /\ Len(synced) \in Nat /\ DOMAIN synced = 1 .. Len(synced)
         /\ \A i \in 1 .. Len(synced) : synced[i] \in NonGenesis /\ Number(synced[i]) \in Nat
         /\ \A i \in 1 .. Len(synced) : Before(i) \in Nat
         /\ Before(Len(synced) + 1) \in Nat
<1>1. Len(synced) \in Nat /\ DOMAIN synced = 1 .. Len(synced)
  BY LenProperties DEF GatewayTypes
<1>2. \A i \in 1 .. Len(synced) : synced[i] \in NonGenesis /\ Number(synced[i]) \in Nat
  BY LenProperties DEF GatewayTypes, NonGenesis, Hash, Number
<1>3. ASSUME NEW i \in 1 .. Len(synced) + 1 PROVE Before(i) \in Nat
  <2>1. CASE i = 1
    BY <2>1, LenProperties DEF GatewayTypes, Hash, Before, Number
  <2>2. CASE i # 1
    <3>1. i - 1 \in 1 .. Len(synced)
      BY <1>1, <2>2
    <3>. QED BY <1>2, <2>2, <3>1 DEF Before
  <2>. QED BY <2>1, <2>2
<1>4. Len(synced) + 1 \in 1 .. Len(synced) + 1 /\ \A i \in 1 .. Len(synced) : i \in 1 .. Len(synced) + 1
  BY <1>1
<1>. QED BY <1>1, <1>2, <1>3, <1>4

\* The fetcher takes the ranges it is sent: the first missing block, and the last wanted.
LEMMA ReceiveRequestsStep ==
  ASSUME GatewayInv, Fetcher!ReceiveRequests,
         UNCHANGED <<syncVars, state, lastBlockNumber, ctxVars, calls, remote, driver>>
  PROVE  GatewayInv'
<1>1. /\ nextBlock' \in Nat \ {0} /\ nextBlock' <= nextBlock
      /\ syncUntil' \in Nat /\ syncUntil' <= Number(remote)
      /\ requests' = <<>> /\ synced' = synced
  BY RequestsTaken DEF GatewayInv, FetcherInv
<1>2. /\ db' = db /\ remote' = remote /\ pendingBlocks' = pendingBlocks
      /\ blocksToFetch' = blocksToFetch /\ state' = state /\ parent' = parent
      /\ lastBlockNumber' = lastBlockNumber /\ attributes' = attributes
      /\ fragSeq' = fragSeq /\ sorting' = sorting /\ sharedState' = sharedState
      /\ emitted' = emitted /\ driver' = driver
  BY DEF syncVars, ctxVars
<1>3. Idle => Idle'
  BY IdleTakesNothing DEF GatewayInv, Idle
<1>4. GatewayTypes'
  BY <1>1, <1>2 DEF GatewayInv, GatewayTypes
<1>5. Ranges'
  BY <1>1, <1>2 DEF Ranges
<1>6. \A i : Before(i)' = Before(i)
  BY <1>1, <1>2 DEF Before
<1>7. \A i \in DOMAIN synced' : Handed(i)'
  BY <1>1, <1>2, <1>3, <1>6 DEF GatewayInv, FetcherInv, Handed
<1>8. (nextBlock <= Before(Len(synced) + 1) + 1)'
  <2>1. nextBlock <= Before(Len(synced) + 1) + 1
    BY DEF GatewayInv, FetcherInv
  <2>2. Before(Len(synced) + 1) \in Nat
    BY BeforeType DEF GatewayInv
  <2>3. nextBlock \in Nat
    BY DEF GatewayInv, GatewayTypes
  <2>. QED BY <1>1, <1>6, <2>1, <2>2, <2>3
<1>9. (AtHead \/ Behind \/ Ahead)'
  BY <1>1, <1>2, <1>3 DEF GatewayInv, AtHead, Behind, Ahead, Waiting
<1>10. OpenBlock' /\ Messages(emitted')
  BY <1>2, Zenon DEF GatewayInv, OpenBlock
<1>. QED BY <1>4, <1>5, <1>7, <1>8, <1>9, <1>10 DEF GatewayInv, FetcherInv

\* A batch is the next blocks of the chain.
Batch(stop) == [i \in 1 .. stop - nextBlock + 1 |-> SubSeq(remote, 1, nextBlock + i - 1)]

\* Such a batch, block by block.
LEMMA BatchIs ==
  ASSUME GatewayTypes, NEW stop \in Nat, nextBlock <= stop, stop <= Len(remote)
  PROVE  /\ Batch(stop) \in Seq(NonGenesis) /\ Len(Batch(stop)) = stop - nextBlock + 1
         /\ \A i \in 1 .. stop - nextBlock + 1 :
               /\ Batch(stop)[i] \in Ancestors(remote)
               /\ Number(Batch(stop)[i]) = nextBlock + i - 1
<1>. DEFINE n == stop - nextBlock + 1
<1>1. /\ remote \in Hash /\ Len(remote) \in Nat /\ nextBlock \in Nat \ {0} /\ n \in Nat
  BY LenProperties DEF GatewayTypes, Hash
<1>2. ASSUME NEW i \in 1 .. n
      PROVE  /\ SubSeq(remote, 1, nextBlock + i - 1) \in NonGenesis
             /\ SubSeq(remote, 1, nextBlock + i - 1) \in Ancestors(remote)
             /\ Number(SubSeq(remote, 1, nextBlock + i - 1)) = nextBlock + i - 1
  <2>. DEFINE m == nextBlock + i - 1
  <2>1. m \in Nat \ {0} /\ m <= Len(remote) /\ m \in 0 .. Len(remote)
    BY <1>1
  <2>. HIDE DEF m
  <2>2. SubSeq(remote, 1, m) \in Hash /\ Len(SubSeq(remote, 1, m)) = m
    BY <1>1, <2>1, PrefixType
  <2>3. SubSeq(remote, 1, m) # <<>>
    BY <2>1, <2>2
  <2>4. SubSeq(remote, 1, m) \in Ancestors(remote)
    BY <2>1 DEF Ancestors
  <2>. QED BY <2>2, <2>3, <2>4, Zenon DEF m, NonGenesis, Number
<1>. DEFINE f(i) == SubSeq(remote, 1, nextBlock + i - 1)
<1>3. Batch(stop) = [i \in 1 .. n |-> f(i)]
  BY DEF Batch
<1>4. \A i \in 1 .. n : f(i) \in NonGenesis
  BY <1>2
<1>. HIDE DEF f, n
<1>5. [i \in 1 .. n |-> f(i)] \in Seq(NonGenesis) /\ Len([i \in 1 .. n |-> f(i)]) = n
  BY <1>1, <1>4
<1>6. \A i \in 1 .. n : Batch(stop)[i] = f(i)
  BY <1>3
<1>. QED BY <1>2, <1>3, <1>5, <1>6, Zenon DEF f, n

\* The fetcher hands in a batch: it starts where the last one ended, and only the batch that
\* ends at the head leaves nothing to do.
LEMMA FetchBatchStep ==
  ASSUME GatewayInv, Fetcher!FetchBatch,
         UNCHANGED <<syncVars, state, lastBlockNumber, ctxVars, calls, remote, driver>>
  PROVE  GatewayInv'
<1>. PICK stop : stop = Fetcher!Least({nextBlock + BatchSize, syncUntil})
  OBVIOUS
<1>. PICK n : n = stop - nextBlock + 1
  OBVIOUS
<1>. PICK L : L = Len(synced)
  BY Zenon
<1>1. /\ nextBlock \in Nat \ {0} /\ syncUntil \in Nat /\ BatchSize \in Nat /\ remote \in Hash
      /\ Len(remote) \in Nat
  BY GatewayAssumption, LenProperties DEF GatewayInv, GatewayTypes, Hash
<1>2. /\ nextBlock < syncUntil /\ stop <= Len(remote)
      /\ synced' = synced \o Batch(stop) /\ nextBlock' = stop + 1
      /\ syncUntil' = syncUntil /\ requests' = requests
  BY DEF Fetcher!FetchBatch, Fetcher!Number, Batch
<1>3. stop \in Nat /\ nextBlock <= stop /\ stop <= syncUntil
  <2>1. {nextBlock + BatchSize, syncUntil} \subseteq Nat
    BY <1>1
  <2>2. stop \in {nextBlock + BatchSize, syncUntil} /\ stop <= syncUntil
    BY <2>1, LeastIs, Zenon
  <2>. QED BY <1>1, <1>2, <2>2
<1>4. /\ db' = db /\ remote' = remote /\ pendingBlocks' = pendingBlocks
      /\ blocksToFetch' = blocksToFetch /\ state' = state /\ parent' = parent
      /\ lastBlockNumber' = lastBlockNumber /\ attributes' = attributes
      /\ fragSeq' = fragSeq /\ sorting' = sorting /\ sharedState' = sharedState
      /\ emitted' = emitted /\ driver' = driver
  BY DEF syncVars, ctxVars
<1>5. n \in Nat \ {0} /\ stop = nextBlock + n - 1
  BY <1>1, <1>3
<1>6. /\ L \in Nat /\ DOMAIN synced = 1 .. L
      /\ \A i \in 1 .. L : synced[i] \in NonGenesis /\ Number(synced[i]) \in Nat
      /\ \A i \in 1 .. L : Before(i) \in Nat
      /\ Before(L + 1) \in Nat
  BY BeforeType DEF GatewayInv
<1>7. /\ Batch(stop) \in Seq(NonGenesis) /\ Len(Batch(stop)) = n
      /\ \A i \in 1 .. n : /\ Batch(stop)[i] \in Ancestors(remote)
                           /\ Number(Batch(stop)[i]) = nextBlock + i - 1
  BY <1>2, <1>3, BatchIs, Zenon DEF GatewayInv
<1>8. /\ synced' \in Seq(NonGenesis) /\ Len(synced') = L + n /\ DOMAIN synced' = 1 .. L + n
      /\ \A i \in 1 .. L : synced'[i] = synced[i]
      /\ \A j \in 1 .. n : synced'[L + j] = Batch(stop)[j]
  <2>1. synced \in Seq(NonGenesis)
    BY DEF GatewayInv, GatewayTypes
  <2>2. ASSUME NEW t, t = Batch(stop)
        PROVE  /\ synced \o t \in Seq(NonGenesis)
               /\ Len(synced \o t) = Len(synced) + Len(t)
               /\ \A i \in 1 .. Len(synced) + Len(t) :
                     (synced \o t)[i] = IF i <= Len(synced) THEN synced[i] ELSE t[i - Len(synced)]
    BY <1>7, <2>1, <2>2, ConcatProperties, Zenon
  <2>3. \A i \in 1 .. L : i \in 1 .. L + n /\ i <= L
    BY <1>5, <1>6
  <2>4. \A j \in 1 .. n : L + j \in 1 .. L + n /\ ~(L + j <= L) /\ L + j - L = j
    BY <1>5, <1>6
  <2>5. /\ synced' \in Seq(NonGenesis) /\ Len(synced') = L + n
        /\ \A i \in 1 .. L + n :
              synced'[i] = IF i <= L THEN synced[i] ELSE Batch(stop)[i - L]
    BY <1>2, <1>7, <2>2, Zenon
  <2>6. DOMAIN synced' = 1 .. L + n
    BY <2>5, LenProperties
  <2>7. \A i \in 1 .. L : synced'[i] = synced[i]
    BY <2>3, <2>5, Zenon
  <2>8. \A j \in 1 .. n : synced'[L + j] = Batch(stop)[j]
    <3>. TAKE j \in 1 .. n
    <3>0. L + j \in 1 .. L + n
      BY <2>4, Zenon
    <3>1. synced'[L + j] = IF L + j <= L THEN synced[L + j] ELSE Batch(stop)[L + j - L]
      <4>. DEFINE i == L + j
      <4>1. i \in 1 .. L + n
        BY <3>0
      <4>. HIDE DEF i
      <4>2. synced'[i] = IF i <= L THEN synced[i] ELSE Batch(stop)[i - L]
        BY <2>5, <4>1, Zenon
      <4>. QED BY <4>2 DEF i
    <3>2. ~(L + j <= L) /\ L + j - L = j
      BY <2>4, Zenon
    <3>. QED BY <3>1, <3>2, Zenon
  <2>. QED BY <2>5, <2>6, <2>7, <2>8, Zenon
<1>9. Before(1)' = Before(1) /\ \A i \in 1 .. L + 1 : Before(i)' = Before(i)
  <2>1. Before(1)' = Before(1)
    BY <1>4 DEF Before
  <2>2. ASSUME NEW i \in 1 .. L + 1, i # 1 PROVE Before(i)' = Before(i)
    <3>1. i - 1 \in 1 .. L
      BY <1>6, <2>2
    <3>. QED BY <1>8, <2>2, <3>1, Zenon DEF Before
  <2>. QED BY <2>1, <2>2
<1>10. \A j \in 1 .. n : Before(L + j + 1)' = nextBlock + j - 1
  <2>. TAKE j \in 1 .. n
  <2>1. L + j + 1 # 1 /\ L + j + 1 - 1 = L + j
    BY <1>6
  <2>2. synced'[L + j] = Batch(stop)[j] /\ Number(Batch(stop)[j]) = nextBlock + j - 1
    BY <1>7, <1>8, Zenon
  <2>. QED BY <2>1, <2>2 DEF Before
<1>11. GatewayTypes'
  <2>1. nextBlock' \in Nat \ {0}
    BY <1>2, <1>3
  <2>. QED BY <1>2, <1>4, <1>8, <2>1, Zenon DEF GatewayInv, GatewayTypes
<1>12. Ranges'
  BY <1>2, <1>4 DEF GatewayInv, FetcherInv, Ranges
<1>13. ASSUME NEW i \in 1 .. L PROVE Handed(i)'
  <2>1. /\ synced'[i] = synced[i] /\ Before(i)' = Before(i) /\ i \in DOMAIN synced
    <3>1. i \in 1 .. L + 1
      BY <1>6
    <3>. QED BY <1>6, <1>8, <1>9, <3>1, Zenon
  <2>2. Number(synced[i]) # Number(remote)
    BY <1>1, <1>2, <2>1 DEF GatewayInv, FetcherInv, Handed, Idle
  <2>. QED BY <1>4, <2>1, <2>2 DEF GatewayInv, FetcherInv, Handed
<1>14. ASSUME NEW j \in 1 .. n PROVE Handed(L + j)'
  <2>1. /\ synced'[L + j] = Batch(stop)[j] /\ Batch(stop)[j] \in Ancestors(remote)
        /\ Number(Batch(stop)[j]) = nextBlock + j - 1
    BY <1>7, <1>8, Zenon
  <2>2. nextBlock + j - 1 <= Before(L + j)' + 1
    <3>1. CASE j = 1
      <4>1. nextBlock <= Before(L + 1) + 1
        BY DEF GatewayInv, FetcherInv
      <4>2. Before(L + j)' = Before(L + 1) /\ nextBlock + j - 1 = nextBlock
        BY <1>1, <1>6, <1>9, <3>1
      <4>. QED BY <4>1, <4>2
    <3>2. CASE j # 1
      <4>1. j - 1 \in 1 .. n /\ L + (j - 1) + 1 = L + j /\ nextBlock + (j - 1) - 1 + 1 = nextBlock + j - 1
        BY <1>1, <1>5, <1>6, <3>2
      <4>2. Before(L + j)' = nextBlock + (j - 1) - 1
        BY <1>10, <4>1, Zenon
      <4>. QED BY <1>1, <4>1, <4>2
    <3>. QED BY <3>1, <3>2
  <2>3. ASSUME nextBlock + j - 1 = Number(remote) PROVE L + j = Len(synced') /\ Idle'
    <3>1. syncUntil <= Len(remote) /\ (requests # <<>> => syncUntil < Len(remote))
      BY DEF GatewayInv, FetcherInv, Ranges, Number
    <3>2. j = n /\ syncUntil = Len(remote)
      BY <1>1, <1>3, <1>5, <2>3, <3>1 DEF Number
    <3>3. requests' = <<>>
      BY <1>1, <1>2, <3>1, <3>2
    <3>4. nextBlock' >= syncUntil'
      BY <1>1, <1>2, <1>3, <1>5, <2>3, <3>2 DEF Number
    <3>5. L + j = Len(synced')
      BY <1>8, <3>2, Zenon
    <3>. QED BY <3>3, <3>4, <3>5 DEF Idle
  <2>. QED BY <1>4, <2>1, <2>2, <2>3 DEF Handed
<1>15. \A i \in DOMAIN synced' : Handed(i)'
  <2>. TAKE i \in DOMAIN synced'
  <2>1. i \in 1 .. L \/ (i - L \in 1 .. n /\ L + (i - L) = i)
    BY <1>5, <1>6, <1>8
  <2>. QED BY <1>13, <1>14, <2>1, Zenon
<1>16. (nextBlock <= Before(Len(synced) + 1) + 1)'
  <2>1. n \in 1 .. n
    BY <1>5
  <2>2. Before(L + n + 1)' = nextBlock + n - 1
    BY <1>10, <2>1, Zenon
  <2>3. Before(L + n + 1)' = stop /\ nextBlock' = stop + 1
    BY <1>2, <1>5, <2>2
  <2>. QED BY <1>3, <1>8, <2>3
<1>17. ~Idle
  BY <1>1, <1>2 DEF Idle
<1>18. (AtHead \/ Behind \/ Ahead)'
  BY <1>4, <1>17, Zenon DEF GatewayInv, AtHead, Behind, Ahead, Waiting
<1>19. OpenBlock' /\ Messages(emitted')
  BY <1>4, Zenon DEF GatewayInv, OpenBlock
<1>. QED BY <1>11, <1>12, <1>15, <1>16, <1>18, <1>19 DEF GatewayInv, FetcherInv

-----------------------------------------------------------------------------
(***************************************************************************)
(* The fetched blocks.                                                     *)
(***************************************************************************)
\* Only a database that is behind is handed blocks, and none is above the next one.
LEMMA BlockSyncOn ==
  ASSUME GatewayInv, synced # <<>>
  PROVE  /\ Behind /\ 1 \in DOMAIN synced /\ Head(synced) = synced[1]
         /\ Head(synced) \in NonGenesis /\ Head(synced) \in Ancestors(remote)
         /\ Number(Head(synced)) <= Number(db) + 1
         /\ Number(Head(synced)) = Number(remote) => Len(synced) = 1 /\ Idle
<1>1. Behind
  BY DEF GatewayInv, AtHead, Ahead
<1>2. /\ synced \in Seq(NonGenesis) /\ Len(synced) \in Nat \ {0}
      /\ DOMAIN synced = 1 .. Len(synced)
  BY EmptySeq, LenProperties DEF GatewayInv, GatewayTypes
<1>3. 1 \in DOMAIN synced /\ Head(synced) = synced[1] /\ synced[1] \in NonGenesis
  BY <1>2
<1>4. Handed(1)
  BY <1>3 DEF GatewayInv, FetcherInv
<1>5. Before(1) = Number(db)
  BY DEF Before
<1>. QED BY <1>1, <1>3, <1>4, <1>5 DEF Handed

\* The database after it.
LEMMA BlockSyncTo ==
  ASSUME GatewayInv, synced # <<>>, commit_block(Head(synced))
  PROVE  /\ pendingBlocks' = <<>> /\ blocksToFetch' = {}
         /\ db' \in Hash /\ db' \in Ancestors(remote)
         /\ Number(db') \in Nat /\ Number(Head(synced)) <= Number(db')
         /\ IF Number(Head(synced)) = Number(remote)
            THEN Head(synced) = remote /\ db' = remote
            ELSE db' # remote
<1>. DEFINE b == Head(synced)
<1>1. /\ Behind /\ b \in NonGenesis /\ b \in Ancestors(remote) /\ Number(b) <= Number(db) + 1
  BY BlockSyncOn
<1>2. /\ db \in Ancestors(remote) /\ db # remote /\ GatewayTypes /\ remote \in Hash /\ db \in Hash
  BY <1>1 DEF Behind, GatewayInv, GatewayTypes
<1>. HIDE DEF b
<1>3. /\ pendingBlocks' = <<>> /\ blocksToFetch' = {}
      /\ db' = IF Number(b) <= Number(db) THEN db ELSE b
  BY <1>1, <1>2, CommitFetched DEF b
<1>4. /\ b \in Hash /\ Len(b) \in Nat /\ Len(db) \in Nat /\ Len(remote) \in Nat
      /\ Len(b) <= Len(remote) /\ Len(db) <= Len(remote)
  BY <1>1, <1>2, AncestorIs
<1>5. Len(db) # Len(remote)
  BY <1>2, TopAncestor
<1>6. Len(b) = Len(remote) => b = remote
  BY <1>1, <1>2, TopAncestor
<1>7. /\ db' \in Hash /\ db' \in Ancestors(remote) /\ Len(db') \in Nat /\ Len(b) <= Len(db')
  BY <1>1, <1>2, <1>3, <1>4 DEF Number
<1>8. Len(b) = Len(remote) => db' = remote
  BY <1>3, <1>4, <1>5, <1>6 DEF Number
<1>9. Len(b) # Len(remote) => db' # remote
  BY <1>2, <1>3
<1>. QED BY <1>3, <1>6, <1>7, <1>8, <1>9 DEF b, Number

\* The rest of the fetched blocks.
LEMMA RestHanded ==
  ASSUME GatewayInv, synced # <<>>, synced' = Tail(synced), Number(db') \in Nat,
         Number(Head(synced)) <= Number(db'),
         remote' = remote, requests' = requests, nextBlock' = nextBlock, syncUntil' = syncUntil
  PROVE  FetcherInv' /\ synced' \in Seq(NonGenesis) /\ (Len(synced) = 1 => synced' = <<>>)
<1>. PICK L : L = Len(synced)
  OBVIOUS
<1>1. /\ L \in Nat /\ DOMAIN synced = 1 .. L
      /\ \A i \in 1 .. L : synced[i] \in NonGenesis /\ Number(synced[i]) \in Nat
      /\ \A i \in 1 .. L : Before(i) \in Nat
      /\ Before(L + 1) \in Nat
  BY BeforeType DEF GatewayInv
<1>2. L # 0 /\ Head(synced) = synced[1] /\ 1 \in 1 .. L
  BY <1>1, BlockSyncOn
<1>3. synced \in Seq(NonGenesis)
  BY DEF GatewayInv, GatewayTypes
<1>4. /\ synced' \in Seq(NonGenesis) /\ Len(synced') = L - 1 /\ DOMAIN synced' = 1 .. L - 1
      /\ \A i \in 1 .. L - 1 : synced'[i] = synced[i + 1]
  BY <1>3
<1>5. ASSUME NEW i \in 1 .. L PROVE Before(i + 1) <= Before(i)' /\ Before(i)' \in Nat
  <2>0. i + 1 # 1 /\ i + 1 - 1 = i
    BY <1>1
  <2>1. Before(i + 1) = Number(synced[i])
    BY <2>0 DEF Before
  <2>2. CASE i = 1
    BY <1>2, <2>1, <2>2, BeforeType DEF Before, GatewayInv
  <2>3. CASE i # 1
    <3>1. i - 1 \in 1 .. L - 1 /\ (i - 1) + 1 = i
      BY <1>1, <2>3
    <3>2. synced'[i - 1] = synced[i]
      BY <1>4, <3>1
    <3>3. Before(i)' = Number(synced[i]) /\ Number(synced[i]) \in Nat
      BY <1>1, <2>3, <3>2 DEF Before
    <3>. QED BY <2>1, <3>3
  <2>. QED BY <2>2, <2>3
<1>6. Ranges'
  BY DEF GatewayInv, FetcherInv, Ranges
<1>7. ASSUME NEW i \in 1 .. L - 1 PROVE Handed(i)'
  <2>1. i + 1 \in 1 .. L /\ i \in 1 .. L
    BY <1>1
  <2>2. Handed(i + 1) /\ synced'[i] = synced[i + 1]
    BY <1>1, <1>4, <2>1, Zenon DEF GatewayInv, FetcherInv
  <2>3. Number(synced'[i]) <= Before(i)' + 1
    <3>1. /\ Before(i + 1) \in Nat /\ Before(i)' \in Nat /\ Number(synced[i + 1]) \in Nat
          /\ Before(i + 1) <= Before(i)'
      BY <1>1, <1>5, <2>1
    <3>2. Number(synced[i + 1]) <= Before(i + 1) + 1
      BY <2>2 DEF Handed
    <3>. QED BY <2>2, <3>1, <3>2
  <2>4. i + 1 = Len(synced) => i = Len(synced')
    BY <1>1, <1>4
  <2>5. Idle => Idle'
    BY DEF Idle
  <2>. QED BY <2>2, <2>3, <2>4, <2>5 DEF Handed
<1>8. (nextBlock <= Before(Len(synced) + 1) + 1)'
  <2>1. nextBlock <= Before(L + 1) + 1 /\ nextBlock \in Nat
    BY DEF GatewayInv, GatewayTypes, FetcherInv
  <2>2. L \in 1 .. L /\ L - 1 + 1 = L
    BY <1>1, <1>2
  <2>3. Before(L + 1) <= Before(L)' /\ Before(L)' \in Nat
    BY <1>5, <2>2
  <2>4. nextBlock <= Before(L)' + 1
    BY <1>1, <2>1, <2>3
  <2>. QED BY <1>4, <2>2, <2>4
<1>9. L = 1 => synced' = <<>>
  BY <1>4
<1>. QED BY <1>4, <1>6, <1>7, <1>8, <1>9 DEF FetcherInv

\* The sequencer takes a fetched block.
LEMMA BlockSyncStep ==
  ASSUME GatewayInv, GatewayBlockSync
  PROVE  GatewayInv'
<1>. DEFINE b == Head(synced)
<1>1. /\ synced # <<>> /\ synced' = Tail(synced) /\ handle_block_sync(b)
      /\ nextBlock' = nextBlock /\ syncUntil' = syncUntil
      /\ remote' = remote /\ driver' = driver
  BY DEF GatewayBlockSync, fetcherVars
<1>2. /\ Behind /\ (Number(b) = Number(remote) => Len(synced) = 1 /\ Idle)
  BY <1>1, BlockSyncOn
<1>3. state # "Sorting" /\ sharedState = <<>>
  BY <1>2 DEF Behind, Waiting
<1>4. /\ SyncingBlock(b) \/ WaitingBlock(b)
      /\ UNCHANGED <<attributes, fragSeq, sorting, sharedState, emitted, calls>>
  BY <1>1, <1>3 DEF handle_block_sync
<1>5. commit_block(b) /\ parent' = b
  BY <1>4 DEF SyncingBlock, WaitingBlock, ctx_commit_block
<1>6. /\ pendingBlocks' = <<>> /\ blocksToFetch' = {}
      /\ db' \in Hash /\ db' \in Ancestors(remote)
      /\ Number(db') \in Nat /\ Number(b) <= Number(db')
      /\ IF Number(b) = Number(remote) THEN b = remote /\ db' = remote ELSE db' # remote
  BY <1>1, <1>5, BlockSyncTo
<1>. HIDE DEF b
<1>7. /\ requests' = requests /\ lastBlockNumber' = lastBlockNumber
      /\ state' = IF state = "Syncing" /\ Number(b) # lastBlockNumber
                  THEN "Syncing" ELSE "WaitingForNewPayload"
  <2>1. CASE SyncingBlock(b)
    BY <1>6, <2>1 DEF SyncingBlock, Becomes
  <2>2. CASE WaitingBlock(b)
    BY <2>2 DEF WaitingBlock, Waiting, Becomes
  <2>. QED BY <1>4, <2>1, <2>2
<1>8. /\ FetcherInv' /\ synced' \in Seq(NonGenesis)
      /\ Len(synced) = 1 => synced' = <<>>
  BY <1>1, <1>6, <1>7, RestHanded DEF b
<1>9. GatewayTypes'
  BY <1>1, <1>6, <1>7, <1>8 DEF GatewayInv, GatewayTypes
<1>10. (AtHead \/ Behind)'
  <2>1. CASE Number(b) = Number(remote)
    <3>1. state' = "WaitingForNewPayload"
      BY <1>2, <1>7, <2>1 DEF Behind, Waiting
    <3>2. Idle' /\ synced' = <<>>
      BY <1>1, <1>2, <1>7, <1>8, <2>1 DEF Idle
    <3>3. db' = remote' /\ parent' = db' /\ sharedState' = <<>>
      BY <1>1, <1>3, <1>4, <1>5, <1>6, <2>1
    <3>. QED BY <3>1, <3>2, <3>3 DEF AtHead, Waiting
  <2>2. CASE Number(b) # Number(remote)
    <3>1. (Waiting \/ (state = "Syncing" /\ lastBlockNumber = Number(remote)))'
      BY <1>1, <1>2, <1>7 DEF Behind, Waiting
    <3>. QED BY <1>1, <1>3, <1>4, <1>6, <2>2, <3>1, Zenon DEF Behind
  <2>. QED BY <2>1, <2>2
<1>11. OpenBlock' /\ Messages(emitted')
  BY <1>4, <1>7 DEF GatewayInv, OpenBlock
<1>. QED BY <1>8, <1>9, <1>10, <1>11 DEF GatewayInv

-----------------------------------------------------------------------------
(***************************************************************************)
(* The engine calls.                                                       *)
(***************************************************************************)
\* What keeps the fetcher's invariant: its variables and the chain are as they were, and
\* the database has not moved back.
LEMMA FetcherKept ==
  ASSUME GatewayInv, UNCHANGED <<nextBlock, syncUntil, requests, synced, remote>>,
         db' \in Hash, Number(db) <= Number(db')
  PROVE  FetcherInv'
<1>1. \A i : Before(i) = Before(i)' \/ (i = 1 /\ Before(i)' = Number(db') /\ Before(i) = Number(db))
  BY DEF Before
<1>2. Number(db') \in Nat /\ Number(db) \in Nat
  BY LenProperties DEF GatewayInv, GatewayTypes, Hash, Number
<1>3. /\ Len(synced) \in Nat /\ DOMAIN synced = 1 .. Len(synced)
      /\ \A i \in 1 .. Len(synced) : Number(synced[i]) \in Nat
      /\ \A i \in 1 .. Len(synced) : Before(i) \in Nat
      /\ Before(Len(synced) + 1) \in Nat
  BY BeforeType DEF GatewayInv
<1>4. Idle' = Idle /\ Ranges' = Ranges
  BY DEF Idle, Ranges
<1>5. ASSUME NEW i \in DOMAIN synced PROVE Handed(i)'
  <2>1. Handed(i) /\ Before(i) \in Nat /\ Number(synced[i]) \in Nat
    BY <1>3 DEF GatewayInv, FetcherInv
  <2>2. Number(synced[i]) <= Before(i)' + 1
    BY <1>1, <1>2, <2>1 DEF Handed
  <2>. QED BY <1>4, <2>1, <2>2 DEF Handed
<1>6. (nextBlock <= Before(Len(synced) + 1) + 1)'
  <2>. PICK k : k = Len(synced) + 1
    OBVIOUS
  <2>1. nextBlock <= Before(k) + 1 /\ nextBlock \in Nat /\ Before(k) \in Nat
    BY <1>3 DEF GatewayInv, FetcherInv, GatewayTypes
  <2>2. nextBlock <= Before(k)' + 1
    BY <1>1, <1>2, <2>1
  <2>. QED BY <2>2
<1>. QED BY <1>4, <1>5, <1>6 DEF GatewayInv, FetcherInv

\* A call that leaves the sequencer alone.
LEMMA IgnoredStep ==
  ASSUME GatewayInv, IgnoredCall, UNCHANGED <<fetcherVars, synced, remote>>,
         driver # "insert", state # "Sorting"
  PROVE  GatewayInv'
<1>1. /\ db' = db /\ remote' = remote /\ pendingBlocks' = pendingBlocks
      /\ blocksToFetch' = blocksToFetch /\ state' = state /\ parent' = parent
      /\ lastBlockNumber' = lastBlockNumber /\ attributes' = attributes
      /\ fragSeq' = fragSeq /\ sorting' = sorting /\ sharedState' = sharedState
      /\ emitted' = emitted /\ requests' = requests
      /\ nextBlock' = nextBlock /\ syncUntil' = syncUntil /\ synced' = synced
  BY DEF IgnoredCall, syncVars, ctxVars, fetcherVars
<1>2. GatewayTypes'
  BY <1>1 DEF GatewayInv, GatewayTypes
<1>3. FetcherInv'
  <2>1. db \in Hash /\ Number(db) \in Nat
    BY LenProperties DEF GatewayInv, GatewayTypes, Hash, Number
  <2>. QED BY <1>1, <2>1, FetcherKept
<1>4. sharedState = <<>>
  BY DEF GatewayInv, AtHead, Behind, Ahead
<1>5. (AtHead \/ Behind)'
  <2>1. CASE AtHead
    BY <1>1, <1>4, <2>1 DEF AtHead, Waiting, Idle
  <2>2. CASE Behind
    BY <1>1, <2>2 DEF Behind, Waiting
  <2>3. ~Ahead
    BY DEF Ahead
  <2>. QED BY <2>1, <2>2, <2>3 DEF GatewayInv
<1>6. OpenBlock' /\ Messages(emitted')
  BY <1>1, Zenon DEF GatewayInv, OpenBlock
<1>. QED BY <1>2, <1>3, <1>5, <1>6 DEF GatewayInv

\* A forkchoice for the head of the execution node, with attributes or without.
LEMMA ForkchoiceStep ==
  ASSUME GatewayInv, driver # "insert", driver # "get", driver' # "insert",
         NEW attrs \in SUBSET Attributes, attrs # {} => driver' = "get",
         handle_fork_choice_updated_engine_api(remote, attrs),
         UNCHANGED <<fetcherVars, synced, remote>>
  PROVE  GatewayInv'
<1>1. state # "Sorting" /\ sharedState = <<>> /\ ~Ahead
  BY DEF GatewayInv, AtHead, Behind, Ahead, Waiting
<1>2. CASE IgnoredCall
  BY <1>1, <1>2, IgnoredStep
<1>3. CASE remote = db /\ ForkchoiceAtHead(attrs) /\ UNCHANGED syncVars
  <2>1. AtHead
    BY <1>1, <1>3 DEF GatewayInv, Behind
  <2>2. /\ db' = db /\ remote' = remote /\ pendingBlocks' = pendingBlocks
        /\ blocksToFetch' = blocksToFetch /\ requests' = requests
        /\ nextBlock' = nextBlock /\ syncUntil' = syncUntil /\ synced' = synced
    BY <1>3 DEF ForkchoiceAtHead, Becomes, syncVars, fetcherVars
  <2>3. GatewayTypes'
    BY <2>2 DEF GatewayInv, GatewayTypes
  <2>4. FetcherInv'
    <3>1. db \in Hash /\ Number(db) \in Nat
      BY LenProperties DEF GatewayInv, GatewayTypes, Hash, Number
    <3>. QED BY <2>2, <3>1, FetcherKept
  <2>5. CASE /\ attrs = {} /\ Becomes("WaitingForForkChoiceWithAttributes") /\ UNCHANGED ctxVars
    <3>1. /\ state' = "WaitingForForkChoiceWithAttributes" /\ parent' = parent
          /\ sharedState' = sharedState /\ emitted' = emitted
      BY <2>5 DEF Becomes, ctxVars
    <3>2. AtHead'
      BY <1>1, <2>1, <2>2, <3>1 DEF AtHead, Waiting, Idle
    <3>3. OpenBlock' /\ Messages(emitted')
      BY <3>1 DEF OpenBlock, GatewayInv
    <3>. QED BY <2>3, <2>4, <3>2, <3>3 DEF GatewayInv
  <2>6. CASE /\ parent # <<>> /\ Becomes("Sorting")
             /\ \E a \in attrs : start_sequencing(a) /\ emitted' = Append(emitted, EnvMessage(a))
    <3>1. PICK a \in attrs : start_sequencing(a) /\ emitted' = Append(emitted, EnvMessage(a))
      BY <2>6
    <3>2. a \in Attributes /\ a.forced \in Seq(Tx)
      BY AttributesAssumption
    <3>3. /\ state' = "Sorting" /\ parent' = parent /\ attributes' = {a} /\ fragSeq' = NoFrags
          /\ sorting' = [txs |-> a.forced, committed |-> Len(a.forced)]
          /\ sharedState' = <<>> \o a.forced
      BY <1>1, <2>6, <3>1, Zenon DEF Becomes, start_sequencing, apply_block_start_to_state
    <3>4. AtHead'
      BY <2>1, <2>2, <2>6, <3>1, <3>3 DEF AtHead, Idle
    <3>5. OpenBlock'
      <4>1. fragSeq'.txs = <<>> /\ sorting'.txs = a.forced /\ sorting'.committed = Len(a.forced)
        BY <3>3 DEF NoFrags
      <4>2. /\ <<>> \in Seq(Tx) /\ Len(a.forced) \in 0 .. Len(a.forced)
            /\ SubSeq(a.forced, 1, Len(a.forced)) = a.forced
        BY <3>2, SubSeqFull, LenProperties
      <4>3. attributes' # {} /\ attributes' \subseteq Attributes
        BY <3>2, <3>3
      <4>4. sorting' \in [txs : Seq(Tx), committed : Nat]
        BY <3>2, <3>3, <4>2
      <4>. QED BY <3>2, <3>3, <4>1, <4>2, <4>3, <4>4, Zenon DEF OpenBlock
    <3>6. Messages(emitted')
      <4>1. EnvMessage(a).type # "seal"
        BY DEF EnvMessage
      <4>. QED BY <3>1, <4>1, AddMessage DEF GatewayInv
    <3>. QED BY <2>3, <2>4, <3>4, <3>5, <3>6 DEF GatewayInv
  <2>7. CASE UNCHANGED <<state, lastBlockNumber, ctxVars, requests>>
    <3>1. IgnoredCall
      BY <1>3, <2>7 DEF IgnoredCall
    <3>. QED BY <1>1, <3>1, IgnoredStep
  <2>. QED BY <1>3, <2>5, <2>6, <2>7 DEF ForkchoiceAtHead
<1>. QED BY <1>2, <1>3 DEF handle_fork_choice_updated_engine_api

\* The block that is inserted.
LEMMA InsertedType ==
  ASSUME Messages(emitted), NEW b \in Block \cup OwnBlocks, b # <<>>
  PROVE  b \in NonGenesis
BY BlockAssumption DEF Messages, OwnBlocks, NonGenesis

\* A block is inserted: the next one, a later one, or the block the gateway committed.
LEMMA InsertStep ==
  ASSUME GatewayInv, NEW b \in NonGenesis, DriverInsert(b)
  PROVE  GatewayInv'
<1>1. /\ driver = "insert" /\ Parent(b) = remote /\ remote' = b /\ driver' = "confirm"
      /\ nextBlock' = nextBlock /\ syncUntil' = syncUntil /\ synced' = synced
      /\ handle_new_payload_engine_api(b)
  BY DEF DriverInsert, Driver, fetcherVars
<1>2. /\ remote \in Hash /\ b \in Hash /\ Len(b) \in Nat \ {0} /\ Len(remote) = Len(b) - 1
      /\ Len(remote) \in Nat /\ db \in Hash /\ Len(db) \in Nat /\ syncUntil \in Nat
  BY <1>1, ParentType, LenProperties DEF GatewayInv, GatewayTypes, NonGenesis, Hash
<1>3. CASE Behind
  <2>1. db \in Ancestors(remote) /\ Len(db) < Len(remote)
    <3>1. db \in Ancestors(remote) /\ db # remote
      BY <1>3 DEF Behind
    <3>. QED BY <1>2, <3>1, AncestorIs, TopAncestor
  <2>2. NewPayloadAhead(b)
    <3>1. Len(b) > Len(db) + 1 /\ b # db
      BY <1>2, <2>1
    <3>2. state # "Sorting" /\ state # "Panicked"
      BY <1>3 DEF Behind, Waiting
    <3>. QED BY <1>1, <1>2, <3>1, <3>2
            DEF handle_new_payload_engine_api, NewPayloadIsHead, NewPayloadCommit, Number
  <2>3. /\ state' = "Syncing" /\ lastBlockNumber' = Number(b) /\ db' = db
        /\ requests' = Append(requests, <<Number(db) + 1, Number(b)>>)
        /\ pendingBlocks' = pendingBlocks /\ blocksToFetch' = blocksToFetch
        /\ sharedState' = sharedState /\ emitted' = emitted
    BY <2>2 DEF NewPayloadAhead, sync_until, syncVars, ctxVars
  <2>4. <<Number(db) + 1, Number(b)>> \in (Nat \ {0}) \X Nat
    BY <1>2 DEF Number
  <2>5. requests' \in Seq((Nat \ {0}) \X Nat)
    BY <2>3, <2>4, AppendProperties DEF GatewayInv, GatewayTypes
  <2>6. GatewayTypes'
    BY <1>1, <1>2, <2>3, <2>5 DEF GatewayInv, GatewayTypes
  <2>7. Ranges'
    <3>1. \A i \in DOMAIN requests : requests[i][2] <= Number(b)
      <4>. TAKE i \in DOMAIN requests
      <4>1. requests[i][2] \in Nat
        BY DEF GatewayInv, GatewayTypes
      <4>2. requests[i][2] <= Number(remote)
        BY Zenon DEF GatewayInv, FetcherInv, Ranges
      <4>. QED BY <1>2, <4>1, <4>2 DEF Number
    <3>2. \A i \in DOMAIN requests' : requests'[i][2] <= Number(b)
      <4>. DEFINE r == <<Number(db) + 1, Number(b)>>
      <4>1. requests \in Seq((Nat \ {0}) \X Nat) /\ Len(requests) \in Nat /\ DOMAIN requests = 1 .. Len(requests)
        BY LenProperties DEF GatewayInv, GatewayTypes
      <4>2. r[2] = Number(b)
        OBVIOUS
      <4>. HIDE DEF r
      <4>3. /\ DOMAIN requests' = 1 .. Len(requests) + 1 /\ requests'[Len(requests) + 1] = r
            /\ \A i \in 1 .. Len(requests) : requests'[i] = requests[i]
        BY <2>3, <4>1 DEF r
      <4>4. Number(b) <= Number(b)
        BY <1>2 DEF Number
      <4>. TAKE i \in DOMAIN requests'
      <4>5. i \in 1 .. Len(requests) \/ i = Len(requests) + 1
        BY <4>1, <4>3
      <4>. QED BY <3>1, <4>1, <4>2, <4>3, <4>4, <4>5, Zenon
    <3>3. syncUntil < Number(b)
      BY <1>2 DEF GatewayInv, FetcherInv, Ranges, Number
    <3>. QED BY <1>1, <1>2, <3>2, <3>3 DEF Ranges, Number
  <2>8. \A i : Before(i)' = Before(i)
    BY <1>1, <2>3 DEF Before
  <2>9. ASSUME NEW i \in DOMAIN synced PROVE Handed(i)'
    <3>1. Handed(i) /\ synced[i] \in Ancestors(remote)
      BY Zenon DEF GatewayInv, FetcherInv, Handed
    <3>2. synced[i] \in Ancestors(b)
      BY <1>1, <3>1, AncestorOfParent
    <3>3. Number(synced[i]) # Number(b)
      BY <1>2, <3>1, AncestorIs DEF Number
    <3>. QED BY <1>1, <2>8, <3>1, <3>2, <3>3 DEF Handed
  <2>10. (nextBlock <= Before(Len(synced) + 1) + 1)'
    BY <1>1, <2>8 DEF GatewayInv, FetcherInv
  <2>11. FetcherInv'
    BY <1>1, <2>7, <2>9, <2>10 DEF FetcherInv
  <2>12. Behind'
    <3>1. db \in Ancestors(b)
      BY <1>1, <2>1, AncestorOfParent
    <3>2. db # b
      BY <1>2, <2>1
    <3>. QED BY <1>1, <1>3, <2>3, <3>1, <3>2 DEF Behind
  <2>13. OpenBlock' /\ Messages(emitted')
    BY <2>3 DEF OpenBlock, GatewayInv
  <2>. QED BY <2>6, <2>11, <2>12, <2>13 DEF GatewayInv
<1>4. CASE AtHead \/ Ahead
  <2>1. /\ db = remote \/ (db # <<>> /\ Parent(db) = remote)
        /\ Waiting /\ Idle /\ synced = <<>> /\ (db = b => parent = db)
    <3>1. remote # b
      BY <1>2
    <3>. QED BY <1>1, <1>4, <3>1, Zenon DEF AtHead, Ahead
  <2>2. Len(db) = Len(remote) \/ Len(db) = Len(b)
    BY <1>2, <2>1, ParentType DEF NonGenesis
  <2>3. NewPayloadIsHead(b) \/ NewPayloadCommit(b)
    <3>1. ~(Len(b) > Len(db) + 1)
      BY <1>2, <2>2
    <3>2. state # "Sorting" /\ state # "Panicked" /\ state # "Syncing"
      BY <2>1 DEF Waiting
    <3>. QED BY <1>1, <3>1, <3>2 DEF handle_new_payload_engine_api, NewPayloadAhead, Number
  <2>4. /\ db' = b /\ parent' = b /\ pendingBlocks' = <<>> /\ blocksToFetch' = {}
        /\ state' = "WaitingForForkChoiceWithAttributes" /\ requests' = requests
        /\ sharedState' = <<>> /\ emitted' = emitted
    <3>1. CASE NewPayloadIsHead(b)
      BY <2>1, <3>1 DEF NewPayloadIsHead, Becomes, syncVars, GatewayInv, GatewayTypes
    <3>2. CASE NewPayloadCommit(b)
      <4>1. b # db /\ commit_block(b) /\ parent' = b /\ sharedState' = <<>> /\ emitted' = emitted
        BY <3>2 DEF NewPayloadCommit, ctx_commit_block
      <4>2. pendingBlocks' = <<>> /\ blocksToFetch' = {} /\ db' = b
        BY <1>1, <2>1, <4>1, CommitInserted DEF GatewayInv
      <4>3. Becomes("WaitingForForkChoiceWithAttributes")
        BY <3>2, <4>2 DEF NewPayloadCommit
      <4>. QED BY <4>1, <4>2, <4>3 DEF Becomes
    <3>. QED BY <2>3, <3>1, <3>2
  <2>5. GatewayTypes'
    BY <1>1, <1>2, <2>4 DEF GatewayInv, GatewayTypes
  <2>6. FetcherInv'
    <3>1. Ranges'
      BY <1>1, <1>2, <2>1, <2>4 DEF Ranges, Idle, Number, GatewayInv, FetcherInv
    <3>2. nextBlock <= Number(db) + 1 /\ nextBlock \in Nat
      BY <2>1 DEF GatewayInv, GatewayTypes, FetcherInv, Before
    <3>3. nextBlock <= Number(b) + 1
      BY <1>2, <2>2, <3>2 DEF Number
    <3>. QED BY <1>1, <2>1, <2>4, <3>1, <3>3 DEF FetcherInv, Before
  <2>7. AtHead'
    BY <1>1, <2>1, <2>4 DEF AtHead, Waiting, Idle
  <2>8. OpenBlock' /\ Messages(emitted')
    BY <2>4 DEF OpenBlock, GatewayInv
  <2>. QED BY <2>5, <2>6, <2>7, <2>8 DEF GatewayInv
<1>. QED BY <1>3, <1>4 DEF GatewayInv

-----------------------------------------------------------------------------
(***************************************************************************)
(* The open block.                                                         *)
(***************************************************************************)
\* With the frag in it, the shared state has the transactions of the block.
LEMMA SharedIsBlock ==
  ASSUME OpenBlock, state = "Sorting"
  PROVE  SharedWithFrag = FragSealed.txs /\ FragSealed.txs \in Seq(Tx)
<1>. DEFINE f == fragSeq.txs
            s == sorting.txs
            c == sorting.committed
<1>1. f \in Seq(Tx) /\ s \in Seq(Tx) /\ c \in 0 .. Len(s) /\ sharedState = f \o SubSeq(s, 1, c)
  BY Zenon DEF OpenBlock
<1>2. SharedWithFrag = sharedState \o SubSeq(s, c + 1, Len(s)) /\ FragSealed.txs = f \o s
  BY Zenon DEF SharedWithFrag, SortedTxs, FragSealed
<1>. HIDE DEF f, s, c
<1>3. Len(s) \in Nat /\ c \in Nat /\ c <= Len(s)
  BY <1>1, LenProperties
<1>4. SubSeq(s, 1, c) \o SubSeq(s, c + 1, Len(s)) = s
  <2>1. SubSeq(s, 1, c) \o SubSeq(s, c + 1, Len(s)) = SubSeq(s, 1, Len(s))
    <3>1. 1 \in 1 .. Len(s) + 1 /\ c \in 1 - 1 .. Len(s) /\ Len(s) \in c .. Len(s)
      BY <1>3
    <3>. QED BY <1>1, <3>1, ConcatAdjacentSubSeq, Zenon
  <2>. QED BY <1>1, <2>1, SubSeqFull, Zenon
<1>5. SubSeq(s, 1, c) \in Seq(Tx) /\ SubSeq(s, c + 1, Len(s)) \in Seq(Tx)
  <2>1. \A i \in 1 .. Len(s) : s[i] \in Tx
    BY <1>1
  <2>2. (\A i \in 1 .. c : s[i] \in Tx) /\ (\A i \in c + 1 .. Len(s) : s[i] \in Tx)
    BY <1>3, <2>1
  <2>. QED BY <1>3, <2>2, SubSeqProperties
<1>6. ASSUME NEW u \in Seq(Tx), NEW v \in Seq(Tx) PROVE (f \o u) \o v = f \o (u \o v)
  BY <1>1
<1>7. SharedWithFrag = f \o s
  <2>. DEFINE u == SubSeq(s, 1, c)
              v == SubSeq(s, c + 1, Len(s))
  <2>1. u \in Seq(Tx) /\ v \in Seq(Tx) /\ u \o v = s /\ SharedWithFrag = (f \o u) \o v
    BY <1>1, <1>2, <1>4, <1>5, Zenon
  <2>. HIDE DEF u, v
  <2>. QED BY <1>6, <2>1, Zenon
<1>8. f \o s \in Seq(Tx)
  BY <1>1
<1>. QED BY <1>2, <1>7, <1>8, Zenon

\* The sealed block extends the head, and its root is its own.
LEMMA SealIsHonest ==
  ASSUME GatewayInv, state = "Sorting"
  PROVE  /\ db = remote /\ parent = db /\ SealedHash \in NonGenesis /\ Parent(SealedHash) = db
         /\ RootOf(SealMessage) /\ SealMessage.hash = SealedHash
<1>1. db = remote /\ parent = db /\ db \in Seq(Content)
  BY Zenon DEF GatewayInv, GatewayTypes, AtHead, Behind, Ahead, Waiting, Hash
<1>2. SharedWithFrag = FragSealed.txs /\ FragSealed.txs \in Seq(Tx)
  BY SharedIsBlock DEF GatewayInv
<1>. DEFINE a == CHOOSE x \in attributes : TRUE
            t == FragSealed.txs
            c == [time |-> a.time, txs |-> t]
<1>3. a \in Attributes
  BY DEF GatewayInv, OpenBlock
<1>4. a.time \in Nat
  BY <1>3, AttributesAssumption
<1>5. SealedHash = Append(parent, c)
  BY DEF SealedHash
<1>6. c \in Content /\ c.txs = t
  BY <1>2, <1>4 DEF Content
<1>. HIDE DEF c
<1>7. /\ Append(db, c) \in Seq(Content) /\ Append(db, c) # <<>>
      /\ Len(Append(db, c)) = Len(db) + 1 /\ Append(db, c)[Len(db) + 1] = c
  BY <1>1, <1>6, AppendProperties
<1>8. Parent(Append(db, c)) = db
  <2>1. Len(db) \in Nat /\ Len(db) + 1 - 1 = Len(db)
    BY <1>1, LenProperties
  <2>2. SubSeq(Append(db, c), 1, Len(db)) = db
    BY <1>1, <1>6
  <2>. QED BY <1>7, <2>1, <2>2 DEF Parent
<1>9. SealMessage.hash = SealedHash /\ SealMessage.root = [db |-> db, txs |-> t]
  BY <1>2 DEF SealMessage
<1>10. RootOf(SealMessage)
  BY <1>1, <1>5, <1>6, <1>7, <1>8, <1>9, Zenon DEF RootOf
<1>11. SealedHash = Append(db, c)
  BY <1>1, <1>5
<1>12. Append(db, c) \in NonGenesis
  BY <1>7 DEF NonGenesis, Hash
<1>. QED BY <1>1, <1>8, <1>9, <1>10, <1>11, <1>12, Zenon

\* The payload is asked for: the block is sealed, and committed if so configured.
LEMMA GetPayloadStep ==
  ASSUME GatewayInv, DriverGetPayload
  PROVE  GatewayInv'
<1>1. /\ driver = "get" /\ driver' = "insert" /\ handle_get_payload_engine_api
      /\ nextBlock' = nextBlock /\ syncUntil' = syncUntil /\ synced' = synced /\ remote' = remote
      /\ UNCHANGED <<fetcherVars, synced, remote>>
  BY DEF DriverGetPayload, Driver, fetcherVars
<1>2. CASE state # "Sorting"
  BY <1>1, <1>2, IgnoredStep DEF handle_get_payload_engine_api
<1>3. CASE state = "Sorting"
  <2>1. /\ emitted' = emitted \o <<FragMessage(TRUE), SealMessage>>
        /\ \/ CommitSealed
           \/ /\ Becomes("WaitingForNewPayload")
              /\ UNCHANGED <<syncVars, parent>>
    BY <1>1, <1>3, Zenon DEF handle_get_payload_engine_api
  <2>2. AtHead
    BY <1>3 DEF GatewayInv, Behind, Ahead, Waiting
  <2>3. /\ db = remote /\ parent = db /\ SealedHash \in NonGenesis /\ Parent(SealedHash) = db
        /\ RootOf(SealMessage) /\ SealMessage.hash = SealedHash
    BY <1>3, SealIsHonest
  <2>4. Messages(emitted')
    <3>. DEFINE f == FragMessage(TRUE)
                m == SealMessage
    <3>1. f.type # "seal"
      BY DEF FragMessage
    <3>2. m.hash \in NonGenesis /\ RootOf(m)
      BY <2>3
    <3>3. emitted' = emitted \o <<f, m>>
      BY <2>1
    <3>. HIDE DEF f, m
    <3>4. emitted \o <<f, m>> = Append(Append(emitted, f), m)
      <4>1. emitted \in Seq(TxSet(emitted) \cup {f, m})
        BY DEF GatewayInv, Messages
      <4>. QED BY <4>1
    <3>5. Messages(Append(emitted, f))
      BY <3>1, AddMessage DEF GatewayInv
    <3>6. Messages(Append(Append(emitted, f), m))
      BY <3>2, <3>5, AddMessage
    <3>. QED BY <3>3, <3>4, <3>6, Zenon
  <2>5. CASE Becomes("WaitingForNewPayload") /\ UNCHANGED <<syncVars, parent>>
    <3>1. /\ state' = "WaitingForNewPayload" /\ requests' = requests /\ parent' = parent
          /\ db' = db /\ pendingBlocks' = pendingBlocks /\ blocksToFetch' = blocksToFetch
      BY <2>5 DEF Becomes, syncVars
    <3>2. GatewayTypes'
      BY <1>1, <3>1 DEF GatewayInv, GatewayTypes
    <3>3. FetcherInv'
      <4>1. db \in Hash /\ Number(db) \in Nat
        BY LenProperties DEF GatewayInv, GatewayTypes, Hash, Number
      <4>. QED BY <1>1, <3>1, <4>1, FetcherKept
    <3>4. AtHead' /\ OpenBlock'
      BY <1>1, <2>2, <3>1 DEF AtHead, OpenBlock, Waiting, Idle
    <3>. QED BY <2>4, <3>2, <3>3, <3>4 DEF GatewayInv
  <2>6. CASE CommitSealed
    <3>1. /\ commit_block(SealedHash) /\ parent' = SealedHash /\ sharedState' = <<>>
          /\ Becomes("WaitingForForkChoiceWithAttributes")
      BY <2>3, <2>6 DEF CommitSealed, ctx_commit_block
    <3>2. /\ Len(SealedHash) \in Nat /\ Len(db) \in Nat /\ Len(db) = Len(SealedHash) - 1
          /\ db \in Hash /\ SealedHash \in Hash /\ SealedHash # <<>>
      BY <2>3, ParentType, LenProperties DEF GatewayInv, GatewayTypes, NonGenesis, Hash
    <3>3. pendingBlocks' = <<>> /\ blocksToFetch' = {} /\ db' = SealedHash
      <4>1. SealedHash # db
        BY <3>2
      <4>. QED BY <2>3, <3>1, <4>1, CommitInserted, Zenon DEF GatewayInv
    <3>4. state' = "WaitingForForkChoiceWithAttributes" /\ requests' = requests
      BY <3>1 DEF Becomes
    <3>5. GatewayTypes'
      BY <1>1, <3>2, <3>3, <3>4 DEF GatewayInv, GatewayTypes
    <3>6. FetcherInv'
      <4>1. db' \in Hash /\ Number(db) <= Number(db')
        BY <3>2, <3>3 DEF Number
      <4>. QED BY <1>1, <3>4, <4>1, FetcherKept
    <3>7. Ahead'
      BY <1>1, <2>2, <2>3, <3>1, <3>2, <3>3, <3>4, Zenon DEF AtHead, Ahead, Waiting, Idle
    <3>8. OpenBlock'
      BY <3>4 DEF OpenBlock
    <3>. QED BY <2>4, <3>5, <3>6, <3>7, <3>8 DEF GatewayInv
  <2>. QED BY <2>1, <2>5, <2>6
<1>. QED BY <1>2, <1>3

\* The sequencer seals a frag, or sorts on.
LEMMA GatewayTickStep ==
  ASSUME GatewayInv, GatewayTick
  PROVE  GatewayInv'
<1>1. Tick /\ UNCHANGED <<fetcherVars, synced, remote, driver>>
  BY DEF GatewayTick
<1>2. /\ state = "Sorting" /\ state' = state /\ parent' = parent /\ attributes' = attributes
      /\ db' = db /\ pendingBlocks' = pendingBlocks /\ blocksToFetch' = blocksToFetch
      /\ requests' = requests /\ remote' = remote /\ driver' = driver
      /\ nextBlock' = nextBlock /\ syncUntil' = syncUntil /\ synced' = synced
  BY <1>1, Zenon DEF Tick, TickSealFrag, TickApply, syncVars, fetcherVars
<1>3. GatewayTypes'
  BY <1>2 DEF GatewayInv, GatewayTypes
<1>4. FetcherInv'
  <2>1. db \in Hash /\ Number(db) \in Nat
    BY LenProperties DEF GatewayInv, GatewayTypes, Hash, Number
  <2>. QED BY <1>2, <2>1, FetcherKept
<1>5. AtHead'
  BY <1>2, Zenon DEF GatewayInv, AtHead, Behind, Ahead, Waiting, Idle
<1>6. /\ attributes # {} /\ attributes \subseteq Attributes
      /\ fragSeq.txs \in Seq(Tx) /\ sorting \in [txs : Seq(Tx), committed : Nat]
      /\ sorting.committed \in 0 .. Len(sorting.txs)
      /\ sharedState = fragSeq.txs \o SubSeq(sorting.txs, 1, sorting.committed)
  BY <1>2, Zenon DEF GatewayInv, OpenBlock
<1>7. CASE TickSealFrag
  <2>1. /\ emitted' = Append(emitted, FragMessage(FALSE)) /\ fragSeq' = FragSealed
        /\ sharedState' = SharedWithFrag /\ sorting' = NoSort
    BY <1>7, Zenon DEF TickSealFrag
  <2>2. SharedWithFrag = FragSealed.txs /\ FragSealed.txs \in Seq(Tx)
    BY <1>2, SharedIsBlock DEF GatewayInv
  <2>3. OpenBlock'
    <3>1. sorting'.txs = <<>> /\ sorting'.committed = 0
      BY <2>1, Zenon DEF NoSort
    <3>2. fragSeq'.txs \in Seq(Tx) /\ sharedState' = fragSeq'.txs
      BY <2>1, <2>2
    <3>3. <<>> \in Seq(Tx) /\ 0 \in 0 .. Len(<<>>) /\ SubSeq(<<>>, 1, 0) = <<>>
      OBVIOUS
    <3>4. ASSUME NEW x \in Seq(Tx) PROVE x \o <<>> = x
      OBVIOUS
    <3>5. sorting' \in [txs : Seq(Tx), committed : Nat]
      BY <2>1 DEF NoSort
    <3>. QED BY <1>2, <1>6, <3>1, <3>2, <3>3, <3>4, <3>5, Zenon DEF OpenBlock
  <2>4. Messages(emitted')
    <3>1. FragMessage(FALSE).type # "seal"
      BY Zenon DEF FragMessage
    <3>. QED BY <2>1, <3>1, AddMessage, Zenon DEF GatewayInv
  <2>. QED BY <1>3, <1>4, <1>5, <2>3, <2>4 DEF GatewayInv
<1>8. ASSUME NEW t \in Tx, TickApply(t) PROVE GatewayInv'
  <2>1. /\ sorting' = [sorting EXCEPT !.txs = Append(sorting.txs, t)]
        /\ fragSeq' = fragSeq /\ sharedState' = sharedState /\ emitted' = emitted
    BY <1>8 DEF TickApply
  <2>. DEFINE s == sorting.txs
              c == sorting.committed
  <2>2. /\ sorting'.txs = Append(s, t) /\ sorting'.committed = c
        /\ s \in Seq(Tx) /\ c \in 0 .. Len(s) /\ Len(s) \in Nat /\ c \in Nat
        /\ sharedState = fragSeq.txs \o SubSeq(s, 1, c)
    BY <1>6, <2>1, LenProperties
  <2>3. sorting' \in [txs : Seq(Tx), committed : Nat]
    <3>1. Append(s, t) \in Seq(Tx)
      BY <2>2
    <3>. QED BY <1>6, <2>1, <3>1, Zenon
  <2>. HIDE DEF s, c
  <2>4. /\ Len(Append(s, t)) = Len(s) + 1
        /\ SubSeq(Append(s, t), 1, c) = SubSeq(s, 1, c)
    BY <2>2
  <2>5. c \in 0 .. Len(Append(s, t))
    BY <2>2, <2>4
  <2>6. OpenBlock'
    BY <1>2, <1>6, <2>1, <2>2, <2>3, <2>4, <2>5, Zenon DEF OpenBlock
  <2>. QED BY <1>3, <1>4, <1>5, <2>1, <2>6 DEF GatewayInv
<1>. QED BY <1>1, <1>7, <1>8 DEF Tick

-----------------------------------------------------------------------------
\* The first state.
LEMMA GatewayInitInv ==
  ASSUME StartsOnChain, GatewayInit
  PROVE  GatewayInv
<1>1. /\ db = InitHead /\ pendingBlocks = <<>> /\ blocksToFetch = {}
      /\ state = "WaitingForNewPayload" /\ parent = <<>> /\ sharedState = <<>>
      /\ requests = <<>> /\ emitted = <<>> /\ remote = InitRemote
      /\ nextBlock = Number(InitHead) + 1 /\ syncUntil = Number(remote) /\ synced = <<>>
  BY DEF GatewayInit, SequencerInit, SyncInit, Fetcher!FetcherInit, Fetcher!Number, Number
<1>2. /\ remote \in Hash /\ db \in Hash /\ db \in Ancestors(remote)
      /\ Len(remote) \in Nat /\ Len(db) \in Nat
  BY <1>1, GatewayAssumption, BlockAssumption, LenProperties DEF StartsOnChain, Hash
<1>3. GatewayTypes
  BY <1>1, <1>2 DEF GatewayTypes, Number
<1>4. FetcherInv
  BY <1>1, <1>2 DEF FetcherInv, Ranges, Before, Number
<1>5. AtHead \/ Behind
  <2>1. CASE db = remote
    BY <1>1, <1>2, <2>1 DEF AtHead, Waiting, Idle, Number
  <2>2. CASE db # remote
    BY <1>1, <1>2, <2>2 DEF Behind, Waiting
  <2>. QED BY <2>1, <2>2
<1>6. OpenBlock /\ Messages(emitted)
  BY <1>1 DEF OpenBlock, Messages, TxSet
<1>. QED BY <1>3, <1>4, <1>5, <1>6 DEF GatewayInv

\* Every step of the gateway and of op-node.
LEMMA GatewayStep == GatewayInv /\ [GatewayNext]_gatewayVars => GatewayInv'
<1>. SUFFICES ASSUME GatewayInv, [GatewayNext]_gatewayVars PROVE GatewayInv'
  OBVIOUS
<1>1. ASSUME NEW a \in Attributes, DriverBuild(a) PROVE GatewayInv'
  <2>1. /\ driver = "build" /\ driver' = "get" /\ UNCHANGED <<fetcherVars, synced, remote>>
        /\ handle_fork_choice_updated_engine_api(remote, {a})
    BY <1>1 DEF DriverBuild, Driver
  <2>. QED BY <2>1, ForkchoiceStep
<1>2. CASE DriverGetPayload
  BY <1>2, GetPayloadStep
<1>3. ASSUME NEW b \in Block \cup OwnBlocks, b # <<>>, DriverInsert(b) PROVE GatewayInv'
  BY <1>3, InsertedType, InsertStep DEF GatewayInv
<1>4. CASE DriverConfirm
  <2>1. /\ driver = "confirm" /\ driver' = "build" /\ UNCHANGED <<fetcherVars, synced, remote>>
        /\ handle_fork_choice_updated_engine_api(remote, {})
    BY <1>4 DEF DriverConfirm, Driver
  <2>. QED BY <2>1, ForkchoiceStep
<1>5. CASE GatewayTick
  BY <1>5, GatewayTickStep
<1>6. CASE GatewayFetch
  BY <1>6, FetchBatchStep, ReceiveRequestsStep DEF GatewayFetch, Fetcher!FetcherNext
<1>7. CASE GatewayBlockSync
  BY <1>7, BlockSyncStep
<1>8. CASE UNCHANGED gatewayVars
  <2>1. /\ db' = db /\ remote' = remote /\ pendingBlocks' = pendingBlocks
        /\ blocksToFetch' = blocksToFetch /\ state' = state /\ parent' = parent
        /\ lastBlockNumber' = lastBlockNumber /\ attributes' = attributes
        /\ fragSeq' = fragSeq /\ sorting' = sorting /\ sharedState' = sharedState
        /\ emitted' = emitted /\ requests' = requests /\ driver' = driver
        /\ nextBlock' = nextBlock /\ syncUntil' = syncUntil /\ synced' = synced
    BY <1>8, Zenon DEF gatewayVars, sequencerVars, syncVars, ctxVars, fetcherVars
  <2>2. GatewayTypes' /\ (AtHead \/ Behind \/ Ahead)'
    BY <2>1, Zenon DEF GatewayInv, GatewayTypes, AtHead, Behind, Ahead, Waiting, Idle
  <2>3. FetcherInv'
    <3>1. db \in Hash /\ Number(db) \in Nat
      BY LenProperties DEF GatewayInv, GatewayTypes, Hash, Number
    <3>. QED BY <2>1, <3>1, FetcherKept
  <2>4. OpenBlock' /\ Messages(emitted')
    BY <2>1, Zenon DEF GatewayInv, OpenBlock
  <2>. QED BY <2>2, <2>3, <2>4 DEF GatewayInv
<1>. QED BY <1>1, <1>2, <1>3, <1>4, <1>5, <1>6, <1>7, <1>8 DEF GatewayNext, DriverNext

\* The gateway builds on the head of the execution node: whatever op-node inserts,
\* however far behind the database starts and whatever the fetcher hands in when, the
\* parent of the block it sorts is that head, and the head of its database.
THEOREM GatewayBuildsOnHead == StartsOnChain /\ GatewaySpec => []BuildsOnHead
<1>. SUFFICES ASSUME StartsOnChain PROVE GatewaySpec => []BuildsOnHead
  OBVIOUS
<1>1. GatewayInit => GatewayInv
  BY GatewayInitInv
<1>2. GatewayInv => BuildsOnHead
  BY Zenon DEF GatewayInv, AtHead, Behind, Ahead, BuildsOnHead, Waiting
<1>. QED BY <1>1, <1>2, GatewayStep, PTL DEF GatewaySpec

\* Every block the gateway seals has the state root of its own transactions on its own
\* parent, with commit_sealed_frags_to_db or without: the shared state that outlives a
\* block is empty when the next one starts.
THEOREM GatewaySealsHonestly == StartsOnChain /\ GatewaySpec => []HonestSeals
<1>. SUFFICES ASSUME StartsOnChain PROVE GatewaySpec => []HonestSeals
  OBVIOUS
<1>1. GatewayInit => GatewayInv
  BY GatewayInitInv
<1>2. GatewayInv => HonestSeals
  BY DEF GatewayInv, Messages, HonestSeals
<1>. QED BY <1>1, <1>2, GatewayStep, PTL DEF GatewaySpec

\* No fetched block reaches the sequencer while it sorts, which the code takes for an
\* error: when the database is at the head, the fetcher has nothing left to hand in.
THEOREM NoFetchedBlockWhileSorting == StartsOnChain /\ GatewaySpec => NoBlockWhileSorting
<1>. SUFFICES ASSUME StartsOnChain PROVE GatewaySpec => NoBlockWhileSorting
  OBVIOUS
<1>1. GatewayInit => GatewayInv
  BY GatewayInitInv
<1>2. GatewayInv => ~(state = "Sorting" /\ GatewayBlockSync)
  <2>. SUFFICES ASSUME GatewayInv, state = "Sorting", GatewayBlockSync PROVE FALSE
    OBVIOUS
  <2>1. synced # <<>>
    BY DEF GatewayBlockSync
  <2>2. Behind
    BY <2>1, BlockSyncOn
  <2>. QED BY <2>2 DEF Behind, Waiting
<1>. QED BY <1>1, <1>2, GatewayStep, PTL DEF GatewaySpec, NoBlockWhileSorting
=============================================================================
