---------------------------- MODULE SortingLemmas ----------------------------
(***************************************************************************)
(* What the operators of TxPool and Sorting do, for SortingProofs: how the *)
(* bag of requests is counted, which lists the pool holds, which operation *)
(* adds or removes an order of which sender, and how many simulations      *)
(* send_next sends for each.  Loops are LET-recursive functions of the     *)
(* model: StepsExist shows that they exist, and LeastNat does induction.    *)
(***************************************************************************)
EXTENDS Sorting, FiniteSetTheorems, TLAPS

(***************************************************************************)
(* Sequences, as far as the proofs below need them.                        *)
(***************************************************************************)
\* A sequence over a set is one over a larger set.
LEMMA SeqMonotonic ==
    ASSUME NEW A, NEW B, A \subseteq B, NEW s \in Seq(A) PROVE s \in Seq(B)
OBVIOUS

\* An element of a sequence.
LEMMA ElementOfSeq ==
    ASSUME NEW A, NEW s \in Seq(A), NEW i \in 1 .. Len(s) PROVE s[i] \in A
OBVIOUS

\* A sequence is a function on its positions.
LEMMA LenProperties ==
    ASSUME NEW A, NEW s \in Seq(A)
    PROVE  Len(s) \in Nat /\ DOMAIN s = 1 .. Len(s) /\ s \in [1 .. Len(s) -> A]
OBVIOUS

\* One element replaced.
LEMMA ExceptSeq ==
    ASSUME NEW A, NEW s \in Seq(A), NEW k \in 1 .. Len(s), NEW x \in A
    PROVE  LET t == [s EXCEPT ![k] = x]
           IN  t \in Seq(A) /\ Len(t) = Len(s) /\ \A i \in 1 .. Len(s) : t[i] = IF i = k THEN x ELSE s[i]
OBVIOUS

\* Concatenation, position by position.
LEMMA ConcatProperties ==
    ASSUME NEW A, NEW s \in Seq(A), NEW t \in Seq(A)
    PROVE  /\ s \o t \in Seq(A) /\ Len(s \o t) = Len(s) + Len(t)
           /\ \A i \in 1 .. Len(s) + Len(t) :
                 (s \o t)[i] = IF i <= Len(s) THEN s[i] ELSE t[i - Len(s)]
OBVIOUS

\* Nothing concatenated.
LEMMA ConcatEmptySeq ==
    ASSUME NEW A, NEW s \in Seq(A) PROVE s \o <<>> = s /\ <<>> \o s = s
OBVIOUS

\* Concatenation is associative.
LEMMA ConcatAssociative ==
    ASSUME NEW A, NEW s \in Seq(A), NEW t \in Seq(A), NEW u \in Seq(A)
    PROVE  (s \o t) \o u = s \o (t \o u)
OBVIOUS

\* A subsequence, position by position.
LEMMA SubSeqProperties ==
    ASSUME NEW A, NEW s, NEW k \in Int, NEW l \in Int, \A i \in k .. l : s[i] \in A
    PROVE  /\ SubSeq(s, k, l) \in Seq(A)
           /\ Len(SubSeq(s, k, l)) = IF k <= l THEN l - k + 1 ELSE 0
           /\ \A i \in 1 .. l - k + 1 : SubSeq(s, k, l)[i] = s[k + i - 1]
OBVIOUS

\* The first element and the rest.
LEMMA HeadTailProperties ==
    ASSUME NEW A, NEW s \in Seq(A), s # <<>>
    PROVE  /\ Head(s) \in A /\ Tail(s) \in Seq(A) /\ Len(Tail(s)) = Len(s) - 1
           /\ \A i \in 1 .. Len(Tail(s)) : Tail(s)[i] = s[i + 1]
OBVIOUS

\* One element more.
LEMMA AppendProperties ==
    ASSUME NEW A, NEW s \in Seq(A), NEW x \in A
    PROVE  /\ Append(s, x) \in Seq(A) /\ Append(s, x) # <<>> /\ Len(Append(s, x)) = Len(s) + 1
           /\ Append(s, x)[Len(s) + 1] = x /\ \A i \in 1 .. Len(s) : Append(s, x)[i] = s[i]
OBVIOUS

\* One element more, as a concatenation.
LEMMA AppendIsConcat ==
    ASSUME NEW A, NEW s \in Seq(A), NEW x \in A PROVE Append(s, x) = s \o <<x>>
OBVIOUS

-----------------------------------------------------------------------------

\* The least counterexample of an inductive argument.
LEMMA LeastNat ==
    ASSUME NEW T, T \subseteq Nat, T # {}
    PROVE  \E m \in T : \A k \in T : m <= k
<1>. DEFINE R == OpToRel(<, Nat)
<1>1. IsWellFoundedOn(R, Nat)
  BY NatLessThanWellFounded, Zenon
<1>2. \A x, y \in Nat : <<x, y>> \in R <=> x < y
  BY DEF OpToRel
<1>. HIDE DEF R
<1>3. PICK x \in T : \A y \in T : ~(<<y, x>> \in R)
  BY <1>1, WFMin, Zenon
<1>4. ASSUME NEW y \in T PROVE x <= y
  <2>1. x \in Nat /\ y \in Nat
    OBVIOUS
  <2>2. ~(y < x)
    BY <1>2, <1>3, <2>1, Zenon
  <2>. QED BY <2>1, <2>2
<1>. QED BY <1>3, <1>4

\* g goes from start through the steps of F.
Steps(g, F, start, n) ==
    g[0] = start /\ \A i \in 1 .. n : g[i] = F[<<i, g[i - 1]>>]

LEMMA StepsExist ==
    ASSUME NEW S, NEW start \in S, NEW F \in [Nat \X S -> S], NEW n \in Nat
    PROVE  \E g \in [0 .. n -> S] : Steps(g, F, start, n)
<1>. DEFINE P(k) == \E g \in [0 .. k -> S] : Steps(g, F, start, k)
            T == {k \in Nat : ~P(k)}
<1>. SUFFICES ASSUME T # {} PROVE FALSE
  OBVIOUS
<1>1. PICK m \in T : \A k \in T : m <= k
  <2>1. T \subseteq Nat
    OBVIOUS
  <2>. HIDE DEF T
  <2>. QED BY <2>1, LeastNat, Zenon
<1>2. m \in Nat /\ ~P(m)
  BY <1>1
<1>3. m # 0
  <2>1. SUFFICES P(0)
    BY <1>2, Zenon
  <2>2. [i \in 0 .. 0 |-> start] \in [0 .. 0 -> S]
    OBVIOUS
  <2>3. Steps([i \in 0 .. 0 |-> start], F, start, 0)
    BY DEF Steps
  <2>. QED BY <2>2, <2>3
<1>4. m - 1 \in Nat /\ P(m - 1)
  BY <1>1, <1>2, <1>3
<1>5. PICK g \in [0 .. m - 1 -> S] : Steps(g, F, start, m - 1)
  BY <1>4
<1>. DEFINE h == [i \in 0 .. m |-> IF i = m THEN F[<<m, g[m - 1]>>] ELSE g[i]]
<1>6. F[<<m, g[m - 1]>>] \in S
  <2>1. g[m - 1] \in S
    BY <1>4, <1>5
  <2>. QED BY <1>2, <2>1
<1>7. h \in [0 .. m -> S]
  BY <1>2, <1>5, <1>6
<1>8. ASSUME NEW i \in 1 .. m PROVE h[i] = F[<<i, h[i - 1]>>]
  <2>1. CASE i = m
    <3>1. m \in 0 .. m /\ m - 1 \in 0 .. m /\ m - 1 # m
      BY <1>2, <1>3
    <3>2. h[m] = F[<<m, g[m - 1]>>] /\ h[m - 1] = g[m - 1]
      BY <3>1
    <3>. HIDE DEF h
    <3>. QED BY <2>1, <3>2
  <2>2. CASE i # m
    <3>1. i \in 1 .. m - 1 /\ i \in 0 .. m /\ i - 1 \in 0 .. m /\ i - 1 # m
      BY <1>2, <2>2
    <3>2. h[i] = g[i] /\ h[i - 1] = g[i - 1]
      BY <2>2, <3>1
    <3>. QED BY <1>5, <3>1, <3>2 DEF Steps
  <2>. QED BY <2>1, <2>2
<1>9. h[0] = start
  BY <1>2, <1>3, <1>5 DEF Steps
<1>10. Steps(h, F, start, m)
  <2>. HIDE DEF h
  <2>. QED BY <1>8, <1>9 DEF Steps
<1>. HIDE DEF h
<1>. QED BY <1>2, <1>7, <1>10
Fields == {"id", "nonces", "gas", "txs", "in_flight_sims", "orders", "next"}

LEMMA NewSortingFields ==
    ASSUME NEW sd, NEW orders, NEW nonces, NEW gas
    PROVE  DOMAIN NewSorting(sd, orders, nonces, gas) = Fields
           /\ NewSorting(sd, orders, nonces, gas).next = {}
BY DEF NewSorting, Fields

\* apply_tx changes neither the fields nor what is kept.
LEMMA ApplyFields ==
    ASSUME NEW sd, DOMAIN sd = Fields, NEW tx
    PROVE  DOMAIN apply_tx(sd, tx) = Fields /\ apply_tx(sd, tx).next = sd.next
BY DEF apply_tx, Fields

\* After maybe_apply nothing is kept.
LEMMA MaybeApplyFields ==
    ASSUME NEW sd, DOMAIN sd = Fields
    PROVE  DOMAIN maybe_apply(sd) = Fields /\ maybe_apply(sd).next = {}
<1> DEFINE t == Only(sd.next)
           cleared == [sd EXCEPT !.next = {}, !.orders = remove_from_sender(@, t.sender)]
<1>1. DOMAIN cleared = Fields /\ cleared.next = {}
  BY DEF Fields
<1> HIDE DEF t, cleared
<1>2. DOMAIN apply_tx(cleared, t) = Fields /\ apply_tx(cleared, t).next = {}
  BY <1>1, ApplyFields
<1>3. maybe_apply(sd) = IF sd.next = {} THEN sd ELSE apply_tx(cleared, t)
  BY DEF maybe_apply, cleared, t
<1> QED BY <1>2, <1>3

\* SendNext leaves what is kept alone.
LEMMA SendNextKeeps ==
    ASSUME NEW sd, DOMAIN sd = Fields, NEW bag, SendNext(sd, bag)
    PROVE  DOMAIN sorting' = Fields /\ sorting'.next = sd.next
BY Zenon DEF SendNext, Fields

\* handle_sim keeps a transaction only when it succeeds on the state at hand.
LEMMA HandleSimKeeps ==
    ASSUME NEW sd, DOMAIN sd = Fields, NEW tx,
           \A t \in sd.next : Simulates(t, sd.nonces) /\ t.used < sd.gas
    PROVE  LET r == handle_sim(sd, tx)
           IN  /\ DOMAIN r = Fields
               /\ \A t \in r.next : Simulates(t, r.nonces) /\ t.used < r.gas
<1> DEFINE r == handle_sim(sd, tx)
           better == tx.used < sd.gas /\ \A t \in sd.next : t.fee < tx.fee
<1>1. DOMAIN r = Fields
  BY DEF handle_sim, Fields
<1>2. r.nonces = sd.nonces /\ r.gas = sd.gas
  BY DEF handle_sim, Fields
<1>3. r.next = sd.next \/ (Simulates(tx, sd.nonces) /\ better /\ r.next = {tx})
  BY DEF handle_sim, Fields
<1> QED BY <1>1, <1>2, <1>3

-----------------------------------------------------------------------------
(***************************************************************************)
(* Bags of requests.                                                       *)
(***************************************************************************)
IsBagOf(B, S) ==
    /\ B \in [DOMAIN B -> Nat \ {0}]
    /\ DOMAIN B \subseteq S
    /\ IsFiniteSet(DOMAIN B)

\* The copies in a bag of the elements of Q.
Tokens(B, Q) == UNION {{r} \X (1 .. B[r]) : r \in DOMAIN B \cap Q}
Count(B, Q)  == Cardinality(Tokens(B, Q))

LEMMA TokensElements ==
    ASSUME NEW B, NEW Q
    PROVE  \A x : x \in Tokens(B, Q) <=>
               \E r \in DOMAIN B \cap Q : \E k \in 1 .. B[r] : x = <<r, k>>
BY DEF Tokens

LEMMA TokensFinite ==
    ASSUME NEW S, NEW B, IsBagOf(B, S), NEW Q
    PROVE  IsFiniteSet(Tokens(B, Q)) /\ Count(B, Q) \in Nat
<1> DEFINE R == DOMAIN B \cap Q
           f == [r \in R |-> {r} \X (1 .. B[r])]
           T == {{r} \X (1 .. B[r]) : r \in R}
<1>1. IsFiniteSet(R)
  BY FS_Intersection, Zenon DEF IsBagOf
<1>2. f \in Surjection(R, T)
  BY Zenon DEF Surjection
<1>3. IsFiniteSet(T)
  BY <1>1, <1>2, FS_Surjection
<1>4. ASSUME NEW r \in R PROVE IsFiniteSet({r} \X (1 .. B[r]))
  <2>1. B[r] \in Int
    BY DEF IsBagOf
  <2>2. IsFiniteSet(1 .. B[r])
    BY <2>1, FS_Interval
  <2>3. IsFiniteSet({r})
    BY FS_Singleton, Zenon
  <2> QED BY <2>2, <2>3, FS_Product, Zenon
<1>5. \A U \in T : IsFiniteSet(U)
  BY <1>4
<1>6. IsFiniteSet(UNION T)
  BY <1>3, <1>5, FS_UNION, Zenon
<1> QED BY <1>6, FS_CardinalityType DEF Tokens, Count

LEMMA AddToBag ==
    ASSUME NEW S, NEW B, IsBagOf(B, S), NEW x \in S
    PROVE  /\ IsBagOf(With(B, x), S)
           /\ DOMAIN With(B, x) = DOMAIN B \cup {x}
           /\ \A Q : Count(With(B, x), Q) = IF x \in Q THEN Count(B, Q) + 1 ELSE Count(B, Q)
<1> DEFINE C == With(B, x)
           n == IF x \in DOMAIN B THEN B[x] + 1 ELSE 1
<1>1. DOMAIN C = DOMAIN B \cup {x} /\ C = [e \in DOMAIN B \cup {x} |-> C[e]]
  BY DEF With
<1>2. C[x] = n /\ \A e \in DOMAIN B : e # x => C[e] = B[e]
  BY DEF With, IsBagOf
<1>3. n \in Nat \ {0} /\ \A e \in DOMAIN B : B[e] \in Nat \ {0}
  BY DEF IsBagOf
<1> HIDE DEF C, n
<1>4. IsBagOf(C, S)
  <2>1. IsFiniteSet(DOMAIN C)
    BY <1>1, FS_AddElement DEF IsBagOf
  <2>2. \A e \in DOMAIN C : C[e] \in Nat \ {0}
    BY <1>1, <1>2, <1>3
  <2> QED BY <1>1, <2>1, <2>2 DEF IsBagOf
<1>5. ASSUME NEW Q
      PROVE  Count(C, Q) = IF x \in Q THEN Count(B, Q) + 1 ELSE Count(B, Q)
  <2>5. CASE x \notin Q
    <3>1. Tokens(C, Q) = Tokens(B, Q)
      BY <1>1, <1>2, <2>5 DEF Tokens
    <3> QED BY <2>5, <3>1 DEF Count, C
  <2>6. CASE x \in Q
    <3>1. 1 .. n = (IF x \in DOMAIN B THEN 1 .. B[x] ELSE {}) \cup {n}
      BY <1>3 DEF n
    <3>2. Tokens(C, Q) = Tokens(B, Q) \cup {<<x, n>>}
      <4>1. ASSUME NEW y \in Tokens(C, Q) PROVE y \in Tokens(B, Q) \cup {<<x, n>>}
        <5>0. PICK r \in DOMAIN C \cap Q : \E k \in 1 .. C[r] : y = <<r, k>>
          BY TokensElements
        <5>1. PICK k \in 1 .. C[r] : y = <<r, k>>
          BY <5>0
        <5>2. CASE r # x
          <6>1. r \in DOMAIN B \cap Q /\ k \in 1 .. B[r]
            BY <1>1, <1>2, <5>1, <5>2
          <6> QED BY <5>1, <6>1, TokensElements
        <5>3. CASE r = x /\ k # n
          <6>1. x \in DOMAIN B \cap Q /\ k \in 1 .. B[x]
            BY <1>2, <2>6, <3>1, <5>1, <5>3
          <6> QED BY <5>1, <5>3, <6>1, TokensElements
        <5> QED BY <5>1, <5>2, <5>3
      <4>2. <<x, n>> \in Tokens(C, Q)
        <5>1. x \in DOMAIN C \cap Q /\ n \in 1 .. C[x]
          BY <1>1, <1>2, <1>3, <2>6
        <5> QED BY <5>1, TokensElements
      <4>3. ASSUME NEW y \in Tokens(B, Q) PROVE y \in Tokens(C, Q)
        <5>0. PICK r \in DOMAIN B \cap Q : \E k \in 1 .. B[r] : y = <<r, k>>
          BY TokensElements
        <5>1. PICK k \in 1 .. B[r] : y = <<r, k>>
          BY <5>0
        <5>2. r \in DOMAIN C \cap Q
          BY <1>1
        <5>3. k \in 1 .. C[r]
          BY <1>2, <3>1
        <5> QED BY <5>1, <5>2, <5>3, TokensElements
      <4> QED BY <4>1, <4>2, <4>3
    <3>3. <<x, n>> \notin Tokens(B, Q)
      <4> SUFFICES ASSUME <<x, n>> \in Tokens(B, Q) PROVE FALSE
        OBVIOUS
      <4>0. PICK r \in DOMAIN B \cap Q : \E k \in 1 .. B[r] : <<x, n>> = <<r, k>>
        BY TokensElements
      <4>1. PICK k \in 1 .. B[r] : <<x, n>> = <<r, k>>
        BY <4>0
      <4>2. x \in DOMAIN B /\ n \in 1 .. B[x]
        BY <4>1
      <4> QED BY <1>3, <4>2 DEF n
    <3>4. IsFiniteSet(Tokens(B, Q))
      BY TokensFinite
    <3>5. Cardinality(Tokens(B, Q) \cup {<<x, n>>}) = Cardinality(Tokens(B, Q)) + 1
      BY <3>3, <3>4, FS_AddElement
    <3> QED BY <2>6, <3>2, <3>5 DEF Count, C
  <2> QED BY <2>5, <2>6
<1> QED BY <1>1, <1>4, <1>5 DEF C

LEMMA RemoveFromBag ==
    ASSUME NEW S, NEW B, IsBagOf(B, S), NEW x \in DOMAIN B
    PROVE  /\ IsBagOf(Without(B, x), S)
           /\ DOMAIN Without(B, x) \subseteq DOMAIN B
           /\ \A Q : Count(Without(B, x), Q) = IF x \in Q THEN Count(B, Q) - 1 ELSE Count(B, Q)
<1> DEFINE C == Without(B, x)
           n == B[x]
<1>3. n \in Nat \ {0} /\ \A e \in DOMAIN B : B[e] \in Nat \ {0}
  BY DEF IsBagOf
<1>1. DOMAIN C = (IF n = 1 THEN DOMAIN B \ {x} ELSE DOMAIN B) /\ C = [e \in DOMAIN C |-> C[e]]
  BY <1>3 DEF Without
<1>2. (n # 1 => C[x] = n - 1) /\ \A e \in DOMAIN B : e # x => C[e] = B[e]
  BY <1>3 DEF Without
<1> HIDE DEF C, n
<1>4. IsBagOf(C, S)
  <2>1. IsFiniteSet(DOMAIN C)
    BY <1>1, FS_RemoveElement DEF IsBagOf
  <2>2. \A e \in DOMAIN C : C[e] \in Nat \ {0}
    BY <1>1, <1>2, <1>3
  <2> QED BY <1>1, <2>1, <2>2 DEF IsBagOf
<1>5. ASSUME NEW Q
      PROVE  Count(C, Q) = IF x \in Q THEN Count(B, Q) - 1 ELSE Count(B, Q)
  <2>5. CASE x \notin Q
    <3>1. Tokens(C, Q) = Tokens(B, Q)
      BY <1>1, <1>2, <2>5 DEF Tokens
    <3> QED BY <2>5, <3>1 DEF Count, C
  <2>6. CASE x \in Q
    <3>1. Tokens(C, Q) = Tokens(B, Q) \ {<<x, n>>}
      <4>1. ASSUME NEW y \in Tokens(B, Q), y # <<x, n>> PROVE y \in Tokens(C, Q)
        <5>0. PICK r \in DOMAIN B \cap Q : \E k \in 1 .. B[r] : y = <<r, k>>
          BY TokensElements
        <5>1. PICK k \in 1 .. B[r] : y = <<r, k>>
          BY <5>0
        <5>2. r \in DOMAIN C \cap Q /\ k \in 1 .. C[r]
          <6>1. CASE r # x
            BY <1>1, <1>2, <5>1, <6>1
          <6>2. CASE r = x
            BY <1>1, <1>2, <1>3, <4>1, <5>1, <6>2 DEF n
          <6> QED BY <6>1, <6>2
        <5> QED BY <5>1, <5>2, TokensElements
      <4>2. ASSUME NEW y \in Tokens(C, Q) PROVE y \in Tokens(B, Q) /\ y # <<x, n>>
        <5>0. PICK r \in DOMAIN C \cap Q : \E k \in 1 .. C[r] : y = <<r, k>>
          BY TokensElements
        <5>1. PICK k \in 1 .. C[r] : y = <<r, k>>
          BY <5>0
        <5>2. r \in DOMAIN B \cap Q /\ k \in 1 .. B[r] /\ (r = x => k # n)
          <6>1. CASE r # x
            BY <1>1, <1>2, <5>1, <6>1
          <6>2. CASE r = x
            BY <1>1, <1>2, <1>3, <5>1, <6>2 DEF n
          <6> QED BY <6>1, <6>2
        <5> QED BY <5>1, <5>2, TokensElements
      <4> QED BY <4>1, <4>2
    <3>2. <<x, n>> \in Tokens(B, Q)
      <4>1. x \in DOMAIN B \cap Q /\ n \in 1 .. B[x]
        BY <1>3, <2>6 DEF n
      <4> QED BY <4>1, TokensElements
    <3>3. IsFiniteSet(Tokens(B, Q))
      BY TokensFinite
    <3>4. Cardinality(Tokens(B, Q) \ {<<x, n>>}) = Cardinality(Tokens(B, Q)) - 1
      BY <3>2, <3>3, FS_RemoveElement
    <3> QED BY <2>6, <3>1, <3>4 DEF Count, C
  <2> QED BY <2>5, <2>6
<1> QED BY <1>1, <1>4, <1>5 DEF C

-----------------------------------------------------------------------------
(***************************************************************************)
(* What is sent for.                                                       *)
(***************************************************************************)
Request(t, id) == [tx |-> t, id |-> id]

OutUpTo(g, B, txs, id) ==
    g = [k \in 0 .. Len(txs) |-> IF k = 0 THEN B ELSE With(g[k - 1], Request(txs[k], id))]

LEMMA SendIsOutUpTo ==
    ASSUME NEW B, NEW txs, NEW id
    PROVE  Send(B, txs, id) = (CHOOSE g : OutUpTo(g, B, txs, id))[Len(txs)]
BY DEF Send, OutUpTo, With, Request

LEMMA OutUpToExists ==
    ASSUME NEW S, NEW B, IsBagOf(B, S), NEW id, NEW txs, Len(txs) \in Nat,
           \A i \in 1 .. Len(txs) : Request(txs[i], id) \in S
    PROVE  \E g : OutUpTo(g, B, txs, id)
<1> DEFINE N == Len(txs)
           AllBags == {C \in UNION {[D -> Nat \ {0}] : D \in SUBSET S} : IsBagOf(C, S)}
           F == [p \in Nat \X AllBags |->
                    IF p[1] \in 1 .. N THEN With(p[2], Request(txs[p[1]], id)) ELSE p[2]]
<1>1. \A C : IsBagOf(C, S) => C \in AllBags
  <2> SUFFICES ASSUME NEW C, IsBagOf(C, S) PROVE C \in UNION {[D -> Nat \ {0}] : D \in SUBSET S}
    OBVIOUS
  <2> QED BY DEF IsBagOf
<1>2. ASSUME NEW i \in Nat, NEW C \in AllBags
      PROVE  (IF i \in 1 .. N THEN With(C, Request(txs[i], id)) ELSE C) \in AllBags
  <2>1. CASE i \in 1 .. N
    <3>1. IsBagOf(With(C, Request(txs[i], id)), S)
      BY <2>1, AddToBag, Zenon
    <3> QED BY <1>1, <2>1, <3>1
  <2> QED BY <2>1
<1> HIDE DEF AllBags
<1>3. F \in [Nat \X AllBags -> AllBags]
  BY <1>2
<1>4. ASSUME NEW i \in 1 .. N, NEW C \in AllBags PROVE F[<<i, C>>] = With(C, Request(txs[i], id))
  <2>1. i \in Nat /\ <<i, C>> \in Nat \X AllBags
    OBVIOUS
  <2> QED BY <2>1
<1> HIDE DEF F
<1>5. PICK g \in [0 .. N -> AllBags] : Steps(g, F, B, N)
  <2>1. B \in AllBags
    BY <1>1
  <2> QED BY <1>3, <2>1, StepsExist, Zenon
<1>6. ASSUME NEW k \in 0 .. N
      PROVE  g[k] = IF k = 0 THEN B ELSE With(g[k - 1], Request(txs[k], id))
  <2>1. CASE k = 0
    BY <1>5, <2>1 DEF Steps
  <2>2. CASE k # 0
    <3>1. k \in 1 .. N /\ g[k - 1] \in AllBags
      BY <2>2
    <3> QED BY <1>4, <1>5, <2>2, <3>1, Zenon DEF Steps
  <2> QED BY <2>1, <2>2
<1>7. g = [k \in 0 .. N |-> IF k = 0 THEN B ELSE With(g[k - 1], Request(txs[k], id))]
  BY <1>6
<1> QED BY <1>7 DEF OutUpTo

\* The transactions up to the k-th whose requests are in Q.
SentIn(Q, txs, id, k) == {i \in 1 .. k : Request(txs[i], id) \in Q}

LEMMA SentInNext ==
    ASSUME NEW Q, NEW txs, NEW id, NEW k \in Nat \ {0}
    PROVE  /\ IsFiniteSet(SentIn(Q, txs, id, k)) /\ IsFiniteSet(SentIn(Q, txs, id, k - 1))
           /\ Cardinality(SentIn(Q, txs, id, k - 1)) \in Nat
           /\ Cardinality(SentIn(Q, txs, id, k)) =
                IF Request(txs[k], id) \in Q THEN Cardinality(SentIn(Q, txs, id, k - 1)) + 1
                ELSE Cardinality(SentIn(Q, txs, id, k - 1))
<1> DEFINE A == SentIn(Q, txs, id, k - 1)
<1>1. IsFiniteSet(1 .. k) /\ IsFiniteSet(1 .. k - 1)
  <2>1. k \in Int /\ k - 1 \in Int /\ 1 \in Int
    OBVIOUS
  <2> QED BY <2>1, FS_Interval
<1>2. IsFiniteSet(SentIn(Q, txs, id, k)) /\ IsFiniteSet(A)
  <2>1. SentIn(Q, txs, id, k) \in SUBSET (1 .. k) /\ A \in SUBSET (1 .. k - 1)
    BY DEF SentIn
  <2> QED BY <1>1, <2>1, FS_Subset
<1>3. Cardinality(A) \in Nat
  BY <1>2, FS_CardinalityType
<1>4. 1 .. k = (1 .. k - 1) \cup {k} /\ k \notin 1 .. k - 1
  OBVIOUS
<1>5. CASE Request(txs[k], id) \in Q
  <2>1. SentIn(Q, txs, id, k) = A \cup {k} /\ k \notin A
    BY <1>4, <1>5 DEF SentIn
  <2> QED BY <1>2, <1>3, <1>5, <2>1, FS_AddElement
<1>6. CASE Request(txs[k], id) \notin Q
  <2>1. SentIn(Q, txs, id, k) = A
    BY <1>4, <1>6 DEF SentIn
  <2> QED BY <1>2, <1>3, <1>6, <2>1
<1> QED BY <1>5, <1>6

LEMMA SendBag ==
    ASSUME NEW S, NEW B, IsBagOf(B, S), NEW id, NEW txs, Len(txs) \in Nat,
           \A i \in 1 .. Len(txs) : Request(txs[i], id) \in S
    PROVE  /\ IsBagOf(Send(B, txs, id), S)
           /\ \A r \in DOMAIN Send(B, txs, id) :
                 r \in DOMAIN B \/ \E i \in 1 .. Len(txs) : r = Request(txs[i], id)
           /\ \A Q : Count(Send(B, txs, id), Q) =
                       Count(B, Q) + Cardinality(SentIn(Q, txs, id, Len(txs)))
<1> DEFINE N == Len(txs)
           g == CHOOSE x : OutUpTo(x, B, txs, id)
           Good(k) == /\ IsBagOf(g[k], S)
                      /\ \A r \in DOMAIN g[k] :
                            r \in DOMAIN B \/ \E i \in 1 .. N : r = Request(txs[i], id)
                      /\ \A Q : Count(g[k], Q) = Count(B, Q) + Cardinality(SentIn(Q, txs, id, k))
           T == {k \in 0 .. N : ~Good(k)}
<1>1. OutUpTo(g, B, txs, id)
  BY OutUpToExists
<1>2. Send(B, txs, id) = g[N]
  BY SendIsOutUpTo
<1> HIDE DEF g
<1>3. g[0] = B /\ \A k \in 1 .. N : g[k] = With(g[k - 1], Request(txs[k], id))
  <2>1. \A k \in 0 .. N : g[k] = IF k = 0 THEN B ELSE With(g[k - 1], Request(txs[k], id))
    BY <1>1 DEF OutUpTo
  <2>2. 0 \in 0 .. N /\ \A k \in 1 .. N : k \in 0 .. N /\ k # 0
    OBVIOUS
  <2> QED BY <2>1, <2>2, Zenon
<1>4. Good(0)
  <2>1. ASSUME NEW Q PROVE Count(B, Q) = Count(B, Q) + Cardinality(SentIn(Q, txs, id, 0))
    <3>1. SentIn(Q, txs, id, 0) = {}
      BY DEF SentIn
    <3>2. Count(B, Q) \in Nat
      BY TokensFinite
    <3>3. Cardinality(SentIn(Q, txs, id, 0)) = 0
      BY <3>1, FS_EmptySet, Zenon
    <3> QED BY <3>2, <3>3
  <2>2. \A r \in DOMAIN B : r \in DOMAIN B \/ \E i \in 1 .. N : r = Request(txs[i], id)
    OBVIOUS
  <2>3. g[0] = B
    BY <1>3
  <2> QED BY <2>1, <2>2, <2>3, Zenon
<1>5. ASSUME NEW k \in 1 .. N, Good(k - 1) PROVE Good(k)
  <2> DEFINE x == Request(txs[k], id)
             C == g[k - 1]
  <2>1. IsBagOf(C, S) /\ x \in S /\ g[k] = With(C, x) /\ k \in Nat \ {0}
    BY <1>3, <1>5
  <2> HIDE DEF x, C
  <2>5. /\ IsBagOf(With(C, x), S) /\ DOMAIN With(C, x) = DOMAIN C \cup {x}
        /\ \A Q : Count(With(C, x), Q) = IF x \in Q THEN Count(C, Q) + 1 ELSE Count(C, Q)
    BY <2>1, AddToBag, Zenon
  <2>2. IsBagOf(g[k], S) /\ DOMAIN g[k] = DOMAIN C \cup {x}
    BY <2>1, <2>5
  <2>3. ASSUME NEW Q PROVE Count(g[k], Q) = Count(B, Q) + Cardinality(SentIn(Q, txs, id, k))
    <3>1. Count(g[k], Q) = IF x \in Q THEN Count(C, Q) + 1 ELSE Count(C, Q)
      BY <2>1, <2>5
    <3>2. Count(C, Q) = Count(B, Q) + Cardinality(SentIn(Q, txs, id, k - 1))
      BY <1>5 DEF C
    <3>3. Count(B, Q) \in Nat /\ Cardinality(SentIn(Q, txs, id, k - 1)) \in Nat
      BY <2>1, TokensFinite, SentInNext, Zenon
    <3>4. Cardinality(SentIn(Q, txs, id, k)) =
             IF x \in Q THEN Cardinality(SentIn(Q, txs, id, k - 1)) + 1
             ELSE Cardinality(SentIn(Q, txs, id, k - 1))
      BY <2>1, SentInNext DEF x
    <3> QED BY <3>1, <3>2, <3>3, <3>4
  <2>4. \A r \in DOMAIN g[k] : r \in DOMAIN B \/ \E i \in 1 .. N : r = Request(txs[i], id)
    BY <1>5, <2>2 DEF x, C
  <2> QED BY <2>2, <2>3, <2>4
<1>6. T = {}
  <2> SUFFICES ASSUME T # {} PROVE FALSE
    OBVIOUS
  <2>1. PICK m \in T : \A k \in T : m <= k
    <3>1. T \subseteq Nat
      OBVIOUS
    <3> HIDE DEF T
    <3> QED BY <3>1, LeastNat, Zenon
  <2>2. m \in 0 .. N /\ ~Good(m)
    BY <2>1
  <2> HIDE DEF Good
  <2>3. m \in 1 .. N
    BY <1>4, <2>2
  <2>4. m - 1 \in 0 .. N /\ m - 1 \notin T
    BY <2>1, <2>3
  <2>5. Good(m - 1)
    BY <2>4
  <2> QED BY <1>5, <2>2, <2>3, <2>5
<1>7. Good(N)
  <2> HIDE DEF Good
  <2>1. N \in 0 .. N
    OBVIOUS
  <2> QED BY <1>6, <2>1
<1> QED BY <1>2, <1>7

-----------------------------------------------------------------------------
(***************************************************************************)
(* The lists of the pool are in the sender's own transactions.             *)
(***************************************************************************)
TxsOf(s) == {t \in Transaction : t.sender = s}
Lists    == {f \in [Sender -> Seq(Transaction)] : \A s \in Sender : f[s] \in Seq(TxsOf(s))}
Pool     == [pool : Lists, active : Lists]

LEMMA Counted ==
    ASSUME NEW n \in Nat, NEW S \in SUBSET (1 .. n)
    PROVE  IsFiniteSet(S) /\ Cardinality(S) \in 0 .. n
<1>1. IsFiniteSet(1 .. n) /\ Cardinality(1 .. n) = n
  <2>1. n \in Int /\ 1 \in Int
    OBVIOUS
  <2>2. IsFiniteSet(1 .. n) /\ Cardinality(1 .. n) = IF 1 > n THEN 0 ELSE n - 1 + 1
    BY <2>1, FS_Interval
  <2> QED BY <2>2
<1>2. IsFiniteSet(S) /\ Cardinality(S) <= Cardinality(1 .. n)
  BY <1>1, FS_Subset, Zenon
<1>3. Cardinality(S) \in Nat
  BY <1>2, FS_CardinalityType
<1> QED BY <1>1, <1>2, <1>3

LEMMA MaxMin ==
    ASSUME NEW n \in Nat, NEW S \in SUBSET (1 .. n), S # {}
    PROVE  /\ Max(S) \in S /\ \A y \in S : y <= Max(S)
           /\ Min(S) \in S /\ \A y \in S : Min(S) <= y
<1>1. \E x \in S : \A y \in S : x =< y
  <2>1. S \subseteq Nat
    OBVIOUS
  <2> QED BY <2>1, LeastNat, Zenon
<1>2. \E x \in S : \A y \in S : x >= y
  <2> DEFINE T == {n - x : x \in S}
  <2>1. T \subseteq Nat /\ T # {}
    <3>1. \A x \in S : n - x \in Nat
      OBVIOUS
    <3>2. PICK x \in S : TRUE
      BY Zenon
    <3>3. n - x \in T
      OBVIOUS
    <3> QED BY <3>1, <3>3
  <2> HIDE DEF T
  <2>2. PICK m \in T : \A k \in T : m <= k
    BY <2>1, LeastNat, Zenon
  <2>3. PICK x \in S : m = n - x
    BY <2>2 DEF T
  <2>4. ASSUME NEW y \in S PROVE x >= y
    <3>1. n - y \in T
      BY DEF T
    <3>2. n - x <= n - y
      BY <2>2, <2>3, <3>1
    <3> QED BY <3>2
  <2> QED BY <2>4
<1>3. Min(S) \in S /\ \A y \in S : Min(S) =< y
  BY <1>1, Zenon DEF Min
<1>4. Max(S) \in S /\ \A y \in S : Max(S) >= y
  BY <1>2, Zenon DEF Max
<1>5. \A y \in S : y \in Int
  OBVIOUS
<1> QED BY <1>3, <1>4, <1>5

\* A part of a sequence.
LEMMA Part ==
    ASSUME NEW T, NEW list \in Seq(T), NEW m \in Nat \ {0}, NEW n \in 0 .. Len(list)
    PROVE  /\ SubSeq(list, m, n) \in Seq(T)
           /\ Len(SubSeq(list, m, n)) = IF m <= n THEN n - m + 1 ELSE 0
           /\ \A i \in 1 .. n - m + 1 : SubSeq(list, m, n)[i] = list[m + i - 1]
<1>1. m \in Int /\ n \in Int /\ \A i \in m .. n : list[i] \in T
  BY LenProperties
<1> QED BY <1>1, SubSeqProperties

LEMMA PutType ==
    ASSUME NEW T, NEW list \in Seq(T), NEW tx \in T
    PROVE  put(list, tx) \in Seq(T)
<1> DEFINE below == Cardinality({i \in DOMAIN list : list[i].nonce < tx.nonce})
           upto  == Cardinality({i \in DOMAIN list : list[i].nonce <= tx.nonce})
<1>1. Len(list) \in Nat /\ DOMAIN list = 1 .. Len(list)
  BY LenProperties
<1>2. below \in 0 .. Len(list)
  BY <1>1, Counted
<1>3. upto \in 0 .. Len(list)
  BY <1>1, Counted
<1>4. put(list, tx) = SubSeq(list, 1, below) \o <<tx>> \o SubSeq(list, upto + 1, Len(list))
  BY DEF put
<1> HIDE DEF below, upto
<1>5. SubSeq(list, 1, below) \in Seq(T)
  BY <1>2, Part
<1>6. SubSeq(list, upto + 1, Len(list)) \in Seq(T)
  <2>1. upto + 1 \in Nat \ {0} /\ Len(list) \in 0 .. Len(list)
    BY <1>1, <1>3
  <2> QED BY <2>1, Part
<1>7. <<tx>> \in Seq(T)
  OBVIOUS
<1> QED BY <1>4, <1>5, <1>6, <1>7

LEMMA ForwardType ==
    ASSUME NEW T, NEW list \in Seq(T), NEW nonce
    PROVE  forward(list, nonce) \in Seq(T)
<1>1. Len(list) \in Nat /\ DOMAIN list = 1 .. Len(list)
  BY LenProperties
<1>2. CASE \E i \in DOMAIN list : list[i].nonce = nonce
  <2> DEFINE c == CHOOSE i \in DOMAIN list : list[i].nonce = nonce
  <2>1. c \in DOMAIN list
    BY <1>2
  <2> HIDE DEF c
  <2>2. 1 + c \in Nat \ {0} /\ Len(list) \in 0 .. Len(list)
    BY <1>1, <2>1
  <2>3. SubSeq(list, 1 + c, Len(list)) \in Seq(T)
    BY <2>2, Part
  <2> QED BY <1>2, <2>3 DEF forward, c
<1>3. CASE ~ \E i \in DOMAIN list : list[i].nonce = nonce
  BY <1>3 DEF forward
<1> QED BY <1>2, <1>3

\* The length of the run of ready transactions.
IsRun(list, nonce, k) ==
    /\ k \in 0 .. Len(list)
    /\ \A i \in 1 .. k : list[i].nonce = nonce + i - 1 /\ valid_for_block(list[i])
    /\ k < Len(list) => ~ (list[k + 1].nonce = nonce + k /\ valid_for_block(list[k + 1]))

LEMMA RunExists ==
    ASSUME NEW T, NEW list \in Seq(T), NEW nonce \in Nat
    PROVE  \E n : IsRun(list, nonce, n) /\ ready(list, nonce) = SubSeq(list, 1, n)
<1> DEFINE Stop(k) == k < Len(list) => ~ (list[k + 1].nonce = nonce + k /\ valid_for_block(list[k + 1]))
           S == {k \in 0 .. Len(list) : Stop(k)}
<1>1. Len(list) \in Nat
  BY LenProperties
<1>2. PICK m \in S : \A k \in S : m <= k
  <2>1. S \subseteq Nat /\ Len(list) \in S
    BY <1>1
  <2> HIDE DEF S
  <2> QED BY <2>1, LeastNat, Zenon
<1>3. m \in 0 .. Len(list) /\ Stop(m)
  BY <1>2
<1>4. ASSUME NEW i \in 1 .. m PROVE list[i].nonce = nonce + i - 1 /\ valid_for_block(list[i])
  <2>1. i - 1 \in 0 .. Len(list) /\ i - 1 < m /\ i - 1 < Len(list)
    BY <1>1, <1>3
  <2>2. ~ Stop(i - 1)
    BY <1>2, <2>1
  <2>3. (i - 1) + 1 = i /\ nonce + (i - 1) = nonce + i - 1
    BY <2>1
  <2> QED BY <2>2, <2>3
<1>5. IsRun(list, nonce, m)
  BY <1>3, <1>4 DEF IsRun
<1> DEFINE n == CHOOSE k \in 0 .. Len(list) :
                 /\ \A i \in 1 .. k : list[i].nonce = nonce + i - 1 /\ valid_for_block(list[i])
                 /\ k < Len(list) => ~ (list[k + 1].nonce = nonce + k /\ valid_for_block(list[k + 1]))
<1>6. IsRun(list, nonce, n)
  BY <1>5, Zenon DEF IsRun
<1>7. ready(list, nonce) = SubSeq(list, 1, n)
  BY DEF ready
<1> QED BY <1>6, <1>7, Zenon

LEMMA ReadyType ==
    ASSUME NEW T, NEW list \in Seq(T), NEW nonce \in Nat
    PROVE  ready(list, nonce) \in Seq(T)
<1>1. PICK n : IsRun(list, nonce, n) /\ ready(list, nonce) = SubSeq(list, 1, n)
  BY RunExists
<1>2. SubSeq(list, 1, n) \in Seq(T)
  BY <1>1, Part DEF IsRun
<1> QED BY <1>1, <1>2

\* One list of the pool is replaced.
LEMMA ListsExcept ==
    ASSUME NEW f \in Lists, NEW s \in Sender, NEW list \in Seq(TxsOf(s))
    PROVE  [f EXCEPT ![s] = list] \in Lists
<1>1. TxsOf(s) \subseteq Transaction
  BY DEF TxsOf
<1>2. list \in Seq(Transaction)
  BY <1>1, SeqMonotonic
<1>3. f \in [Sender -> Seq(Transaction)] /\ \A r \in Sender : f[r] \in Seq(TxsOf(r))
  BY DEF Lists
<1> QED BY <1>2, <1>3 DEF Lists

LEMMA PoolFields ==
    ASSUME NEW p \in Pool, NEW s \in Sender
    PROVE  /\ p.pool \in Lists /\ p.active \in Lists
           /\ p.pool[s] \in Seq(TxsOf(s)) /\ p.active[s] \in Seq(TxsOf(s))
BY DEF Pool, Lists

LEMMA NewTxPool ==
    ASSUME NEW p \in Pool, NEW tx \in Transaction, NEW nonce \in Nat
    PROVE  handle_new_tx(p, tx, nonce) \in Pool
<1> DEFINE s      == tx.sender
           old    == p.pool[s]
           list   == put(old, tx)
           active == IF ~ valid_for_block(tx) THEN p.active[s]
                     ELSE IF tx.nonce = nonce THEN list
                     ELSE IF old # <<>> /\ p.active[s] # <<>> /\ nonce_ready(list, nonce, tx.nonce)
                          THEN ready(list, nonce)
                          ELSE p.active[s]
<1>1. s \in Sender /\ tx \in TxsOf(s)
  BY DEF Transaction, TxsOf
<1>2. p.pool \in Lists /\ p.active \in Lists /\ old \in Seq(TxsOf(s)) /\ p.active[s] \in Seq(TxsOf(s))
  BY <1>1, PoolFields
<1>3. list \in Seq(TxsOf(s))
  BY <1>1, <1>2, PutType
<1>4. ready(list, nonce) \in Seq(TxsOf(s))
  BY <1>3, ReadyType
<1>5. active \in Seq(TxsOf(s))
  BY <1>2, <1>3, <1>4
<1>6. \/ handle_new_tx(p, tx, nonce) = p
      \/ handle_new_tx(p, tx, nonce) =
             [pool |-> [p.pool EXCEPT ![s] = list], active |-> [p.active EXCEPT ![s] = active]]
  BY DEF handle_new_tx
<1> HIDE DEF s, list, active
<1>7. [p.pool EXCEPT ![s] = list] \in Lists
  BY <1>1, <1>2, <1>3, ListsExcept
<1>8. [p.active EXCEPT ![s] = active] \in Lists
  BY <1>1, <1>2, <1>5, ListsExcept
<1> QED BY <1>6, <1>7, <1>8 DEF Pool

LEMMA RemovePool ==
    ASSUME NEW p \in Pool, NEW tx \in Transaction
    PROVE  remove(p, tx) \in Pool
<1> DEFINE s == tx.sender
<1>1. s \in Sender
  BY DEF Transaction
<1>2. /\ p.pool \in Lists /\ p.active \in Lists
      /\ p.pool[s] \in Seq(TxsOf(s)) /\ p.active[s] \in Seq(TxsOf(s))
  BY <1>1, PoolFields
<1>3. forward(p.pool[s], tx.nonce) \in Seq(TxsOf(s)) /\ forward(p.active[s], tx.nonce) \in Seq(TxsOf(s))
  BY <1>2, ForwardType
<1>4. remove(p, tx) = [pool   |-> [p.pool EXCEPT ![s] = forward(p.pool[s], tx.nonce)],
                       active |-> [p.active EXCEPT ![s] = forward(p.active[s], tx.nonce)]]
  BY <1>1, <1>2 DEF remove, Lists
<1> HIDE DEF s
<1>5. [p.pool EXCEPT ![s] = forward(p.pool[s], tx.nonce)] \in Lists
  BY <1>1, <1>2, <1>3, ListsExcept
<1>6. [p.active EXCEPT ![s] = forward(p.active[s], tx.nonce)] \in Lists
  BY <1>1, <1>2, <1>3, ListsExcept
<1> QED BY <1>4, <1>5, <1>6 DEF Pool

RemovedUpTo(g, p, mined) ==
    g = [k \in 0 .. Len(mined) |-> IF k = 0 THEN p ELSE remove(g[k - 1], mined[k])]

\* remove_mined_txs has the value its loop ends with.
LEMMA RemoveMinedSteps ==
    ASSUME NEW p \in Pool, NEW mined \in Seq(Transaction)
    PROVE  \E g \in [0 .. Len(mined) -> Pool] :
               /\ remove_mined_txs(p, mined) = g[Len(mined)]
               /\ g[0] = p /\ \A k \in 1 .. Len(mined) : g[k] = remove(g[k - 1], mined[k])
<1> DEFINE N == Len(mined)
           F == [q \in Nat \X Pool |-> IF q[1] \in 1 .. N THEN remove(q[2], mined[q[1]]) ELSE q[2]]
           c == CHOOSE g : RemovedUpTo(g, p, mined)
<1>1. N \in Nat /\ \A i \in 1 .. N : mined[i] \in Transaction
  BY LenProperties
<1>2. ASSUME NEW i \in Nat, NEW q \in Pool
      PROVE  (IF i \in 1 .. N THEN remove(q, mined[i]) ELSE q) \in Pool
  BY <1>1, RemovePool
<1>3. F \in [Nat \X Pool -> Pool]
  BY <1>2
<1>4. ASSUME NEW i \in 1 .. N, NEW q \in Pool PROVE F[<<i, q>>] = remove(q, mined[i])
  <2>1. i \in Nat /\ <<i, q>> \in Nat \X Pool
    OBVIOUS
  <2> QED BY <2>1
<1> HIDE DEF F
<1>5. PICK h \in [0 .. N -> Pool] : Steps(h, F, p, N)
  BY <1>1, <1>3, StepsExist, Zenon
<1>6. ASSUME NEW k \in 0 .. N
      PROVE  h[k] = IF k = 0 THEN p ELSE remove(h[k - 1], mined[k])
  <2>1. CASE k = 0
    BY <1>5, <2>1 DEF Steps
  <2>2. CASE k # 0
    <3>1. k \in 1 .. N /\ h[k - 1] \in Pool
      BY <1>1, <2>2
    <3> QED BY <1>4, <1>5, <2>2, <3>1, Zenon DEF Steps
  <2> QED BY <2>1, <2>2
<1>7. RemovedUpTo(h, p, mined)
  BY <1>6 DEF RemovedUpTo
<1>8. RemovedUpTo(c, p, mined)
  BY <1>7
<1>9. remove_mined_txs(p, mined) = c[N]
  BY DEF remove_mined_txs, RemovedUpTo
<1> HIDE DEF c
<1>10. \A k \in 0 .. N : c[k] = IF k = 0 THEN p ELSE remove(c[k - 1], mined[k])
  BY <1>8, Zenon DEF RemovedUpTo
<1>11. c[0] = p /\ \A k \in 1 .. N : c[k] = remove(c[k - 1], mined[k])
  <2>1. 0 \in 0 .. N /\ \A k \in 1 .. N : k \in 0 .. N /\ k # 0
    BY <1>1
  <2> QED BY <1>10, <2>1, Zenon
<1>12. \A k \in 0 .. N : c[k] \in Pool
  <2> DEFINE T == {k \in 0 .. N : c[k] \notin Pool}
  <2> SUFFICES ASSUME T # {} PROVE FALSE
    OBVIOUS
  <2>1. PICK m \in T : \A k \in T : m <= k
    <3>1. T \subseteq Nat
      OBVIOUS
    <3> HIDE DEF T
    <3> QED BY <3>1, LeastNat, Zenon
  <2>2. m # 0 /\ m \in 0 .. N
    BY <1>11
  <2>3. m \in 1 .. N /\ m - 1 \in 0 .. N /\ m - 1 \notin T
    BY <1>1, <2>1, <2>2
  <2>4. c[m - 1] \in Pool
    BY <2>3
  <2> QED BY <1>1, <1>11, <2>1, <2>3, <2>4, RemovePool
<1>13. c \in [0 .. N -> Pool]
  BY <1>8, <1>12 DEF RemovedUpTo
<1> QED BY <1>9, <1>11, <1>13

LEMMA RemoveMinedPool ==
    ASSUME NEW p \in Pool, NEW mined \in Seq(Transaction)
    PROVE  remove_mined_txs(p, mined) \in Pool
<1>1. Len(mined) \in 0 .. Len(mined)
  BY LenProperties
<1> QED BY <1>1, RemoveMinedSteps

LEMMA NewBlockPool ==
    ASSUME NEW p \in Pool, NEW mined \in Seq(Transaction), NEW nonces
    PROVE  handle_new_block(p, mined, nonces) \in Pool
<1> DEFINE e == [p EXCEPT !.active = EmptyPool.active]
           q == remove_mined_txs(e, mined)
           a == [s \in Sender |-> IF ready(q.pool[s], nonces[s]) # <<>> THEN q.pool[s] ELSE <<>>]
<1>1. e \in Pool
  <2>1. EmptyPool.active \in Lists
    <3>1. EmptyPool.active = [s \in Sender |-> <<>>]
      BY DEF EmptyPool
    <3>2. \A s \in Sender : <<>> \in Seq(Transaction) /\ <<>> \in Seq(TxsOf(s))
      OBVIOUS
    <3> QED BY <3>1, <3>2, Zenon DEF Lists
  <2> QED BY <2>1 DEF Pool
<1> HIDE DEF e
<1>2. q \in Pool
  BY <1>1, RemoveMinedPool
<1>3. handle_new_block(p, mined, nonces) = [q EXCEPT !.active = a]
  BY DEF handle_new_block, e
<1> HIDE DEF q
<1>4. q.pool \in Lists
  BY <1>2 DEF Pool
<1>5. a \in Lists
  <2>1. \A s \in Sender : q.pool[s] \in Seq(Transaction) /\ q.pool[s] \in Seq(TxsOf(s))
    BY <1>4 DEF Lists
  <2>2. \A s \in Sender : <<>> \in Seq(Transaction) /\ <<>> \in Seq(TxsOf(s))
    OBVIOUS
  <2>3. \A s \in Sender : a[s] \in Seq(Transaction) /\ a[s] \in Seq(TxsOf(s))
    BY <2>1, <2>2
  <2> QED BY <2>3, Zenon DEF Lists
<1> HIDE DEF a
<1> QED BY <1>2, <1>3, <1>5 DEF Pool

-----------------------------------------------------------------------------
(***************************************************************************)
(* The orders: which operation adds or removes an order of which sender.   *)
(***************************************************************************)
Order ==
    {o \in [sender : Sender, current : SUBSET Transaction, pending : Seq(Transaction)] :
        o.current \subseteq TxsOf(o.sender) /\ o.pending \in Seq(TxsOf(o.sender))}

Own(orders, s) == Cardinality(OrdersOf(orders, s))

\* Sets compared by a function between them.
LEMMA NoFewer ==
    ASSUME NEW A, NEW B, IsFiniteSet(B), NEW f \in [A -> B],
           \A x, y \in A : f[x] = f[y] => x = y
    PROVE  IsFiniteSet(A) /\ Cardinality(A) <= Cardinality(B)
<1>1. f \in Injection(A, B)
  BY DEF Injection, IsInjective
<1> QED BY <1>1, FS_Injection

LEMMA AsMany ==
    ASSUME NEW A, NEW B, IsFiniteSet(A), NEW f \in [A -> B],
           \A x, y \in A : f[x] = f[y] => x = y,
           \A y \in B : \E x \in A : f[x] = y
    PROVE  Cardinality(A) = Cardinality(B)
<1>1. f \in Injection(A, B)
  BY DEF Injection, IsInjective
<1>2. f \in Surjection(A, B)
  BY DEF Surjection
<1>3. ExistsBijection(A, B)
  BY <1>1, <1>2 DEF ExistsBijection, Bijection
<1> QED BY <1>3, FS_Bijection

LEMMA OrdersFinite ==
    ASSUME NEW orders \in Seq(Order), NEW s
    PROVE  /\ OrdersOf(orders, s) \in SUBSET (1 .. Len(orders))
           /\ IsFiniteSet(OrdersOf(orders, s)) /\ Own(orders, s) \in Nat
<1>1. Len(orders) \in Nat /\ DOMAIN orders = 1 .. Len(orders)
  BY LenProperties
<1>2. OrdersOf(orders, s) \in SUBSET (1 .. Len(orders))
  BY <1>1 DEF OrdersOf
<1>3. IsFiniteSet(OrdersOf(orders, s)) /\ Cardinality(OrdersOf(orders, s)) \in 0 .. Len(orders)
  BY <1>1, <1>2, Counted
<1> QED BY <1>2, <1>3 DEF Own

\* An order that is replaced by one of the same sender.
LEMMA ReplaceOrder ==
    ASSUME NEW orders \in Seq(Order), NEW i \in 1 .. Len(orders), NEW o \in Order,
           o.sender = orders[i].sender
    PROVE  /\ [orders EXCEPT ![i] = o] \in Seq(Order)
           /\ Len([orders EXCEPT ![i] = o]) = Len(orders)
           /\ \A s : OrdersOf([orders EXCEPT ![i] = o], s) = OrdersOf(orders, s)
<1> DEFINE new == [orders EXCEPT ![i] = o]
<1>1. /\ new \in Seq(Order) /\ Len(new) = Len(orders)
      /\ \A j \in 1 .. Len(orders) : new[j] = IF j = i THEN o ELSE orders[j]
  BY ExceptSeq
<1>2. DOMAIN new = 1 .. Len(orders) /\ DOMAIN orders = 1 .. Len(orders)
  BY <1>1, LenProperties
<1> HIDE DEF new
<1>3. \A s : OrdersOf(new, s) = OrdersOf(orders, s)
  BY <1>1, <1>2 DEF OrdersOf
<1> QED BY <1>1, <1>3, Zenon DEF new

\* The last order takes the place of the one that is removed.
LEMMA SwapRemove ==
    ASSUME NEW orders \in Seq(Order), NEW i \in 1 .. Len(orders)
    PROVE  LET new == swap_remove_back(orders, i)
           IN  /\ new \in Seq(Order) /\ Len(new) = Len(orders) - 1
               /\ \A j \in 1 .. Len(orders) - 1 :
                      new[j] = IF j = i THEN orders[Len(orders)] ELSE orders[j]
<1> DEFINE n == Len(orders)
           mid == [orders EXCEPT ![i] = orders[n]]
           new == swap_remove_back(orders, i)
<1>1. n \in Nat \ {0} /\ orders[n] \in Order
  BY LenProperties
<1>2. /\ mid \in Seq(Order) /\ Len(mid) = n
      /\ \A j \in 1 .. n : mid[j] = IF j = i THEN orders[n] ELSE orders[j]
  BY <1>1, ExceptSeq
<1>3. new = SubSeq(mid, 1, Len(mid) - 1)
  BY DEF swap_remove_back
<1> HIDE DEF mid, new
<1>4. /\ new \in Seq(Order) /\ Len(new) = n - 1
      /\ \A j \in 1 .. n - 1 : new[j] = mid[j]
  <2>1. 1 \in Nat \ {0} /\ Len(mid) - 1 \in 0 .. Len(mid)
    BY <1>1, <1>2
  <2>2. /\ new \in Seq(Order)
        /\ Len(new) = IF 1 <= Len(mid) - 1 THEN Len(mid) - 1 - 1 + 1 ELSE 0
        /\ \A j \in 1 .. Len(mid) - 1 - 1 + 1 : new[j] = mid[1 + j - 1]
    BY <1>2, <1>3, <2>1, Part
  <2> QED BY <1>1, <1>2, <2>2
<1> QED BY <1>1, <1>2, <1>4 DEF new

\* One order of its sender is removed, and none of the others.
LEMMA SwapRemoveOwn ==
    ASSUME NEW orders \in Seq(Order), NEW i \in 1 .. Len(orders), NEW s
    PROVE  Own(swap_remove_back(orders, i), s) =
               IF orders[i].sender = s THEN Own(orders, s) - 1 ELSE Own(orders, s)
<1> DEFINE n == Len(orders)
           new == swap_remove_back(orders, i)
           A == OrdersOf(orders, s) \ {i}
           B == OrdersOf(new, s)
           f == [m \in A |-> IF m = n THEN i ELSE m]
<1>1. n \in Nat /\ DOMAIN orders = 1 .. n
  BY LenProperties
<1>2. /\ new \in Seq(Order) /\ Len(new) = n - 1
      /\ \A j \in 1 .. n - 1 : new[j] = IF j = i THEN orders[n] ELSE orders[j]
  BY SwapRemove, Zenon
<1>3. DOMAIN new = 1 .. n - 1
  BY <1>2, LenProperties
<1> HIDE DEF new
<1>4. \A m : m \in A <=> m \in 1 .. n /\ m # i /\ orders[m].sender = s
  BY <1>1 DEF OrdersOf
<1>5. \A m : m \in B <=> m \in 1 .. n - 1 /\ (IF m = i THEN orders[n].sender ELSE orders[m].sender) = s
  BY <1>2, <1>3 DEF OrdersOf
<1> HIDE DEF A, B
<1>6. f \in [A -> B]
  BY <1>1, <1>4, <1>5
<1>7. \A x, y \in A : f[x] = f[y] => x = y
  BY <1>4
<1>8. \A y \in B : \E x \in A : f[x] = y
  <2> SUFFICES ASSUME NEW y \in B PROVE \E x \in A : f[x] = y
    OBVIOUS
  <2>1. CASE y = i
    <3>1. n \in A /\ f[n] = i
      BY <1>1, <1>4, <1>5, <2>1
    <3> QED BY <2>1, <3>1
  <2>2. CASE y # i
    <3>1. y \in A /\ f[y] = y
      BY <1>1, <1>4, <1>5, <2>2
    <3> QED BY <3>1
  <2> QED BY <2>1, <2>2
<1> HIDE DEF f
<1>10. IsFiniteSet(OrdersOf(orders, s)) /\ Own(orders, s) \in Nat
  BY OrdersFinite
<1>11. IsFiniteSet(A) /\ Cardinality(A) =
           IF i \in OrdersOf(orders, s) THEN Own(orders, s) - 1 ELSE Own(orders, s)
  <2> DEFINE O == OrdersOf(orders, s)
  <2>1. IsFiniteSet(O)
    BY <1>10
  <2> HIDE DEF O
  <2>2. IsFiniteSet(O \ {i}) /\ Cardinality(O \ {i}) =
           IF i \in O THEN Cardinality(O) - 1 ELSE Cardinality(O)
    BY <2>1, FS_RemoveElement, Zenon
  <2> QED BY <2>2 DEF A, Own, O
<1>12. Cardinality(B) = Cardinality(A)
  BY <1>6, <1>7, <1>8, <1>11, AsMany
<1>13. i \in OrdersOf(orders, s) <=> orders[i].sender = s
  BY <1>1 DEF OrdersOf
<1> QED BY <1>11, <1>12, <1>13 DEF B, Own, new

\* remove_from_sender takes at most one order, of that sender.
LEMMA RemoveFromSender ==
    ASSUME NEW orders \in Seq(Order), NEW s
    PROVE  LET new == remove_from_sender(orders, s)
           IN  /\ new \in Seq(Order)
               /\ \A r : Own(new, r) >= IF r = s THEN Own(orders, r) - 1 ELSE Own(orders, r)
<1> DEFINE new == remove_from_sender(orders, s)
           i == Max(OrdersOf(orders, s))
<1>0. \A r : Own(orders, r) \in Nat
  BY OrdersFinite
<1>1. CASE OrdersOf(orders, s) = {}
  <2>1. new = orders
    BY <1>1 DEF remove_from_sender
  <2> QED BY <1>0, <2>1
<1>2. CASE OrdersOf(orders, s) # {}
  <2>1. Len(orders) \in Nat /\ OrdersOf(orders, s) \in SUBSET (1 .. Len(orders))
    BY LenProperties, OrdersFinite
  <2>2. i \in OrdersOf(orders, s)
    BY <1>2, <2>1, MaxMin, Zenon
  <2>3. i \in 1 .. Len(orders) /\ orders[i].sender = s
    BY <2>1, <2>2 DEF OrdersOf
  <2>4. new = IF pop(orders[i]).done THEN swap_remove_back(orders, i)
              ELSE [orders EXCEPT ![i] = pop(orders[i]).list]
    BY <1>2, <2>3 DEF remove_from_sender
  <2> HIDE DEF i, new
  <2>5. CASE pop(orders[i]).done
    <3>1. new = swap_remove_back(orders, i)
      BY <2>4, <2>5
    <3>2. new \in Seq(Order)
      BY <2>3, <3>1, SwapRemove
    <3>3. \A r : Own(new, r) = IF s = r THEN Own(orders, r) - 1 ELSE Own(orders, r)
      BY <2>3, <3>1, SwapRemoveOwn
    <3> QED BY <1>0, <3>2, <3>3 DEF new
  <2>6. CASE ~ pop(orders[i]).done
    <3>1. orders[i] \in Order
      BY <2>3, ElementOfSeq
    <3>2. pop(orders[i]).list \in Order /\ pop(orders[i]).list.sender = orders[i].sender
      BY <3>1, Zenon DEF pop, Order
    <3>3. new = [orders EXCEPT ![i] = pop(orders[i]).list]
      BY <2>4, <2>6
    <3>4. new \in Seq(Order) /\ \A r : OrdersOf(new, r) = OrdersOf(orders, r)
      BY <2>3, <3>2, <3>3, ReplaceOrder, Zenon
    <3>5. \A r : Own(new, r) = Own(orders, r)
      BY <3>4 DEF Own
    <3> QED BY <1>0, <3>4, <3>5 DEF new
  <2> QED BY <2>5, <2>6
<1> QED BY <1>1, <1>2

\* A longer list of orders, from a map of the old places into the new.
LEMMA MoreOwn ==
    ASSUME NEW orders \in Seq(Order), NEW new \in Seq(Order), NEW f \in [1 .. Len(orders) -> 1 .. Len(new)],
           \A i \in 1 .. Len(orders) : new[f[i]].sender = orders[i].sender,
           \A i, j \in 1 .. Len(orders) : f[i] = f[j] => i = j
    PROVE  \A s : Own(new, s) >= Own(orders, s)
<1> SUFFICES ASSUME NEW s PROVE Own(new, s) >= Own(orders, s)
  OBVIOUS
<1> DEFINE A == OrdersOf(orders, s)
           B == OrdersOf(new, s)
           g == [i \in A |-> f[i]]
<1>1. DOMAIN orders = 1 .. Len(orders) /\ DOMAIN new = 1 .. Len(new)
  BY LenProperties
<1>2. g \in [A -> B] /\ \A x, y \in A : g[x] = g[y] => x = y
  BY <1>1 DEF OrdersOf
<1>3. IsFiniteSet(B) /\ Own(new, s) \in Nat /\ Own(orders, s) \in Nat
  BY OrdersFinite
<1> HIDE DEF A, B, g
<1>4. Cardinality(A) <= Cardinality(B)
  BY <1>2, <1>3, NoFewer
<1> QED BY <1>3, <1>4 DEF Own, A, B

LEMMA NewOrder ==
    ASSUME NEW orders \in Seq(Order), NEW o \in Order
    PROVE  /\ <<o>> \o orders \in Seq(Order)
           /\ \A s : Own(<<o>> \o orders, s) >= Own(orders, s)
<1> DEFINE new == <<o>> \o orders
           f == [i \in 1 .. Len(orders) |-> i + 1]
<1>0. <<o>> \in Seq(Order) /\ Len(<<o>>) = 1
  OBVIOUS
<1>1. /\ new \in Seq(Order) /\ Len(new) = 1 + Len(orders)
      /\ \A i \in 1 .. 1 + Len(orders) : new[i] = IF i <= 1 THEN <<o>>[i] ELSE orders[i - 1]
  BY <1>0, ConcatProperties
<1>2. Len(orders) \in Nat
  BY LenProperties
<1> HIDE DEF new
<1>3. f \in [1 .. Len(orders) -> 1 .. Len(new)]
  BY <1>1, <1>2
<1>4. \A i \in 1 .. Len(orders) : new[f[i]].sender = orders[i].sender
  BY <1>1, <1>2
<1>5. \A i, j \in 1 .. Len(orders) : f[i] = f[j] => i = j
  OBVIOUS
<1> HIDE DEF f
<1>6. \A s : Own(new, s) >= Own(orders, s)
  BY <1>1, <1>3, <1>4, <1>5, MoreOwn, Zenon
<1> QED BY <1>1, <1>6 DEF new

LEMMA InsertOrder ==
    ASSUME NEW orders \in Seq(Order), NEW o \in Order, NEW id \in 1 .. Len(orders) + 1
    PROVE  /\ insert(orders, id, o) \in Seq(Order)
           /\ \A s : Own(insert(orders, id, o), s) >= Own(orders, s)
<1> DEFINE new == insert(orders, id, o)
           n == Len(orders)
           a == SubSeq(orders, 1, id - 1)
           b == SubSeq(orders, id, n)
           f == [i \in 1 .. n |-> IF i < id THEN i ELSE i + 1]
<1>1. n \in Nat /\ id \in Nat \ {0} /\ id - 1 \in 0 .. n /\ n \in 0 .. n
  BY LenProperties
<1>2. /\ a \in Seq(Order) /\ Len(a) = id - 1
      /\ \A i \in 1 .. id - 1 : a[i] = orders[i]
  <2>1. /\ a \in Seq(Order) /\ Len(a) = IF 1 <= id - 1 THEN id - 1 - 1 + 1 ELSE 0
        /\ \A i \in 1 .. id - 1 - 1 + 1 : a[i] = orders[1 + i - 1]
    BY <1>1, Part
  <2> QED BY <1>1, <2>1
<1>3. /\ b \in Seq(Order) /\ Len(b) = n - id + 1
      /\ \A i \in 1 .. n - id + 1 : b[i] = orders[id + i - 1]
  <2>1. /\ b \in Seq(Order) /\ Len(b) = IF id <= n THEN n - id + 1 ELSE 0
        /\ \A i \in 1 .. n - id + 1 : b[i] = orders[id + i - 1]
    BY <1>1, Part
  <2> QED BY <1>1, <2>1
<1>4. <<o>> \in Seq(Order) /\ Len(<<o>>) = 1
  OBVIOUS
<1>5. new = a \o <<o>> \o b
  BY DEF insert
<1> HIDE DEF a, b, new
<1>6. /\ a \o <<o>> \in Seq(Order) /\ Len(a \o <<o>>) = id
      /\ \A i \in 1 .. id - 1 : (a \o <<o>>)[i] = a[i]
  <2>1. /\ a \o <<o>> \in Seq(Order) /\ Len(a \o <<o>>) = Len(a) + 1
        /\ \A i \in 1 .. Len(a) + 1 : (a \o <<o>>)[i] = IF i <= Len(a) THEN a[i] ELSE <<o>>[i - Len(a)]
    BY <1>2, <1>4, ConcatProperties
  <2> QED BY <1>1, <1>2, <2>1
<1>7. /\ new \in Seq(Order) /\ Len(new) = n + 1
      /\ \A i \in 1 .. n + 1 : new[i] = IF i <= id THEN (a \o <<o>>)[i] ELSE b[i - id]
  <2>1. /\ new \in Seq(Order) /\ Len(new) = id + Len(b)
        /\ \A i \in 1 .. id + Len(b) : new[i] = IF i <= id THEN (a \o <<o>>)[i] ELSE b[i - id]
    <3> DEFINE c == a \o <<o>>
    <3>1. c \in Seq(Order) /\ Len(c) = id /\ new = c \o b
      BY <1>5, <1>6
    <3> HIDE DEF c
    <3>2. /\ new \in Seq(Order) /\ Len(new) = Len(c) + Len(b)
          /\ \A i \in 1 .. Len(c) + Len(b) : new[i] = IF i <= Len(c) THEN c[i] ELSE b[i - Len(c)]
      BY <1>3, <3>1, ConcatProperties
    <3> QED BY <3>1, <3>2, Zenon DEF c
  <2>2. id + Len(b) = n + 1
    BY <1>1, <1>3
  <2> QED BY <2>1, <2>2, Zenon
<1>8. \A i \in 1 .. n : new[f[i]] = orders[i]
  <2> SUFFICES ASSUME NEW i \in 1 .. n PROVE new[f[i]] = orders[i]
    OBVIOUS
  <2>1. CASE i < id
    <3>1. f[i] = i /\ i \in 1 .. n + 1 /\ i <= id /\ i \in 1 .. id - 1
      BY <1>1, <2>1
    <3> QED BY <1>2, <1>6, <1>7, <3>1
  <2>2. CASE ~ (i < id)
    <3>1. f[i] = i + 1 /\ i + 1 \in 1 .. n + 1 /\ ~ (i + 1 <= id) /\ i + 1 - id \in 1 .. n - id + 1
      BY <1>1, <2>2
    <3>2. new[i + 1] = b[i + 1 - id] /\ id + (i + 1 - id) - 1 = i
      BY <1>1, <1>7, <3>1
    <3>3. b[i + 1 - id] = orders[id + (i + 1 - id) - 1]
      BY <1>3, <3>1
    <3> QED BY <3>1, <3>2, <3>3, Zenon
  <2> QED BY <2>1, <2>2
<1>9. f \in [1 .. n -> 1 .. Len(new)]
  BY <1>1, <1>7
<1>10. \A i, j \in 1 .. n : f[i] = f[j] => i = j
  BY <1>1
<1> HIDE DEF f
<1>11. \A s : Own(new, s) >= Own(orders, s)
  <2>1. \A i \in 1 .. n : new[f[i]].sender = orders[i].sender
    BY <1>8
  <2> QED BY <1>7, <1>9, <1>10, <2>1, MoreOwn, Zenon
<1> QED BY <1>7, <1>11, Zenon DEF new

\* ActiveOrders::put removes no order.
LEMMA PutBack ==
    ASSUME NEW orders \in Seq(Order), NEW tx \in Transaction
    PROVE  /\ put_back(orders, tx) \in Seq(Order)
           /\ \A s : Own(put_back(orders, tx), s) >= Own(orders, s)
<1> DEFINE own    == OrdersOf(orders, tx.sender)
           richer == {i \in DOMAIN orders : \E t \in orders[i].current : tx.fee < t.fee}
           id     == IF richer = {} THEN Len(orders) + 1 ELSE Min(richer)
           o      == [sender |-> tx.sender, current |-> {tx}, pending |-> <<>>]
<1>1. Len(orders) \in Nat /\ DOMAIN orders = 1 .. Len(orders)
  BY LenProperties
<1>2. tx \in TxsOf(tx.sender) /\ tx.sender \in Sender
  BY DEF Transaction, TxsOf
<1>3. CASE own # {}
  <2> DEFINE i == Max(own)
  <2>1. i \in own
    BY <1>1, <1>3, OrdersFinite, MaxMin, Zenon
  <2> HIDE DEF i
  <2>2. i \in 1 .. Len(orders) /\ orders[i].sender = tx.sender
    BY <1>1, <2>1 DEF OrdersOf
  <2>3. orders[i] \in Order
    BY <2>2, ElementOfSeq
  <2> DEFINE c == [orders[i] EXCEPT !.current = {tx}]
  <2>4. c \in Order /\ c.sender = orders[i].sender
    BY <1>2, <2>2, <2>3, Zenon DEF Order
  <2>5. put_back(orders, tx) = [orders EXCEPT ![i] = c]
    BY <1>3 DEF put_back, i
  <2> HIDE DEF c
  <2>8. /\ [orders EXCEPT ![i] = c] \in Seq(Order)
        /\ \A s : OrdersOf([orders EXCEPT ![i] = c], s) = OrdersOf(orders, s)
    BY <2>2, <2>4, ReplaceOrder
  <2>6. /\ put_back(orders, tx) \in Seq(Order)
        /\ \A s : OrdersOf(put_back(orders, tx), s) = OrdersOf(orders, s)
    BY <2>5, <2>8, Zenon
  <2>7. \A s : Own(orders, s) \in Nat
    BY OrdersFinite
  <2> QED BY <2>6, <2>7 DEF Own
<1>4. CASE own = {}
  <2>1. put_back(orders, tx) = insert(orders, id, o)
    BY <1>4 DEF put_back
  <2>2. o \in Order
    <3>1. <<>> \in Seq(Transaction) /\ <<>> \in Seq(TxsOf(tx.sender))
      OBVIOUS
    <3>2. {tx} \in SUBSET Transaction /\ {tx} \subseteq TxsOf(tx.sender)
      BY <1>2
    <3> QED BY <1>2, <3>1, <3>2, Zenon DEF Order
  <2>3. id \in 1 .. Len(orders) + 1
    <3>1. CASE richer = {}
      BY <1>1, <3>1
    <3>2. CASE richer # {}
      <4>1. richer \in SUBSET (1 .. Len(orders))
        BY <1>1
      <4> HIDE DEF richer
      <4>2. Min(richer) \in richer
        BY <1>1, <3>2, <4>1, MaxMin, Zenon
      <4>3. Min(richer) \in 1 .. Len(orders) + 1
        <5>1. \A x \in 1 .. Len(orders) : x \in 1 .. Len(orders) + 1
          BY <1>1
        <5> QED BY <4>1, <4>2, <5>1, Zenon
      <4> QED BY <3>2, <4>3
    <3> QED BY <3>1, <3>2
  <2> HIDE DEF id, o
  <2> QED BY <2>1, <2>2, <2>3, InsertOrder
<1> QED BY <1>3, <1>4

-----------------------------------------------------------------------------
(***************************************************************************)
(* send_next sends no more for a sender than it leaves orders of theirs.   *)
(***************************************************************************)
Batch == [orders : Seq(Order), sent : Seq(Transaction)]

SentOf(r, s)   == {j \in DOMAIN r.sent : r.sent[j].sender = s}
Above(r, i, s) == {m \in DOMAIN r.orders : m > i /\ r.orders[m].sender = s}

\* The orders above the i-th account for what is sent.
Balanced(r, i) == \A s : Cardinality(SentOf(r, s)) <= Cardinality(Above(r, i, s))

LEMMA BatchFields ==
    ASSUME NEW r \in Batch
    PROVE  /\ r.orders \in Seq(Order) /\ Len(r.orders) \in Nat /\ DOMAIN r.orders = 1 .. Len(r.orders)
           /\ r.sent \in Seq(Transaction) /\ Len(r.sent) \in Nat /\ DOMAIN r.sent = 1 .. Len(r.sent)
<1>1. r.orders \in Seq(Order) /\ r.sent \in Seq(Transaction)
  BY DEF Batch
<1> QED BY <1>1, LenProperties

LEMMA BatchFinite ==
    ASSUME NEW r \in Batch, NEW i, NEW s
    PROVE  /\ IsFiniteSet(SentOf(r, s)) /\ Cardinality(SentOf(r, s)) \in Nat
           /\ IsFiniteSet(Above(r, i, s)) /\ Cardinality(Above(r, i, s)) \in Nat
<1>1. SentOf(r, s) \in SUBSET (1 .. Len(r.sent))
  BY BatchFields DEF SentOf
<1>2. Above(r, i, s) \in SUBSET (1 .. Len(r.orders))
  BY BatchFields DEF Above
<1>3. Len(r.sent) \in Nat /\ Len(r.orders) \in Nat
  BY BatchFields
<1>4. IsFiniteSet(SentOf(r, s)) /\ Cardinality(SentOf(r, s)) \in 0 .. Len(r.sent)
  BY <1>1, <1>3, Counted
<1>5. IsFiniteSet(Above(r, i, s)) /\ Cardinality(Above(r, i, s)) \in 0 .. Len(r.orders)
  BY <1>2, <1>3, Counted
<1> QED BY <1>3, <1>4, <1>5

\* The i-th order joins those above.
LEMMA AboveNext ==
    ASSUME NEW r \in Batch, NEW i \in 1 .. Len(r.orders), NEW s
    PROVE  Cardinality(Above(r, i - 1, s)) =
               IF r.orders[i].sender = s THEN Cardinality(Above(r, i, s)) + 1
               ELSE Cardinality(Above(r, i, s))
<1> DEFINE A == Above(r, i, s)
<1>1. Len(r.orders) \in Nat /\ DOMAIN r.orders = 1 .. Len(r.orders)
  BY BatchFields
<1>2. \A m \in 1 .. Len(r.orders) : m > i - 1 <=> m > i \/ m = i
  BY <1>1
<1>3. CASE r.orders[i].sender = s
  <2>1. Above(r, i - 1, s) = A \cup {i} /\ i \notin A
    BY <1>1, <1>2, <1>3 DEF Above
  <2>2. IsFiniteSet(A)
    BY BatchFinite
  <2> HIDE DEF A
  <2>3. Cardinality(A \cup {i}) = Cardinality(A) + 1
    BY <2>1, <2>2, FS_AddElement, Zenon
  <2> QED BY <1>3, <2>1, <2>3, Zenon DEF A
<1>4. CASE r.orders[i].sender # s
  <2>1. Above(r, i - 1, s) = A
    BY <1>1, <1>2, <1>4 DEF Above
  <2> QED BY <1>4, <2>1
<1> QED BY <1>3, <1>4

\* The order that takes the place of the i-th comes from above.
LEMMA AboveSwap ==
    ASSUME NEW r \in Batch, NEW i \in 1 .. Len(r.orders), NEW q \in Batch,
           q.orders = swap_remove_back(r.orders, i), NEW s
    PROVE  Cardinality(Above(r, i, s)) <= Cardinality(Above(q, i - 1, s))
<1> DEFINE n == Len(r.orders)
           A == Above(r, i, s)
           B == Above(q, i - 1, s)
           f == [m \in A |-> IF m = n THEN i ELSE m]
<1>1. n \in Nat /\ DOMAIN r.orders = 1 .. n
  BY BatchFields
<1>2. /\ Len(q.orders) = n - 1
      /\ \A j \in 1 .. n - 1 : q.orders[j] = IF j = i THEN r.orders[n] ELSE r.orders[j]
  <2> DEFINE new == swap_remove_back(r.orders, i)
  <2>1. /\ Len(new) = n - 1
        /\ \A j \in 1 .. n - 1 : new[j] = IF j = i THEN r.orders[n] ELSE r.orders[j]
    BY BatchFields, SwapRemove, Zenon
  <2> QED BY <2>1
<1>3. DOMAIN q.orders = 1 .. n - 1
  BY <1>2, BatchFields
<1>4. \A m : m \in A <=> m \in 1 .. n /\ m > i /\ r.orders[m].sender = s
  BY <1>1 DEF Above
<1>5. \A m : m \in B <=> m \in 1 .. n - 1 /\ m > i - 1 /\ q.orders[m].sender = s
  BY <1>3 DEF Above
<1> HIDE DEF A, B
<1>6. f \in [A -> B]
  <2> SUFFICES ASSUME NEW m \in A PROVE (IF m = n THEN i ELSE m) \in B
    OBVIOUS
  <2>1. m \in 1 .. n /\ m > i /\ r.orders[m].sender = s
    BY <1>4
  <2>2. CASE m = n
    <3>1. i \in 1 .. n - 1 /\ i > i - 1
      BY <1>1, <2>1, <2>2
    <3>2. q.orders[i] = r.orders[n]
      BY <1>2, <3>1
    <3> QED BY <1>5, <2>1, <2>2, <3>1, <3>2
  <2>3. CASE m # n
    <3>1. m \in 1 .. n - 1 /\ m > i - 1 /\ m # i
      BY <1>1, <2>1, <2>3
    <3>2. q.orders[m] = r.orders[m]
      BY <1>2, <3>1
    <3> QED BY <1>5, <2>1, <2>3, <3>1, <3>2
  <2> QED BY <2>2, <2>3
<1>7. \A x, y \in A : f[x] = f[y] => x = y
  BY <1>1, <1>4
<1>8. IsFiniteSet(B)
  BY BatchFinite DEF B
<1> HIDE DEF f
<1>9. Cardinality(A) <= Cardinality(B)
  BY <1>6, <1>7, <1>8, NoFewer
<1> QED BY <1>9 DEF A, B

LEMMA NextToSim ==
    ASSUME NEW o \in Order
    PROVE  /\ next_to_sim(o) \subseteq TxsOf(o.sender)
           /\ next_to_sim(o) # {} => AfterSim(o) \in Order /\ AfterSim(o).sender = o.sender
<1>1. o \in [sender : Sender, current : SUBSET Transaction, pending : Seq(Transaction)]
      /\ o.current \subseteq TxsOf(o.sender) /\ o.pending \in Seq(TxsOf(o.sender))
  BY DEF Order
<1>2. next_to_sim(o) \subseteq TxsOf(o.sender)
  <2>1. CASE o.pending = <<>> \/ o.current # {}
    BY <1>1, <2>1 DEF next_to_sim
  <2>2. CASE ~ (o.pending = <<>> \/ o.current # {})
    <3>1. o.pending[1] \in TxsOf(o.sender)
      BY <1>1, <2>2
    <3> QED BY <2>2, <3>1 DEF next_to_sim
  <2> QED BY <2>1, <2>2
<1>3. ASSUME next_to_sim(o) # {} PROVE AfterSim(o) \in Order /\ AfterSim(o).sender = o.sender
  <2>1. CASE o.current # {}
    BY <2>1 DEF AfterSim
  <2>2. CASE o.current = {}
    <3>1. o.pending # <<>>
      BY <1>3, <2>2 DEF next_to_sim
    <3>2. Tail(o.pending) \in Seq(TxsOf(o.sender)) /\ Tail(o.pending) \in Seq(Transaction)
      BY <1>1, <3>1, HeadTailProperties
    <3>3. AfterSim(o) = [o EXCEPT !.pending = Tail(o.pending)]
      BY <1>1, <2>2 DEF AfterSim
    <3> QED BY <1>1, <3>2, <3>3, Zenon DEF Order
  <2> QED BY <2>1, <2>2
<1> QED BY <1>2, <1>3

LEMMA SendOrder ==
    ASSUME NEW r \in Batch, NEW i \in 1 .. Len(r.orders), NEW gas
    PROVE  LET q == send_order(r, i, gas)
           IN  /\ q \in Batch /\ Len(q.orders) >= i - 1
               /\ Balanced(r, i) => Balanced(q, i - 1)
<1> DEFINE q == send_order(r, i, gas)
           o == r.orders[i]
<1>1. /\ r.orders \in Seq(Order) /\ Len(r.orders) \in Nat
      /\ r.sent \in Seq(Transaction) /\ Len(r.sent) \in Nat /\ DOMAIN r.sent = 1 .. Len(r.sent)
  BY BatchFields
<1>2. o \in Order
  BY <1>1, ElementOfSeq
<1>3. CASE Len(r.sent) = n_per_loop
  <2>1. q = r
    BY <1>3 DEF send_order
  <2>2. ASSUME Balanced(r, i), NEW s PROVE Cardinality(SentOf(r, s)) <= Cardinality(Above(r, i - 1, s))
    <3>1. Cardinality(SentOf(r, s)) <= Cardinality(Above(r, i, s))
      BY <2>2 DEF Balanced
    <3>2. Cardinality(SentOf(r, s)) \in Nat /\ Cardinality(Above(r, i, s)) \in Nat
      BY BatchFinite
    <3> QED BY <3>1, <3>2, AboveNext
  <2>3. Balanced(r, i) => Balanced(r, i - 1)
    BY <2>2 DEF Balanced
  <2>4. Len(r.orders) >= i - 1
    BY <1>1
  <2> QED BY <2>1, <2>3, <2>4
<1>4. CASE Len(r.sent) # n_per_loop /\ not_enough_gas(o, gas)
  <2>1. q = [r EXCEPT !.orders = swap_remove_back(r.orders, i)]
    BY <1>4 DEF send_order, Batch
  <2>2. swap_remove_back(r.orders, i) \in Seq(Order) /\ Len(swap_remove_back(r.orders, i)) = Len(r.orders) - 1
    BY <1>1, SwapRemove
  <2> HIDE DEF q
  <2>3. q \in Batch /\ q.orders = swap_remove_back(r.orders, i) /\ q.sent = r.sent
    BY <2>1, <2>2, Zenon DEF Batch
  <2>4. ASSUME Balanced(r, i), NEW s PROVE Cardinality(SentOf(q, s)) <= Cardinality(Above(q, i - 1, s))
    <3>1. Cardinality(SentOf(r, s)) <= Cardinality(Above(r, i, s))
      BY <2>4 DEF Balanced
    <3>2. Cardinality(Above(r, i, s)) <= Cardinality(Above(q, i - 1, s))
      BY <2>3, AboveSwap
    <3>3. Cardinality(SentOf(r, s)) \in Nat /\ Cardinality(Above(r, i, s)) \in Nat
      BY BatchFinite
    <3>4. Cardinality(Above(q, i - 1, s)) \in Nat
      BY <2>3, BatchFinite
    <3>5. SentOf(q, s) = SentOf(r, s)
      BY <2>3 DEF SentOf
    <3> QED BY <3>1, <3>2, <3>3, <3>4, <3>5
  <2>5. Balanced(r, i) => Balanced(q, i - 1)
    BY <2>4 DEF Balanced
  <2>6. Len(q.orders) >= i - 1
    BY <1>1, <2>2, <2>3
  <2> QED BY <2>3, <2>5, <2>6 DEF q
<1>5. CASE Len(r.sent) # n_per_loop /\ ~ not_enough_gas(o, gas)
  <2> DEFINE t == Only(next_to_sim(o))
             a == AfterSim(o)
  <2>1. next_to_sim(o) # {}
    BY <1>5 DEF not_enough_gas
  <2>2. t \in next_to_sim(o)
    BY <2>1 DEF Only
  <2>3. t \in Transaction /\ t.sender = o.sender
    BY <1>2, <2>2, NextToSim DEF TxsOf
  <2>4. a \in Order /\ a.sender = o.sender
    BY <1>2, <2>1, NextToSim
  <2>5. q = [orders |-> [r.orders EXCEPT ![i] = a], sent |-> Append(r.sent, t)]
    BY <1>5 DEF send_order
  <2> HIDE DEF t, a, q
  <2> DEFINE new == [r.orders EXCEPT ![i] = a]
             app == Append(r.sent, t)
  <2>6. /\ new \in Seq(Order) /\ Len(new) = Len(r.orders)
        /\ \A s : OrdersOf(new, s) = OrdersOf(r.orders, s)
    BY <1>1, <2>4, ReplaceOrder
  <2>7. /\ app \in Seq(Transaction) /\ Len(app) = Len(r.sent) + 1
        /\ (\A j \in 1 .. Len(r.sent) : app[j] = r.sent[j]) /\ app[Len(r.sent) + 1] = t
    BY <1>1, <2>3, AppendProperties
  <2> HIDE DEF new, app
  <2>8. q \in Batch /\ q.orders = new /\ q.sent = app
    BY <2>5, <2>6, <2>7, Zenon DEF Batch, new, app
  <2>9. ASSUME Balanced(r, i), NEW s PROVE Cardinality(SentOf(q, s)) <= Cardinality(Above(q, i - 1, s))
    <3> DEFINE N == Len(r.sent)
    <3>1. Cardinality(SentOf(r, s)) <= Cardinality(Above(r, i, s))
      BY <2>9 DEF Balanced
    <3>2. IsFiniteSet(SentOf(r, s)) /\ Cardinality(SentOf(r, s)) \in Nat /\ Cardinality(Above(r, i, s)) \in Nat
      BY BatchFinite
    <3>3. Above(q, i - 1, s) = Above(r, i - 1, s)
      <4>1. \A x, j : Above(x, j, s) = {m \in OrdersOf(x.orders, s) : m > j}
        BY DEF Above, OrdersOf
      <4> QED BY <2>6, <2>8, <4>1, Zenon
    <3>4. Cardinality(Above(r, i - 1, s)) =
             IF o.sender = s THEN Cardinality(Above(r, i, s)) + 1 ELSE Cardinality(Above(r, i, s))
      BY AboveNext
    <3>5. DOMAIN app = 1 .. N + 1 /\ 1 .. N + 1 = (1 .. N) \cup {N + 1} /\ N + 1 \notin 1 .. N
      BY <1>1, <2>7
    <3>6. CASE o.sender = s
      <4>1. SentOf(q, s) = SentOf(r, s) \cup {N + 1} /\ N + 1 \notin SentOf(r, s)
        BY <1>1, <2>3, <2>7, <2>8, <3>5, <3>6 DEF SentOf
      <4>2. Cardinality(SentOf(r, s) \cup {N + 1}) = Cardinality(SentOf(r, s)) + 1
        BY <3>2, <4>1, FS_AddElement, Zenon
      <4> QED BY <3>1, <3>2, <3>3, <3>4, <3>6, <4>1, <4>2
    <3>7. CASE o.sender # s
      <4>1. SentOf(q, s) = SentOf(r, s)
        BY <1>1, <2>3, <2>7, <2>8, <3>5, <3>7, Zenon DEF SentOf
      <4> QED BY <3>1, <3>2, <3>3, <3>4, <3>7, <4>1, Zenon
    <3> QED BY <3>6, <3>7
  <2>10. Balanced(r, i) => Balanced(q, i - 1)
    BY <2>9 DEF Balanced
  <2>11. Len(q.orders) >= i - 1
    BY <1>1, <2>6, <2>8
  <2> QED BY <2>8, <2>10, <2>11 DEF q
<1> QED BY <1>3, <1>4, <1>5

BatchUpTo(g, sd) ==
    g = [k \in 0 .. Len(sd.orders) |->
            IF k = 0 THEN [orders |-> sd.orders, sent |-> <<>>]
            ELSE send_order(g[k - 1], Len(sd.orders) - k + 1, sd.gas)]

LEMMA BatchUpToExists ==
    ASSUME NEW sd, sd.orders \in Seq(Order)
    PROVE  \E g : BatchUpTo(g, sd)
<1> DEFINE n == Len(sd.orders)
           first == [orders |-> sd.orders, sent |-> <<>>]
           step(k, r) == IF n - k + 1 \in 1 .. Len(r.orders) THEN send_order(r, n - k + 1, sd.gas) ELSE r
           F == [p \in Nat \X Batch |-> step(p[1], p[2])]
<1>1. n \in Nat
  BY LenProperties
<1>2. first \in Batch /\ first.orders = sd.orders
  <2>1. <<>> \in Seq(Transaction)
    OBVIOUS
  <2> QED BY <2>1 DEF Batch
<1> HIDE DEF first
<1>3. ASSUME NEW k \in Nat, NEW r \in Batch PROVE step(k, r) \in Batch
  BY SendOrder
<1>4. F \in [Nat \X Batch -> Batch]
  BY <1>3, Zenon
<1>5. ASSUME NEW k \in Nat, NEW r \in Batch PROVE F[<<k, r>>] = step(k, r)
  OBVIOUS
<1> HIDE DEF F
<1>6. PICK g \in [0 .. n -> Batch] : Steps(g, F, first, n)
  BY <1>1, <1>2, <1>4, StepsExist, Zenon
<1>7. ASSUME NEW k \in 1 .. n PROVE g[k] = step(k, g[k - 1])
  <2>1. k \in Nat /\ k - 1 \in 0 .. n
    BY <1>1
  <2>2. g[k - 1] \in Batch
    BY <2>1
  <2> QED BY <1>5, <1>6, <2>1, <2>2, Zenon DEF Steps
<1>8. g[0] = first
  BY <1>6 DEF Steps
<1> DEFINE T == {k \in 0 .. n : ~ (Len(g[k].orders) >= n - k)}
<1>9. T = {}
  <2> SUFFICES ASSUME T # {} PROVE FALSE
    OBVIOUS
  <2>1. PICK m \in T : \A k \in T : m <= k
    <3>1. T \subseteq Nat
      OBVIOUS
    <3> HIDE DEF T
    <3> QED BY <3>1, LeastNat, Zenon
  <2>2. m \in 0 .. n /\ ~ (Len(g[m].orders) >= n - m)
    BY <2>1
  <2>3. m # 0
    BY <1>1, <1>2, <1>8, <2>2
  <2>4. m \in 1 .. n /\ m - 1 \in 0 .. n /\ m - 1 \notin T
    BY <1>1, <2>1, <2>2, <2>3
  <2>5. g[m - 1] \in Batch /\ Len(g[m - 1].orders) >= n - (m - 1)
    BY <2>4, Zenon
  <2>6. Len(g[m - 1].orders) \in Nat
    BY <2>5, BatchFields
  <2>7. n - m + 1 \in 1 .. Len(g[m - 1].orders)
    BY <1>1, <2>4, <2>5, <2>6
  <2>8. g[m] = send_order(g[m - 1], n - m + 1, sd.gas)
    BY <1>7, <2>4, <2>7, Zenon
  <2>9. Len(g[m].orders) >= (n - m + 1) - 1
    BY <2>5, <2>7, <2>8, SendOrder, Zenon
  <2> QED BY <1>1, <2>2, <2>9
<1>10. ASSUME NEW k \in 0 .. n
       PROVE  g[k] = IF k = 0 THEN first ELSE send_order(g[k - 1], n - k + 1, sd.gas)
  <2>1. CASE k = 0
    BY <1>8, <2>1
  <2>2. CASE k # 0
    <3>1. k \in 1 .. n /\ k - 1 \in 0 .. n /\ k - 1 \notin T
      <4>1. k \in 1 .. n /\ k - 1 \in 0 .. n
        BY <1>1, <2>2
      <4> HIDE DEF T
      <4> QED BY <1>9, <4>1
    <3>2. g[k - 1] \in Batch /\ Len(g[k - 1].orders) >= n - (k - 1)
      <4> DEFINE j == k - 1
      <4>1. j \in 0 .. n /\ j \notin T
        BY <3>1
      <4> HIDE DEF j
      <4>2. g[j] \in Batch /\ Len(g[j].orders) >= n - j
        BY <4>1
      <4> QED BY <4>2 DEF j
    <3>3. Len(g[k - 1].orders) \in Nat
      BY <3>2, BatchFields
    <3>4. n - k + 1 \in 1 .. Len(g[k - 1].orders)
      BY <1>1, <3>1, <3>2, <3>3
    <3> QED BY <1>7, <2>2, <3>1, <3>4
  <2> QED BY <2>1, <2>2
<1>11. g = [k \in 0 .. n |-> IF k = 0 THEN first ELSE send_order(g[k - 1], n - k + 1, sd.gas)]
  BY <1>10
<1> QED BY <1>11 DEF BatchUpTo, first

\* What send_next sends has an order each.
LEMMA SendNextBatch ==
    ASSUME NEW sd, sd.orders \in Seq(Order)
    PROVE  LET r == send_next(sd)
           IN  r \in Batch /\ \A s : Cardinality(SentOf(r, s)) <= Own(r.orders, s)
<1> DEFINE n == Len(sd.orders)
           first == [orders |-> sd.orders, sent |-> <<>>]
           g == CHOOSE x : BatchUpTo(x, sd)
           Good(k) == g[k] \in Batch /\ Len(g[k].orders) >= n - k /\ Balanced(g[k], n - k)
           T == {k \in 0 .. n : ~ Good(k)}
<1>1. n \in Nat /\ DOMAIN sd.orders = 1 .. n
  BY LenProperties
<1>2. send_next(sd) = g[n]
  BY DEF send_next, BatchUpTo
<1>3. BatchUpTo(g, sd)
  BY BatchUpToExists
<1> HIDE DEF g
<1>4. \A k \in 0 .. n : g[k] = IF k = 0 THEN first ELSE send_order(g[k - 1], n - k + 1, sd.gas)
  BY <1>3, Zenon DEF BatchUpTo
<1>5. g[0] = first /\ \A k \in 1 .. n : g[k] = send_order(g[k - 1], n - k + 1, sd.gas)
  <2>1. 0 \in 0 .. n /\ \A k \in 1 .. n : k \in 0 .. n /\ k # 0
    BY <1>1
  <2> HIDE DEF first
  <2> QED BY <1>4, <2>1, Zenon
<1>6. Good(0)
  <2>1. <<>> \in Seq(Transaction)
    OBVIOUS
  <2>2. first \in Batch /\ first.orders = sd.orders /\ first.sent = <<>>
    BY <2>1 DEF Batch
  <2> HIDE DEF first
  <2>3. Len(first.orders) >= n - 0
    BY <1>1, <2>2
  <2>4. ASSUME NEW s PROVE Cardinality(SentOf(first, s)) <= Cardinality(Above(first, n - 0, s))
    <3>1. SentOf(first, s) = {}
      BY <2>2 DEF SentOf
    <3>2. Cardinality(SentOf(first, s)) = 0
      BY <3>1, FS_EmptySet
    <3>3. Cardinality(Above(first, n - 0, s)) \in Nat
      BY <2>2, BatchFinite, Zenon
    <3> QED BY <3>2, <3>3
  <2> QED BY <1>5, <2>2, <2>3, <2>4 DEF Balanced
<1>7. ASSUME NEW k \in 1 .. n, Good(k - 1) PROVE Good(k)
  <2> DEFINE r == g[k - 1]
             i == n - k + 1
  <2>1. n - (k - 1) = i /\ i - 1 = n - k /\ i \in Int /\ i >= 1
    BY <1>1
  <2>2. r \in Batch /\ Len(r.orders) >= i /\ Balanced(r, i)
    BY <1>7, <2>1
  <2>3. Len(r.orders) \in Nat
    BY <2>2, BatchFields
  <2>4. i \in 1 .. Len(r.orders)
    BY <2>1, <2>2, <2>3
  <2>5. g[k] = send_order(r, i, sd.gas)
    BY <1>5
  <2> HIDE DEF r, i
  <2>6. g[k] \in Batch /\ Len(g[k].orders) >= i - 1 /\ Balanced(g[k], i - 1)
    BY <2>2, <2>4, <2>5, SendOrder
  <2> QED BY <2>1, <2>6, Zenon
<1>8. T = {}
  <2> SUFFICES ASSUME T # {} PROVE FALSE
    OBVIOUS
  <2>1. PICK m \in T : \A k \in T : m <= k
    <3>1. T \subseteq Nat
      OBVIOUS
    <3> HIDE DEF T
    <3> QED BY <3>1, LeastNat, Zenon
  <2>2. m \in 0 .. n /\ ~ Good(m)
    BY <2>1
  <2>3. m # 0
    <3> HIDE DEF Good
    <3> QED BY <1>6, <2>2
  <2>4. m \in 1 .. n /\ m - 1 \in 0 .. n /\ m - 1 \notin T
    BY <1>1, <2>1, <2>2, <2>3
  <2>5. Good(m - 1)
    <3> HIDE DEF Good
    <3> QED BY <2>4
  <2> HIDE DEF Good
  <2> QED BY <1>7, <2>2, <2>4, <2>5
<1>9. Good(n)
  <2>1. n \in 0 .. n /\ n \notin T
    BY <1>1, <1>8
  <2> HIDE DEF Good
  <2> QED BY <2>1
<1>10. g[n] \in Batch /\ Balanced(g[n], 0)
  <2>1. n - n = 0
    BY <1>1
  <2> QED BY <1>9, <2>1
<1>11. ASSUME NEW s PROVE Cardinality(SentOf(g[n], s)) <= Own(g[n].orders, s)
  <2>1. DOMAIN g[n].orders = 1 .. Len(g[n].orders)
    BY <1>10, BatchFields
  <2>2. Above(g[n], 0, s) = OrdersOf(g[n].orders, s)
    BY <2>1 DEF Above, OrdersOf
  <2>3. Cardinality(SentOf(g[n], s)) <= Cardinality(Above(g[n], 0, s))
    BY <1>10 DEF Balanced
  <2> QED BY <2>2, <2>3 DEF Own
<1> QED BY <1>2, <1>10, <1>11

\* SortingData::new takes orders of the active lists.
LEMMA SnapshotOrders ==
    ASSUME NEW p \in Pool, NEW noTxPool, NEW orders \in Snapshots(p, noTxPool)
    PROVE  orders \in Seq(Order)
<1> DEFINE S == {r \in Sender : p.active[r] # <<>>}
           L == {[sender |-> s, current |-> {}, pending |-> p.active[s]] : s \in S}
           f == [s \in S |-> [sender |-> s, current |-> {}, pending |-> p.active[s]]]
<1>1. orders = <<>> \/ orders \in Injection(1 .. Cardinality(L), L)
  BY Zenon DEF Snapshots
<1>2. L \subseteq Order
  <2> SUFFICES ASSUME NEW s \in S
               PROVE  [sender |-> s, current |-> {}, pending |-> p.active[s]] \in Order
    BY Zenon
  <2>1. p.active[s] \in Seq(TxsOf(s)) /\ p.active[s] \in Seq(Transaction)
    BY DEF Pool, Lists
  <2> QED BY <2>1, Zenon DEF Order
<1>3. IsFiniteSet(L)
  <2>1. S \in SUBSET Sender /\ IsFiniteSet(Sender)
    BY PoolAssumption
  <2>2. IsFiniteSet(S)
    BY <2>1, FS_Subset
  <2>3. f \in Surjection(S, L)
    BY Zenon DEF Surjection
  <2> QED BY <2>2, <2>3, FS_Surjection, Zenon
<1> HIDE DEF L
<1>4. CASE orders \in Injection(1 .. Cardinality(L), L)
  <2>1. orders \in [1 .. Cardinality(L) -> L] /\ Cardinality(L) \in Nat
    BY <1>3, <1>4, FS_CardinalityType DEF Injection
  <2>2. orders \in Seq(L)
    BY <2>1
  <2> QED BY <1>2, <2>2, SeqMonotonic
<1>5. CASE orders = <<>>
  BY <1>5
<1> QED BY <1>1, <1>4, <1>5

-----------------------------------------------------------------------------
(***************************************************************************)
(* The SortingData.                                                        *)
(***************************************************************************)
IsOption(x) == x = {} \/ \E t \in Transaction : x = {t}

IsSorting(sd) ==
    /\ DOMAIN sd = Fields
    /\ sd.id \in Nat /\ sd.nonces \in [Sender -> Nat]
    /\ sd.txs \in Seq(Transaction) /\ sd.orders \in Seq(Order)
    /\ IsOption(sd.next)

\* Whether the transaction that is kept is of the sender, as a number.
Kept(next, s) == Cardinality({t \in next : t.sender = s})

LEMMA KeptIs ==
    /\ \A s : Kept({}, s) = 0
    /\ \A t, s : Kept({t}, s) = IF t.sender = s THEN 1 ELSE 0
<1>1. ASSUME NEW s PROVE Kept({}, s) = 0
  <2>1. {t \in {} : t.sender = s} = {}
    OBVIOUS
  <2> QED BY <2>1, FS_EmptySet DEF Kept
<1>2. ASSUME NEW t, NEW s PROVE Kept({t}, s) = IF t.sender = s THEN 1 ELSE 0
  <2>1. CASE t.sender = s
    <3>1. {x \in {t} : x.sender = s} = {t}
      BY <2>1
    <3>2. Cardinality({t}) = 1
      BY FS_Singleton
    <3> QED BY <2>1, <3>1, <3>2 DEF Kept
  <2>2. CASE t.sender # s
    <3>1. {x \in {t} : x.sender = s} = {}
      BY <2>2
    <3>2. Cardinality({}) = 0
      BY FS_EmptySet
    <3> QED BY <2>2, <3>1, <3>2 DEF Kept
  <2> QED BY <2>1, <2>2
<1> QED BY <1>1, <1>2

LEMMA KeptType ==
    ASSUME NEW x, IsOption(x), NEW s
    PROVE  Kept(x, s) \in Nat
<1>1. CASE x = {}
  BY <1>1, KeptIs
<1>2. CASE \E t \in Transaction : x = {t}
  <2>1. PICK t \in Transaction : x = {t}
    BY <1>2
  <2>2. Kept({t}, s) = IF t.sender = s THEN 1 ELSE 0
    BY KeptIs
  <2> QED BY <2>1, <2>2
<1> QED BY <1>1, <1>2 DEF IsOption

LEMMA NewSortingType ==
    ASSUME NEW sd, sd.id \in Nat, NEW orders \in Seq(Order), NEW nonces \in [Sender -> Nat], NEW gas,
           NEW new, new = NewSorting(sd, orders, nonces, gas)
    PROVE  /\ IsSorting(new) /\ new.id = sd.id + 1 /\ new.next = {} /\ new.in_flight_sims = 0
           /\ new.nonces = nonces /\ new.txs = <<>> /\ new.orders = orders
<1>1. /\ DOMAIN new = Fields /\ new.id = sd.id + 1 /\ new.next = {} /\ new.in_flight_sims = 0
      /\ new.nonces = nonces /\ new.txs = <<>> /\ new.orders = orders
  BY Zenon DEF NewSorting, Fields
<1>2. <<>> \in Seq(Transaction) /\ sd.id + 1 \in Nat
  OBVIOUS
<1> QED BY <1>1, <1>2, Zenon DEF IsSorting, IsOption

LEMMA ApplySorting ==
    ASSUME NEW sd, IsSorting(sd), NEW tx \in Transaction
    PROVE  LET new == apply_tx(sd, tx)
           IN  /\ IsSorting(new) /\ new.id = sd.id + 1 /\ new.orders = sd.orders /\ new.next = sd.next
               /\ new.in_flight_sims = sd.in_flight_sims
               /\ new.txs = Append(sd.txs, tx)
               /\ new.nonces = [sd.nonces EXCEPT ![tx.sender] = sd.nonces[tx.sender] + 1]
<1> DEFINE new == apply_tx(sd, tx)
<1>1. DOMAIN new = Fields /\ new.next = sd.next
  BY ApplyFields, Zenon DEF IsSorting
<1>6. /\ new.id = sd.id + 1 /\ new.orders = sd.orders /\ new.in_flight_sims = sd.in_flight_sims
      /\ new.txs = Append(sd.txs, tx)
  BY DEF apply_tx, IsSorting, Fields
<1>7. new.nonces = [sd.nonces EXCEPT ![tx.sender] = sd.nonces[tx.sender] + 1]
  BY DEF apply_tx, IsSorting, Fields
<1> HIDE DEF new
<1>2. /\ new.id = sd.id + 1 /\ new.orders = sd.orders /\ new.in_flight_sims = sd.in_flight_sims
      /\ new.txs = Append(sd.txs, tx)
      /\ new.nonces = [sd.nonces EXCEPT ![tx.sender] = sd.nonces[tx.sender] + 1]
  BY <1>6, <1>7, Zenon
<1>3. new.txs \in Seq(Transaction)
  BY <1>2, AppendProperties DEF IsSorting
<1>4. new.nonces \in [Sender -> Nat]
  <2>1. sd.nonces \in [Sender -> Nat] /\ tx.sender \in Sender
    BY DEF IsSorting, Transaction
  <2>2. [sd.nonces EXCEPT ![tx.sender] = sd.nonces[tx.sender] + 1] \in [Sender -> Nat]
    BY <2>1
  <2> QED BY <1>2, <2>1, <2>2
<1>5. IsSorting(new)
  BY <1>1, <1>2, <1>3, <1>4 DEF IsSorting
<1> QED BY <1>1, <1>2, <1>5, Zenon DEF new

LEMMA OptionOnly ==
    ASSUME NEW x, IsOption(x), x # {}
    PROVE  Only(x) \in Transaction /\ x = {Only(x)}
BY DEF IsOption, Only

LEMMA MaybeApplySorting ==
    ASSUME NEW sd, IsSorting(sd)
    PROVE  LET new == maybe_apply(sd)
           IN  /\ IsSorting(new) /\ new.next = {}
               /\ sd.next = {} => new = sd
               /\ sd.next # {} =>
                    /\ new.id = sd.id + 1
                    /\ new.txs = Append(sd.txs, Only(sd.next))
                    /\ new.nonces = [sd.nonces EXCEPT ![Only(sd.next).sender] =
                                        sd.nonces[Only(sd.next).sender] + 1]
<1> DEFINE new == maybe_apply(sd)
           t == Only(sd.next)
           cleared == [sd EXCEPT !.next = {}, !.orders = remove_from_sender(@, t.sender)]
<1>1. CASE sd.next = {}
  BY <1>1 DEF maybe_apply
<1>2. CASE sd.next # {}
  <2>1. t \in Transaction
    BY <1>2, OptionOnly, Zenon DEF IsSorting
  <2>2. remove_from_sender(sd.orders, t.sender) \in Seq(Order)
    BY RemoveFromSender DEF IsSorting
  <2>3. /\ DOMAIN cleared = Fields /\ cleared.id = sd.id /\ cleared.nonces = sd.nonces
        /\ cleared.txs = sd.txs /\ cleared.next = {}
        /\ cleared.orders = remove_from_sender(sd.orders, t.sender)
    <3>1. DOMAIN sd = Fields
      BY DEF IsSorting
    <3> HIDE DEF t
    <3> QED BY <3>1 DEF Fields
  <2>4. new = apply_tx(cleared, t)
    BY <1>2 DEF maybe_apply
  <2> HIDE DEF cleared, new, t
  <2>5. IsSorting(cleared)
    BY <2>2, <2>3 DEF IsSorting, IsOption
  <2>6. /\ IsSorting(new) /\ new.next = {} /\ new.id = sd.id + 1
        /\ new.txs = Append(sd.txs, t)
        /\ new.nonces = [sd.nonces EXCEPT ![t.sender] = sd.nonces[t.sender] + 1]
    BY <2>1, <2>3, <2>4, <2>5, ApplySorting
  <2> QED BY <1>2, <2>6, Zenon DEF new, t
<1> QED BY <1>1, <1>2, Zenon

\* A result that is dropped as an error costs its sender an order; one that is kept, or
\* puts back another, does not.
LEMMA HandleSimSorting ==
    ASSUME NEW sd, IsSorting(sd), NEW tx \in Transaction
    PROVE  LET new == handle_sim(sd, tx)
           IN  /\ IsSorting(new) /\ new.id = sd.id /\ new.txs = sd.txs /\ new.nonces = sd.nonces
               /\ new.in_flight_sims = sd.in_flight_sims - 1
               /\ \A s : Kept(new.next, s) + Own(sd.orders, s) <=
                      Own(new.orders, s) + Kept(sd.next, s) + (IF tx.sender = s THEN 1 ELSE 0)
<1> DEFINE new == handle_sim(sd, tx)
           error == ~ Simulates(tx, sd.nonces) \/ sd.gas < tx.used
           better == tx.used < sd.gas /\ \A t \in sd.next : t.fee < tx.fee
           back   == IF better THEN sd.next ELSE {tx}
<1>1. sd.orders \in Seq(Order) /\ IsOption(sd.next)
  BY Zenon DEF IsSorting
<1>2. /\ DOMAIN new = Fields /\ new.id = sd.id /\ new.txs = sd.txs /\ new.nonces = sd.nonces
      /\ new.in_flight_sims = sd.in_flight_sims - 1
  BY DEF handle_sim, IsSorting, Fields
<1>3. /\ new.orders = IF error THEN remove_from_sender(sd.orders, tx.sender)
                      ELSE IF back = {} THEN sd.orders ELSE put_back(sd.orders, Only(back))
      /\ new.next = IF error \/ ~ better THEN sd.next ELSE {tx}
  BY DEF handle_sim, IsSorting, Fields
<1> HIDE DEF new, error, better, back
<1>4. \A s : Own(sd.orders, s) \in Nat /\ Kept(sd.next, s) \in Nat
  BY <1>1, OrdersFinite, KeptType
<1>5. CASE error
  <2>1. new.orders \in Seq(Order) /\ \A s : Own(new.orders, s) >=
           IF s = tx.sender THEN Own(sd.orders, s) - 1 ELSE Own(sd.orders, s)
    BY <1>1, <1>3, <1>5, RemoveFromSender, Zenon
  <2>2. new.next = sd.next
    BY <1>3, <1>5, Zenon
  <2>3. \A s : Own(new.orders, s) \in Nat
    BY <2>1, OrdersFinite
  <2>4. IsSorting(new)
    BY <1>1, <1>2, <2>1, <2>2 DEF IsSorting
  <2>5. \A s : Kept(new.next, s) + Own(sd.orders, s) <=
             Own(new.orders, s) + Kept(sd.next, s) + (IF tx.sender = s THEN 1 ELSE 0)
    <3> SUFFICES ASSUME NEW s
                 PROVE  Kept(new.next, s) + Own(sd.orders, s) <=
                           Own(new.orders, s) + Kept(sd.next, s) + (IF tx.sender = s THEN 1 ELSE 0)
      OBVIOUS
    <3>1. /\ Own(sd.orders, s) \in Nat /\ Kept(sd.next, s) \in Nat /\ Own(new.orders, s) \in Nat
          /\ Own(new.orders, s) >= IF s = tx.sender THEN Own(sd.orders, s) - 1 ELSE Own(sd.orders, s)
          /\ Kept(new.next, s) = Kept(sd.next, s)
      BY <1>4, <2>1, <2>2, <2>3, Zenon
    <3> QED BY <3>1
  <2> QED BY <1>2, <2>4, <2>5 DEF new
<1>6. CASE ~ error
  <2>1. new.orders \in Seq(Order) /\ \A s : Own(new.orders, s) >= Own(sd.orders, s)
    <3>1. CASE back = {}
      BY <1>1, <1>3, <1>4, <1>6, <3>1
    <3>2. CASE back # {}
      <4>1. IsOption(back)
        BY <1>1 DEF IsOption, back
      <4>2. Only(back) \in Transaction
        BY <3>2, <4>1, OptionOnly
      <4>3. new.orders = put_back(sd.orders, Only(back))
        BY <1>3, <1>6, <3>2
      <4> QED BY <1>1, <4>2, <4>3, PutBack, Zenon
    <3> QED BY <3>1, <3>2
  <2>2. \A s : Own(new.orders, s) \in Nat
    BY <2>1, OrdersFinite
  <2>3. new.next = (IF better THEN {tx} ELSE sd.next)
    BY <1>3, <1>6
  <2>4. IsOption(new.next)
    BY <1>1, <2>3 DEF IsOption
  <2>5. IsSorting(new)
    BY <1>1, <1>2, <2>1, <2>4, Zenon DEF IsSorting
  <2>6. ASSUME NEW s
        PROVE  Kept(new.next, s) + Own(sd.orders, s) <=
                   Own(new.orders, s) + Kept(sd.next, s) + (IF tx.sender = s THEN 1 ELSE 0)
    <3>1. Kept({tx}, s) = IF tx.sender = s THEN 1 ELSE 0
      BY KeptIs
    <3>4. /\ Own(sd.orders, s) \in Nat /\ Kept(sd.next, s) \in Nat /\ Own(new.orders, s) \in Nat
          /\ Own(new.orders, s) >= Own(sd.orders, s)
      BY <1>4, <2>1, <2>2, Zenon
    <3>2. CASE better
      <4>1. Kept(new.next, s) = IF tx.sender = s THEN 1 ELSE 0
        BY <2>3, <3>1, <3>2, Zenon
      <4> QED BY <3>4, <4>1
    <3>3. CASE ~ better
      <4>1. Kept(new.next, s) = Kept(sd.next, s)
        BY <2>3, <3>3
      <4> QED BY <3>4, <4>1
    <3> QED BY <3>2, <3>3, Zenon
  <2> QED BY <1>2, <2>5, <2>6, Zenon DEF new
<1> QED BY <1>5, <1>6, Zenon
=============================================================================
