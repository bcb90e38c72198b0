----------------------------- MODULE MCFollower -----------------------------
(***************************************************************************)
(* Instances of Follower for TLC.                                          *)
(***************************************************************************)
EXTENDS Follower, TLC

\* A block of the gateway, and the events that announce it, in their order, its
\* transactions cut into frags.
Next_(parent, txs) == Append(parent, [time |-> Len(parent) + 1, txs |-> txs])

EventsOf(h, frags) ==
    LET n == Len(h)
        k == Len(frags)
    IN  << [type |-> "env", block |-> n, parent |-> SubSeq(h, 1, n - 1), time |-> h[n].time] >>
        \o [i \in 1 .. k |->
               [type |-> "frag", block |-> n, seq |-> i - 1, last |-> i = k, txs |-> frags[i]]]
        \o << [type |-> "seal", block |-> n, hash |-> h, total |-> k] >>

L2(h) == [type |-> "l2", block |-> Len(h), hash |-> h]

B1 == Next_(<<>>, <<>>)
B2 == Next_(B1, <<"a", "b">>)
B3 == Next_(B2, <<"c">>)
B4 == Next_(B3, <<"d", "e", "f">>)

Events2 == EventsOf(B2, << <<"a">>, <<"b">> >>)
Events3 == EventsOf(B3, << <<"c">> >>)
Events4 == EventsOf(B4, << <<"d">>, <<>>, <<"e", "f">> >>)

Set(s) == {s[i] : i \in DOMAIN s}

\* The blocks of these streams, and where they are cut.
Tips == (2 :> B2) @@ (3 :> B3) @@ (4 :> B4)
Cuts == (2 :> (0 :> 0 @@ 1 :> 1 @@ 2 :> 2)) @@ (3 :> (0 :> 0 @@ 1 :> 1))
        @@ (4 :> (0 :> 0 @@ 1 :> 1 @@ 2 :> 1 @@ 3 :> 3))

\* The streams are of the kind that the theorems of FollowerProofs are about.
ASSUME OfOneGateway == IsStreamOf(Tips, Cuts)

ThreeBlocks   == Events2 \o Events3 \o Events4
StreamOfThree == Set(ThreeBlocks)
StreamOfTwo   == Set(Events2 \o Events3)
SafeStream    == StreamOfTwo \cup {L2(B2), L2(B3)}

Txs == {"a", "b", "c", "d", "e", "f"}

NoPayloads  == {}
TwoPayloads == {B2, B3}
ThreePayloads == {B2, B3, B4}
NoneLost    == {}
Genesis     == {<<>>}

AnyTime(m, rcvd, snt) == TRUE

\* Nothing lost or repeated, and the seal of the first block forwarded before the
\* env of another one is heard of.
OnceWarm(m, rcvd, snt) ==
    /\ m \notin rcvd
    /\ m.type = "env" /\ m.block # 2 => \E s \in snt : s.type = "seal"

Feed == INSTANCE InOrderFeed WITH fed <- sent, Order <- ThreeBlocks

\* Once the seal of a first block is forwarded, and however gossip reorders the events of
\* consecutive blocks otherwise, the buffer calls the engine with exactly those events,
\* in the order in which the gateway emitted them, and in the end with all of them.
FeedsInOrder == Feed!Spec

Promised == INSTANCE PreconfirmedChain WITH
    Start <- InitHead,
    chain <- head,
    preconfirmed <- IF unsealed = {} THEN <<>>
                    ELSE (CHOOSE st \in unsealedState : TRUE).txs

\* However gossip reorders the events of the gateway past that cold start, a node that
\* loses none keeps every preconfirmation it has served.
KeepsPreconfirmations == Promised!Spec

\* And it seals every block of the gateway, without the driver.
SealsEveryBlock == <>(\A h \in GatewayTips : h \in Geth!Ancestors(head))
=============================================================================
