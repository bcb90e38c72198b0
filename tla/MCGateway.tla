----------------------------- MODULE MCGateway -----------------------------
(***************************************************************************)
(* Instances of Gateway for TLC.                                           *)
(***************************************************************************)
EXTENDS Gateway

Empty(t) == [time |-> t, txs |-> <<>>]

Root == <<Empty(1)>>
Tip  == <<Empty(1), Empty(2), [time |-> 3, txs |-> <<"t">>], Empty(4), Empty(5),
          Empty(6)>>

\* The blocks of other builders that extend the tip.
Others ==
    LET next == Append(Tip, Empty(7))
    IN  Ancestors(Append(next, Empty(8))) \ {<<>>}

Deposits == {[time |-> 7, forced |-> <<"d">>], [time |-> 8, forced |-> <<"e">>], [time |-> 9, forced |-> <<>>]}
=============================================================================
