-------------------------- MODULE MCUnsealedBlock --------------------------
(***************************************************************************)
(* Instances of UnsealedBlock for TLC.                                     *)
(***************************************************************************)
EXTENDS UnsealedBlock

Env_(p, n, t)     == [type |-> "env", parent |-> p, block |-> n, time |-> t]
Frag_(n, i, l, t) == [type |-> "frag", block |-> n, seq |-> i, last |-> l, txs |-> t]
Seal_(h, n, k)    == [type |-> "seal", hash |-> h, block |-> n, total |-> k]

Txs == {"x", "y", "z"}

Block(t, txs) == [time |-> t, txs |-> txs]

H0 == <<Block(1, <<>>)>>

\* Two blocks at height 2 and a child of the first of them.
A2 == Append(H0, Block(2, <<"x", "y">>))
B2 == Append(H0, Block(2, <<"x">>))
A3 == Append(A2, Block(3, <<"z">>))

\* Envs on a block whose state is lost, with a parent's timestamp, with a number
\* that is not the next; frags that repeat a transaction, or overfill the block
\* only together with another; seals with the wrong count and of an old block.
Messages ==
    { Env_(H0, 2, 2), Env_(A2, 3, 3), Env_(<<>>, 1, 1), Env_(H0, 2, 1), Env_(H0, 3, 2), Env_(H0, 2, 0),
      Frag_(2, 0, FALSE, <<"x">>), Frag_(2, 1, TRUE, <<"y">>), Frag_(2, 0, TRUE, <<"x">>),
      Frag_(2, 1, FALSE, <<"x">>), Frag_(2, 1, FALSE, <<>>), Frag_(2, 2, TRUE, <<"y", "z">>),
      Frag_(3, 0, TRUE, <<"z">>), Frag_(3, 0, TRUE, <<"x">>),
      Seal_(A2, 2, 2), Seal_(A2, 2, 1), Seal_(B2, 2, 1), Seal_(A3, 3, 1), Seal_(H0, 1, 1), Seal_(<<>>, 0, 1) }

Payloads == {A2, A3, B2}

Genesis == {<<>>}
=============================================================================
