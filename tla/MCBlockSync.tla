---------------------------- MODULE MCBlockSync ----------------------------
(***************************************************************************)
(* Instances of BlockSync for TLC.                                         *)
(***************************************************************************)
EXTENDS BlockSync

\* Only the chains matter here: a content is told by its timestamp.
Chain(times) == [n \in DOMAIN times |-> [time |-> times[n], txs |-> <<>>]]

Root == Chain(<<1>>)

\* Two chains that part after the first block.
TwoChains ==
    (Ancestors(Chain(<<1, 2, 3, 4, 5>>)) \cup Ancestors(Chain(<<1, 12, 13, 14>>))) \ {<<>>}
=============================================================================
