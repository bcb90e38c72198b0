--------------------------- MODULE MCPreconfState ---------------------------
(***************************************************************************)
(* Instances of PreconfState for TLC.                                      *)
(***************************************************************************)
EXTENDS PreconfState

\* The events of block b, cut into n frags.
BlockEvents(b, n) ==
    {[type |-> "env", block |-> b], [type |-> "seal", block |-> b]}
    \cup {[type |-> "frag", block |-> b, seq |-> i, last |-> i = n - 1] : i \in 0 .. n - 1}

L2Block(b) == [type |-> "l2", block |-> b]

\* A gap in the blocks, wide enough for pruning, that a safe block bridges.
GappyStream ==
    BlockEvents(3, 2) \cup BlockEvents(4, 1) \cup BlockEvents(8, 1) \cup {L2Block(8)}

AnyTime(m, rcvd, snt) == TRUE
=============================================================================
