---------------------------- MODULE MCSequencer ----------------------------
(***************************************************************************)
(* Instances of Sequencer for TLC.                                         *)
(***************************************************************************)
EXTENDS Sequencer

Content1 == [time |-> 1, txs |-> <<>>]

\* The chain at the start, and two blocks that may come to extend it.
Root      == <<Content1>>
TwoBlocks == {Root, Append(Root, [time |-> 2, txs |-> <<"t">>]),
              Append(Root, [time |-> 3, txs |-> <<>>]),
              Append(Append(Root, [time |-> 2, txs |-> <<"t">>]), [time |-> 4, txs |-> <<>>])}

OneDeposit == {[time |-> 5, forced |-> <<"d">>]}
=============================================================================
