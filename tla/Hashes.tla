------------------------------- MODULE Hashes -------------------------------
(***************************************************************************)
(* Block hashes.  A hash commits to the content of a block and of its      *)
(* ancestors: here it IS the sequence of their contents, genesis being     *)
(* <<>>, so that the number of a block is the length of its hash, and the  *)
(* canonical chain of a head is the prefixes of its hash.  The content of  *)
(* a block is its timestamp and its transactions; how they were cut into   *)
(* frags is not part of it.                                                *)
(***************************************************************************)
EXTENDS Integers, Sequences

CONSTANT Tx         \* transactions

Content == [time : Nat, txs : Seq(Tx)]
Hash    == Seq(Content)

Number(h) == Len(h)
Parent(h) == SubSeq(h, 1, Len(h) - 1)
Time(h)   == IF h = <<>> THEN 0 ELSE h[Len(h)].time

Ancestors(h) == {SubSeq(h, 1, n) : n \in 0 .. Len(h)}

TxSet(txs) == {txs[i] : i \in DOMAIN txs}

\* The transactions that the state after block h has executed.
History(h) == UNION {TxSet(h[i].txs) : i \in DOMAIN h}
=============================================================================
