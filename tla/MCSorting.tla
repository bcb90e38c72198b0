----------------------------- MODULE MCSorting -----------------------------
(***************************************************************************)
(* Instances of Sorting for TLC.                                           *)
(***************************************************************************)
EXTENDS Sorting

CONSTANTS alice, bob, l1

Transfer(s, n, fee, used) ==
    [sender |-> s, nonce |-> n, fee |-> fee, limit |-> 2, used |-> used,
     deposit |-> FALSE]
Deposit(s) ==
    [sender |-> s, nonce |-> 0, fee |-> 0, limit |-> 2, used |-> 1, deposit |-> TRUE]

a0 == Transfer(alice, 0, 2, 1)
a1 == Transfer(alice, 1, 1, 1)
b0 == Transfer(bob, 0, 3, 2)

AllKinds == {a0, a1, b0, Deposit(bob)}
Transfers == {a0}
L1Attributes == <<Deposit(l1)>>

Next(h, txs) == Append(h, [time |-> 0, txs |-> txs])

\* A database of one empty block, and blocks of two chains on it.
Root == Next(<<>>, <<>>)
Chains ==
    LET one == Next(Root, <<a0>>)
        other == Next(Root, <<b0>>)
    IN  {one, Next(one, <<a1>>), other}
=============================================================================
