-------------------------- MODULE PreconfirmedChain --------------------------
(***************************************************************************)
(* What a follower promises to the users of its RPC: a chain that grows by *)
(* a block at a time, and preconfirmations that are kept: the transactions *)
(* of the pending block are only added to, and the next block of the chain *)
(* has those transactions and no others.                                   *)
(***************************************************************************)
EXTENDS Naturals, Sequences

CONSTANT Start      \* the chain at the start, as the sequence of its blocks

VARIABLES chain, preconfirmed

Init == chain = Start /\ preconfirmed = <<>>

Preconfirm ==
    /\ Len(preconfirmed') > Len(preconfirmed)
    /\ SubSeq(preconfirmed', 1, Len(preconfirmed)) = preconfirmed
    /\ UNCHANGED chain

Seal ==
    /\ Len(chain') = Len(chain) + 1
    /\ SubSeq(chain', 1, Len(chain)) = chain
    /\ chain'[Len(chain')].txs = preconfirmed
    /\ preconfirmed' = <<>>

Spec == Init /\ [][Preconfirm \/ Seal]_<<chain, preconfirmed>>
=============================================================================
