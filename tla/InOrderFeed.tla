---------------------------- MODULE InOrderFeed ----------------------------
(***************************************************************************)
(* What the preconfirmation buffer promises to the engine: the events of   *)
(* the gateway, each in its turn, and all of them.                         *)
(***************************************************************************)
EXTENDS Naturals, Sequences

CONSTANT Order  \* the events, in the order in which the gateway emits them

VARIABLE fed    \* the set of the events handed to the engine

Init == fed = {}

Feed ==
    \E i \in DOMAIN Order :
        /\ fed = {Order[j] : j \in 1 .. i - 1}
        /\ fed' = fed \cup {Order[i]}

Spec == Init /\ [][Feed]_fed /\ WF_fed(Feed)
=============================================================================
