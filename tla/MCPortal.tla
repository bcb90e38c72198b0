------------------------------ MODULE MCPortal ------------------------------
(***************************************************************************)
(* An instance of Portal for TLC.                                          *)
(***************************************************************************)
EXTENDS Portal

CONSTANTS g1, g2

\* Two gateways in turn, one of them alone, and an emptied file.
Files == {<<g1, g2>>, <<g2>>, <<>>}
=============================================================================
