--------------------------- MODULE MCParamsQueue ---------------------------
(***************************************************************************)
(* An instance of ParamsQueue for TLC: a ring of three slots that the      *)
(* producer passes almost three times.  Consumers share nothing they write,*)
(* so one is enough.                                                       *)
(***************************************************************************)
EXTENDS ParamsQueue

CONSTANT simulator
=============================================================================
