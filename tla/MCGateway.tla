------------------------------ MODULE MCGateway ------------------------------
(***************************************************************************)
(* Gateway on small instances; the cfg files choose the number of rows.    *)
(***************************************************************************)
EXTENDS Gateway, TLC

Alike == Permutations(Readies)
=============================================================================
