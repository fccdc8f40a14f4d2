--------------------------- MODULE MCCodingAgent ---------------------------
(***************************************************************************)
(* CodingAgent on small instances; the cfg files choose the jobs, files    *)
(* and limits.                                                             *)
(***************************************************************************)
EXTENDS CodingAgent
=============================================================================
