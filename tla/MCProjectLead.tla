--------------------------- MODULE MCProjectLead ---------------------------
(***************************************************************************)
(* Two projects, two managers, plans of up to two milestones; three        *)
(* inferences let a plan of two succeed, and stop one that is revised.     *)
(***************************************************************************)
EXTENDS ProjectLead

CONSTANTS x1, x2
=============================================================================
