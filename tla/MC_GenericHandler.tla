------------------------- MODULE MC_GenericHandler -------------------------
(***************************************************************************)
(* Model-checking instance of GenericHandler.                              *)
(***************************************************************************)
EXTENDS GenericHandler
=============================================================================
