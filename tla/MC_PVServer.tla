---------------------------- MODULE MC_PVServer ----------------------------
(***************************************************************************)
(* Model-checking instances of PVServer.                                   *)
(***************************************************************************)
EXTENDS PVServer, TLC

\* Handlers are interchangeable model values.
HandlerSymmetry == Permutations(Handlers)
=============================================================================
