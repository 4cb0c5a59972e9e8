------------------------- MODULE MC_JmsApplyOffset -------------------------
(***************************************************************************)
(* Model-checking instances of JmsApplyOffset.                             *)
(***************************************************************************)
EXTENDS JmsApplyOffset

\* Calls with and without a timeout.
TimeoutsBoth == {0, 1}
=============================================================================
