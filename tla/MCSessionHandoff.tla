--------------------------- MODULE MCSessionHandoff ---------------------------
(***************************************************************************)
(* SessionHandoff with interchangeable sessions.                           *)
(***************************************************************************)
EXTENDS SessionHandoff, TLC

Symmetry == Permutations(Session)
=============================================================================
