------------------------------ MODULE MCAppAccess -----------------------------
(***************************************************************************)
(* AppAccess with two DNS profiles, one of which may be connected before   *)
(* the search and the other be tried by it.                                *)
(***************************************************************************)
EXTENDS AppAccess, TLC

\* The profiles are interchangeable (used where no liveness is checked).
Symmetry == Permutations(Profiles)
===============================================================================
