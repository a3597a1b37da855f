-------------------------- MODULE MCChangeControl ---------------------------
(* Model values for checking ChangeControl.  Requests do not interact and  *)
(* threads are interchangeable, so both are symmetry sets; roles too.      *)
EXTENDS ChangeControl, TLC

Symmetry == Permutations(Requests) \union Permutations(Workers)
              \union Permutations(Roles)
=============================================================================
