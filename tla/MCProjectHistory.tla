-------------------------- MODULE MCProjectHistory --------------------------
(* ProjectHistory with interchangeable tokens.                             *)
EXTENDS ProjectHistory, TLC

Symmetry == Permutations(Token)
=============================================================================
