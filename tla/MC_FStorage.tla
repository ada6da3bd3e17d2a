---------------------------- MODULE MC_FStorage ----------------------------
(* Model values for FStorage: the operations are interchangeable.         *)
EXTENDS FStorage, TLC

OpSymmetry == Permutations(Ops)

=============================================================================
