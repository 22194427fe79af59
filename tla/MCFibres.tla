----------------------------- MODULE MCFibres -----------------------------
(* Small instances of Fibres for TLC. *)
EXTENDS Fibres, TLC

(* The fibres created by the program are interchangeable; Main is not. *)
FibreSymmetry == Permutations(Fibres \ {Main})
=============================================================================
