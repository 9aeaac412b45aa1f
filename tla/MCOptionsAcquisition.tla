------------------------ MODULE MCOptionsAcquisition ------------------------
(* The options acquisition on a small instance: two or three runs, a ceiling   *)
(* of a few frames, and an allowance of one control frame a connection.        *)
EXTENDS OptionsAcquisition, TLC

(* Runs only differ in the order in which they are started. *)
Symmetry == Permutations(Runs)
===============================================================================
