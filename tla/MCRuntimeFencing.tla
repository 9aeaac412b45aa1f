--------------------------- MODULE MCRuntimeFencing ---------------------------
(* A small instance of RuntimeFencing.                                        *)
EXTENDS RuntimeFencing, TLC

ContainerSymmetry == Permutations(Containers)
=============================================================================
