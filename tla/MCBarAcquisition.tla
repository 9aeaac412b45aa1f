-------------------------- MODULE MCBarAcquisition --------------------------
(* BarAcquisition for TLC: the constants are given in the configuration.      *)
EXTENDS BarAcquisition
=============================================================================
