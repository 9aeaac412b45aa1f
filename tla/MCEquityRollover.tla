--------------------------- MODULE MCEquityRollover ---------------------------
(* A small instance of EquityRollover.                                        *)
EXTENDS EquityRollover, TLC

OwnerSymmetry == Permutations(Owners)

\* Reference facts need three requests in one fetch, bars one request in each.
TwoActions == <<"AAA:REFERENCE", "BBB:ADJUSTED_1D">>
OneChunk == [k \in Keys |-> 1]
OneReference == {"AAA:REFERENCE"}
=============================================================================
