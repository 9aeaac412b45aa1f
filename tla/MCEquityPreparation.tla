------------------------ MODULE MCEquityPreparation ------------------------
(* Instances of EquityPreparation for TLC.                                   *)
EXTENDS EquityPreparation, TLC

CONSTANTS b, m1, m2

Established == {b}
AllOrBase == {{b}, {b, m1, m2}}
OneChunk == <<1, 1>>
OneRequest == <<1, 0>>
PreparationSymmetry == Permutations({m1, m2}) \cup Permutations(Owners)
=============================================================================
