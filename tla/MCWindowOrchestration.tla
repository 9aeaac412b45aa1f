------------------------ MODULE MCWindowOrchestration ------------------------
(* Small instances of WindowOrchestration.  The catalogs keep the shape of    *)
(* the source's: an equity stage, an alert stage that depends on it in a lane *)
(* of its own, a portal stage, and an Options stage.                          *)
EXTENDS WindowOrchestration, TLC

OwnerSymmetry == Permutations(Owners)
ReceiptSymmetry == Permutations(Owners) \cup Permutations(Contents)

\* Two lanes with a dependency between them, as EQUITY_MATERIALIZE (data lane)
\* and STOCK_ALERTS (alert lane).
ChainPrerequisites == [s \in Stages |-> IF s = "ALERTS" THEN {"EQUITY"} ELSE {}]
ChainLane == [s \in Stages |->
  CASE s = "ALERTS" -> "alert" [] s = "OPTIONS" -> "options" [] OTHER -> "data"]
ChainRank == [s \in Stages |-> CASE s = "EQUITY" -> 1 [] s = "ALERTS" -> 2 [] OTHER -> 3]

\* EQUITY waits for the resident REFERENCE loop.
ReferencePrerequisites == [s \in Stages |-> IF s = "EQUITY" THEN {"REFERENCE"} ELSE {}]

OneWindow == {1}
TwoWindows == {1, 2}
ReleaseTimes == [w \in Windows |-> w - 1]
Deadlines == [w \in Windows |-> w + 1]
ShortOffsets == [l \in {LaneOf[s] : s \in Stages} |-> 1]
=============================================================================
