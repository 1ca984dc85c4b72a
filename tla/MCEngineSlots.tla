----------------------------- MODULE MCEngineSlots -----------------------------
(* TLC instance of EngineSlots. *)
EXTENDS EngineSlots, TLC

CONSTANTS a, b, s

OnlyA == {a}
OnlyB == {b}
OnlyS == {s}
AandB == {a, b}
AandS == {a, s}
None == {}

\* Two buffered calls and a stream, for one slot.
TwoAndStream == {a, b, s}
===============================================================================
