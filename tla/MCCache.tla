------------------------------- MODULE MCCache -------------------------------
(* TLC instances of Cache. *)
EXTENDS Cache, TLC

CONSTANTS a, b, d

None == {}
OnlyA == {a}
OnlyB == {b}
Two == {a, b}
Three == {a, b, d}

==============================================================================
