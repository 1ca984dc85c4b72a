---------------------------- MODULE MCLeaseThrottle ----------------------------
(* TLC instances of LeaseThrottle: callers a1 and a2 share worker w, the others
   have one each. *)
EXTENDS LeaseThrottle, TLC

CONSTANTS a1, a2, b, w, x

None == {}
OnlyX == {x}

\* Two callers in one worker, one in another.
TwoInOne == {a1, a2, b}

W2 == {w, x}

OwnersOfTwoInOne == [c \in TwoInOne |-> IF c = b THEN x ELSE w]

T4 == 1..4
================================================================================
