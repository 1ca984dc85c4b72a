------------------------------ MODULE MCHostPool ------------------------------
(* TLC instance of HostPool. *)
EXTENDS HostPool, TLC

CONSTANTS a, b, d, str, u, x, y

\* Three callers with a limit, one without, and a stream.
MCCalls == {a, b, d, str, u}
OnlyS == {str}
OnlyU == {u}
\* The limiters of b and d have no rate, the others grant every second or third tick.
Spacings == [c \in MCCalls |-> IF c \in {b, d} THEN 0 ELSE IF c = str THEN 3 ELSE 2]
MCObjects == {x, y}
===============================================================================
