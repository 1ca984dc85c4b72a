------------------------------ MODULE Semaphore ------------------------------
(***************************************************************************)
(* What a concurrency limit promises its callers, whatever limiter gives   *)
(* it: at most Limit of them are inside at once, those who must wait enter *)
(* in the order they asked, and none waits while a place is free.          *)
(* Throttle and EngineSlots are shown to implement it.                     *)
(***************************************************************************)
EXTENDS Naturals, Sequences, FiniteSets

CONSTANTS Calls,    \* the callers
          Limit     \* how many may be inside at once

VARIABLES inside,   \* the callers inside
          line      \* the callers waiting, in the order they asked

vars == <<inside, line>>

Waits(c) == \E i \in 1..Len(line) : line[i] = c

Init == inside = {} /\ line = <<>>

\* A caller asks and enters at once: there is a place.
Enter(c) ==
  /\ c \notin inside /\ ~Waits(c)
  /\ Cardinality(inside) < Limit
  /\ inside' = inside \cup {c}
  /\ UNCHANGED line

\* A caller asks and must wait: every place is taken.
Wait(c) ==
  /\ c \notin inside /\ ~Waits(c)
  /\ Cardinality(inside) = Limit
  /\ line' = Append(line, c)
  /\ UNCHANGED inside

\* A caller leaves; the one that has waited longest takes its place.
Leave(c) ==
  /\ c \in inside
  /\ IF line = <<>>
       THEN inside' = inside \ {c} /\ UNCHANGED line
       ELSE inside' = (inside \ {c}) \cup {Head(line)} /\ line' = Tail(line)

Next == \E c \in Calls : Enter(c) \/ Wait(c) \/ Leave(c)

Spec == Init /\ [][Next]_vars
==============================================================================
