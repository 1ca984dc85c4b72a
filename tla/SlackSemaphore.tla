----------------------------- MODULE SlackSemaphore -----------------------------
(***************************************************************************)
(* What a concurrency limit still promises when releases go astray: each   *)
(* stray release widens the limit by one place for good (slack).  The line *)
(* stays first come first served, nobody joins it before Limit callers are *)
(* inside, and whoever leaves admits its head unless the slack was used.   *)
(* While slack is 0 this is Semaphore.                                     *)
(***************************************************************************)
EXTENDS Naturals, Sequences, FiniteSets

CONSTANTS Calls,    \* the callers
          Limit     \* how many may be inside at once, slack apart

VARIABLES inside,   \* the callers inside
          line,     \* the callers waiting, in the order they asked
          slack     \* how far the limit is out

vars == <<inside, line, slack>>

Waits(c) == \E i \in 1..Len(line) : line[i] = c

Init == inside = {} /\ line = <<>> /\ slack = 0

\* A caller asks and enters at once.
Enter(c) ==
  /\ c \notin inside /\ ~Waits(c)
  /\ Cardinality(inside) < Limit + slack
  /\ inside' = inside \cup {c}
  /\ UNCHANGED <<line, slack>>

\* A caller asks and must wait.
Wait(c) ==
  /\ c \notin inside /\ ~Waits(c)
  /\ Cardinality(inside) >= Limit
  /\ line' = Append(line, c)
  /\ UNCHANGED <<inside, slack>>

\* A caller leaves; the one that has waited longest takes its place.
Leave(c) ==
  /\ c \in inside
  /\ IF line = <<>>
       THEN inside' = inside \ {c} /\ UNCHANGED line
       ELSE inside' = (inside \ {c}) \cup {Head(line)} /\ line' = Tail(line)
  /\ UNCHANGED slack

\* A caller leaves whose place a stray release has given away already.
Quit(c) ==
  /\ c \in inside /\ Cardinality(inside) > Limit
  /\ inside' = inside \ {c}
  /\ UNCHANGED <<line, slack>>

\* A stray release: the one that has waited longest enters, and nobody leaves.
Stray ==
  /\ line # <<>> /\ Cardinality(inside) < Limit + slack
  /\ inside' = inside \cup {Head(line)}
  /\ line' = Tail(line)
  /\ UNCHANGED slack

\* One more release will go astray.
Slip == slack' = slack + 1 /\ UNCHANGED <<inside, line>>

Next == Stray \/ Slip \/ \E c \in Calls : Enter(c) \/ Wait(c) \/ Leave(c) \/ Quit(c)

Spec == Init /\ [][Next]_vars
===============================================================================
