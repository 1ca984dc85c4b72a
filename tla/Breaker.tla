------------------------------- MODULE Breaker -------------------------------
(***************************************************************************)
(* What a circuit breaker promises: Threshold consecutive failures open    *)
(* it; for Cooldown ticks every call is refused; then a trial decides: a   *)
(* success closes the breaker, a failure opens it for another Cooldown.    *)
(* A caller is told how its call ended, and of the failure that opened the *)
(* breaker.  Calls whose end is not counted (they were given up, or the    *)
(* breaker's memory failed) change nothing.                                *)
(***************************************************************************)
EXTENDS Naturals

CONSTANTS Calls, Threshold, Cooldown

VARIABLES streak,   \* consecutive failures, as far as they matter
          open,     \* not closed: open or half-open
          rest,     \* ticks since it opened, as far as they matter
          told      \* how each call ended: "none" while it runs

vars == <<streak, open, rest, told>>

Lets == ~open \/ rest = Cooldown

Init == streak = 0 /\ open = FALSE /\ rest = 0 /\ told = [c \in Calls |-> "none"]

Tell(c, how) == told[c] = "none" /\ told' = [told EXCEPT ![c] = how]

Start(c) == told' = [told EXCEPT ![c] = "none"] /\ UNCHANGED <<streak, open, rest>>

Refuse(c) == ~Lets /\ Tell(c, "refused") /\ UNCHANGED <<streak, open, rest>>

Succeed(c) == Lets /\ Tell(c, "ok") /\ streak' = 0 /\ open' = FALSE /\ rest' = 0

Fail(c) ==
  /\ Lets
  /\ streak' = IF streak < Threshold THEN streak + 1 ELSE Threshold
  /\ open' = (streak' = Threshold)
  /\ rest' = 0
  /\ Tell(c, IF open' /\ ~open THEN "opened" ELSE "failed")

GoUncounted(c) == Tell(c, "uncounted") /\ UNCHANGED <<streak, open, rest>>

Rest ==
  /\ open /\ rest < Cooldown
  /\ rest' = rest + 1
  /\ UNCHANGED <<streak, open, told>>

Next ==
  \/ \E c \in Calls : Start(c) \/ Refuse(c) \/ Succeed(c) \/ Fail(c) \/ GoUncounted(c)
  \/ Rest

Spec == Init /\ [][Next]_vars
==============================================================================
