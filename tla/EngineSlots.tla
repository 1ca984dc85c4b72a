------------------------------ MODULE EngineSlots ------------------------------
(***************************************************************************)
(* The engine as a client of the limiter: how a call of attemptLoop asks   *)
(* for a slot (acquireWithin), what interrupts the wait, and where the     *)
(* slot is given back.  Streams (runStreaming) only charge the rate part.  *)
(*                                                                         *)
(* JavaScript runs one task at a time and drains the microtask queue after *)
(* it, so a timer never fires between a promise's settlement and the       *)
(* continuations that wait for it.  An abort can: code that itself runs as *)
(* a microtask raises it (a combinator that cancels its losers, pipe.ts).  *)
(* Such an abort finds acquireWithin still listening although the race is  *)
(* decided, and has a slot released once too often; gaps counts them.      *)
(* Which of several ready microtasks runs next is left open, but for the   *)
(* order EndAttempt names.                                                 *)
(***************************************************************************)
EXTENDS Throttle

CONSTANTS
  Signalled,        \* the calls given an AbortSignal
  Budgeted,         \* the calls with timeout.total
  Abandoning,       \* the calls whose event consumer may stop at a `throttled` event
  MaxAttempts,      \* cfg.retry.attempts
  MaxGaps           \* bound: how many aborts may land after a race is decided

ASSUME EngineSlotsAssumption ==
  /\ Signalled \subseteq Calls
  /\ Budgeted \subseteq Calls
  /\ Abandoning \subseteq Calls
  /\ MaxAttempts \in Nat \ {0}
  /\ MaxGaps \in Nat

VARIABLES
  pc,          \* where each call stands
  attempt,     \* the loop counter of attemptLoop
  refreshed,   \* attemptLoop's `refreshed`: auth was refreshed once already
  aborted,     \* the caller's signal is aborted
  handBacks,   \* handBack continuations registered on the call's acquire promise
  gaps         \* history: the aborts that landed after the race was decided

engineVars == <<pc, attempt, refreshed, aborted, handBacks, gaps>>
vars == <<throttleVars, engineVars>>

(***************************************************************************)
(* "idle"    no call                                                       *)
(* "top"     at the top of the attempt loop                                *)
(* "racing"  acquireWithin awaits Promise.race([pending, interrupt])       *)
(* "won"     the race took the grant; `finally` has yet to drop the        *)
(*           listener and the timer                                        *)
(* "lost"    the race was rejected; the same `finally` is due              *)
(* "granted" acquireWithin returned; grantEvents may yield                 *)
(* "trying"  inside the try whose finally releases                         *)
(***************************************************************************)
PCs == {"idle", "top", "racing", "won", "lost", "granted", "trying"}

Guarded == Signalled \cup Budgeted

EngineTypeOK ==
  /\ pc \in [Calls -> PCs]
  /\ attempt \in [Calls -> 0..MaxAttempts]
  /\ refreshed \in [Calls -> BOOLEAN]
  /\ aborted \in [Calls -> BOOLEAN]
  /\ handBacks \in [Calls -> 0..2]
  /\ gaps \in 0..MaxGaps

TypeOK == ThrottleTypeOK /\ EngineTypeOK

Init ==
  /\ ThrottleInit
  /\ pc = [c \in Calls |-> "idle"]
  /\ attempt = [c \in Calls |-> 0]
  /\ refreshed = [c \in Calls |-> FALSE]
  /\ aborted = [c \in Calls |-> FALSE]
  /\ handBacks = [c \in Calls |-> 0]
  /\ gaps = 0

\* The acquire promise of c has settled.
Settled(c) == acq[c] \in {"resolved", "none"}

\* No microtask is due: a task (timer, I/O, user code) may start.
Quiescent ==
  \A c \in Calls :
    /\ pc[c] \notin {"top", "won", "lost"}
    /\ acq[c] # "slotted"
    /\ pc[c] = "racing" => ~Settled(c)
    /\ handBacks[c] > 0 => ~Settled(c)

Goto(c, label) == pc' = [pc EXCEPT ![c] = label]

\* The call is over; its locals go with it. Its acquire promise may outlive it.
EndCall(c) ==
  /\ Goto(c, "idle")
  /\ attempt' = [attempt EXCEPT ![c] = 0]
  /\ refreshed' = [refreshed EXCEPT ![c] = FALSE]
  /\ aborted' = [aborted EXCEPT ![c] = FALSE]

-------------------------------------------------------------------------------
\* A call starts, its signal possibly aborted beforehand.
Begin(c) ==
  /\ pc[c] = "idle" /\ acq[c] = "none" /\ handBacks[c] = 0
  /\ Goto(c, "top")
  /\ attempt' = [attempt EXCEPT ![c] = 1]
  /\ \E before \in {FALSE} \cup (IF c \in Signalled THEN {TRUE} ELSE {}) :
       aborted' = [aborted EXCEPT ![c] = before]
  /\ UNCHANGED <<throttleVars, refreshed, handBacks, gaps>>

\* acquireWithin's early exits: the signal is aborted, the budget is spent.
Refuse(c) ==
  /\ pc[c] = "top"
  /\ aborted[c] \/ c \in Budgeted
  /\ EndCall(c)
  /\ UNCHANGED <<throttleVars, handBacks, gaps>>

\* acquireWithin calls throttle.acquire and waits for it.
Ask(c) ==
  /\ pc[c] = "top" /\ ~aborted[c]
  /\ Acquire(c) \/ AcquireRateOnly(c)
  /\ Goto(c, "racing")
  /\ UNCHANGED <<attempt, refreshed, aborted, handBacks, gaps>>

\* acquire's own continuations.
AcquireProceeds(c) ==
  /\ Slotted(c) \/ Paced(c)
  /\ UNCHANGED engineVars

\* The grant settles the race; a call with neither budget nor signal has none.
GrantWins(c) ==
  /\ pc[c] = "racing" /\ acq[c] = "resolved"
  /\ Goto(c, IF c \in Guarded THEN "won" ELSE "granted")
  /\ UNCHANGED <<throttleVars, attempt, refreshed, aborted, handBacks, gaps>>

\* acquireWithin's finally: no interrupt can reach the call's grant from here on.
RaceFinally(c) ==
  /\ \/ /\ pc[c] = "won"
        /\ Goto(c, "granted")
        /\ UNCHANGED <<attempt, refreshed, aborted>>
     \/ pc[c] = "lost" /\ EndCall(c)
  /\ UNCHANGED <<throttleVars, handBacks, gaps>>

\* Mutant: an abandoned grant is not handed back.
NoHandBack(c) == c \in Calls /\ UNCHANGED handBacks

\* handBack(): release will follow the grant, unless the acquire is rateOnly.
ArmHandBack(c) ==
  handBacks' = [handBacks EXCEPT ![c] = IF c \in RateOnly THEN @ ELSE @ + 1]

\* Mutant: the finally does not clear the timer.
BudgetTimerStays(c) ==
  /\ c \in Budgeted
  /\ Quiescent
  /\ pc[c] \in {"racing", "trying"} /\ handBacks[c] < 2
  /\ ArmHandBack(c)
  /\ IF pc[c] = "racing" THEN Goto(c, "lost") ELSE UNCHANGED pc
  /\ UNCHANGED <<throttleVars, attempt, refreshed, aborted, gaps>>

\* The budget's timer fires during the wait.
BudgetTimer(c) ==
  /\ c \in Budgeted
  /\ Quiescent
  /\ pc[c] = "racing"
  /\ ArmHandBack(c)
  /\ Goto(c, "lost")
  /\ UNCHANGED <<throttleVars, attempt, refreshed, aborted, gaps>>

\* Mutant: the finally does not remove the abort listener.
AbortListenerStays(c) ==
  /\ c \in Signalled
  /\ Quiescent
  /\ pc[c] \notin {"idle", "top"} /\ ~aborted[c]
  /\ aborted' = [aborted EXCEPT ![c] = TRUE]
  /\ ArmHandBack(c)
  /\ IF pc[c] = "racing" THEN Goto(c, "lost") ELSE UNCHANGED pc
  /\ UNCHANGED <<throttleVars, attempt, refreshed, gaps>>

\* acquireWithin still listens although the race of c is decided.
InGap(c) == pc[c] \in {"won", "lost"} \/ (pc[c] = "racing" /\ acq[c] = "resolved")

\* The caller aborts, from a task or from a microtask. While acquireWithin listens
\* that hands the grant back, and rejects the race unless it is decided; if it is,
\* only its finally is left to run.
Abort(c) ==
  /\ c \in Signalled
  /\ pc[c] # "idle" /\ ~aborted[c]
  /\ aborted' = [aborted EXCEPT ![c] = TRUE]
  /\ IF pc[c] = "racing" \/ InGap(c) THEN ArmHandBack(c) ELSE UNCHANGED handBacks
  /\ pc' = IF pc[c] = "racing"
             THEN [pc EXCEPT ![c] = IF InGap(c) THEN "won" ELSE "lost"]
             ELSE pc
  /\ IF InGap(c) /\ c \notin RateOnly
       THEN gaps < MaxGaps /\ gaps' = gaps + 1
       ELSE UNCHANGED gaps
  /\ UNCHANGED <<throttleVars, attempt, refreshed>>

\* The continuation handBack registered: the grant came, it is released.
HandBack(c) ==
  /\ handBacks[c] > 0 /\ Settled(c)
  /\ handBacks' = [handBacks EXCEPT ![c] = @ - 1]
  /\ Release(WithoutGrant(c))
  /\ UNCHANGED <<pc, attempt, refreshed, aborted, gaps>>

\* A rate-only grant nobody waits for any more just settles.
Forget(c) ==
  /\ c \in RateOnly /\ pc[c] = "idle" /\ acq[c] = "resolved"
  /\ acq' = WithoutGrant(c)
  /\ UNCHANGED <<inFlight, waiters, waited, engineVars>>

\* grantEvents are consumed, the try block is entered.
EnterTry(c) ==
  /\ pc[c] = "granted"
  /\ Goto(c, "trying")
  /\ UNCHANGED <<throttleVars, attempt, refreshed, aborted, handBacks, gaps>>

\* The consumer stops at the `throttled` event: the generator returns at a yield
\* that stands before the try, so the finally that releases never runs.
Abandon(c) ==
  /\ c \in Abandoning /\ pc[c] = "granted" /\ waited[c]
  /\ EndCall(c)
  /\ UNCHANGED <<throttleVars, handBacks, gaps>>

\* How an attempt ends: a retry after its backoff (an abort would have ended the
\* sleep), one auth refresh that redoes the attempt, or the end of the call.
Outcome(c) ==
  \/ /\ attempt[c] < MaxAttempts /\ ~aborted[c]
     /\ attempt' = [attempt EXCEPT ![c] = @ + 1]
     /\ Goto(c, "top")
     /\ UNCHANGED <<refreshed, aborted>>
  \/ /\ ~refreshed[c] /\ c \notin RateOnly
     /\ refreshed' = [refreshed EXCEPT ![c] = TRUE]
     /\ Goto(c, "top")
     /\ UNCHANGED <<attempt, aborted>>
  \/ EndCall(c)

\* Mutant: an attempt that was aborted ends without its release.
EndAttemptAbortedKeepsSlot(c) ==
  /\ pc[c] = "trying"
  /\ Outcome(c)
  /\ IF c \in RateOnly \/ aborted[c]
       THEN acq' = WithoutGrant(c) /\ UNCHANGED <<inFlight, waiters, waited>>
       ELSE Release(WithoutGrant(c))
  /\ UNCHANGED <<handBacks, gaps>>

\* The try block is left and its finally releases the slot; a stream holds none. A
\* hand-back an abort armed in the gap was queued before the try was entered, and
\* has run by now.
EndAttempt(c) ==
  /\ pc[c] = "trying" /\ handBacks[c] = 0
  /\ Outcome(c)
  /\ IF c \in RateOnly
       THEN acq' = WithoutGrant(c) /\ UNCHANGED <<inFlight, waiters, waited>>
       ELSE Release(WithoutGrant(c))
  /\ UNCHANGED <<handBacks, gaps>>

-------------------------------------------------------------------------------
Next ==
  \E c \in Calls :
    \/ Begin(c) \/ Refuse(c) \/ Ask(c)
    \/ AcquireProceeds(c) \/ GrantWins(c) \/ RaceFinally(c)
    \/ BudgetTimer(c) \/ Abort(c) \/ HandBack(c) \/ Forget(c)
    \/ EnterTry(c) \/ Abandon(c) \/ EndAttempt(c)

Spec == Init /\ [][Next]_vars

(***************************************************************************)
(* Microtasks run, sleeps end, consumers pull the next event and attempts  *)
(* end (the transport answers or its timeout does).  Nothing obliges a     *)
(* caller to call, to abort, or a budget to be short.                      *)
(***************************************************************************)
Proceeds(c) ==
  \/ Refuse(c) \/ Ask(c) \/ AcquireProceeds(c) \/ GrantWins(c)
  \/ RaceFinally(c) \/ HandBack(c) \/ Forget(c) \/ EnterTry(c) \/ EndAttempt(c)

FairSpec == Spec /\ \A c \in Calls : WF_vars(Proceeds(c))

-------------------------------------------------------------------------------
\* The calls that were granted a slot and go to the network with it.
Admitted == {c \in Calls \ RateOnly : pc[c] \in {"won", "granted", "trying"}}

(***************************************************************************)
(* The releases that will come of a call: one per hand-back, and that of   *)
(* the attempt it goes on to.  Overdue are the calls that will give back   *)
(* more than they hold.                                                    *)
(***************************************************************************)
ReleasesToCome(c) == handBacks[c] + (IF pc[c] \in {"won", "granted", "trying"} THEN 1 ELSE 0)
Overdue ==
  {c \in Calls \ RateOnly : ReleasesToCome(c) > (IF acq[c] = "none" THEN 0 ELSE 1)}

(***************************************************************************)
(* A grant is given back once, whatever is retried, refreshed, budgeted or *)
(* aborted: either its call goes on with it and the loop's finally         *)
(* releases it, or a hand-back is armed.  Only an abort in the gap can arm *)
(* a release too many, and each arms one.                                  *)
(***************************************************************************)
OneRelease == Cardinality(Overdue) <= gaps

(***************************************************************************)
(* At most `concurrency` calls are past the gate, whatever was aborted or  *)
(* timed out while it waited: acquireWithin hands an abandoned grant back  *)
(* "to keep the limiter's accounting intact".  Each abort in the gap lets  *)
(* in at most one call more.                                               *)
(***************************************************************************)
Admission == Cardinality(Admitted) <= Limit + gaps

(***************************************************************************)
(* What the docs say of `concurrency`, a cap on the calls in flight,       *)
(* whoever aborts and whenever.  The code does not keep it: after an abort *)
(* in the gap two calls nobody aborted use the one slot.                   *)
(***************************************************************************)
CapsCallsInFlight == Cardinality({c \in Admitted : ~aborted[c]}) <= Limit

(***************************************************************************)
(* Every slot the limiter counts belongs to a call that still runs or to a *)
(* hand-back on its way (acquire "MUST be paired with release"), unless a  *)
(* consumer stopped its call at the `throttled` event, which loses a slot. *)
(***************************************************************************)
SlotHasOwner ==
  \A c \in Owners \ Abandoning :
    \/ pc[c] \in {"racing", "won", "granted", "trying"}
    \/ handBacks[c] > 0

(***************************************************************************)
(* Where a call stands, where its acquire stands and what is due back      *)
(* agree.                                                                  *)
(***************************************************************************)
GoesOn(c) ==
  \/ acq[c] = "resolved" /\ handBacks[c] <= 1
  \/ acq[c] = "none" /\ handBacks[c] = 0

StandsDown(c) ==
  \/ acq[c] = "none" /\ handBacks[c] <= 1
  \/ acq[c] # "none" /\ handBacks[c] \in {1, 2}
  \/ acq[c] = "resolved" /\ handBacks[c] = 0 /\ c \in Abandoning

CallConsistent(c) ==
  /\ c \in RateOnly => handBacks[c] = 0 /\ acq[c] \notin {"queued", "slotted"}
  /\ pc[c] = "top" => acq[c] = "none" /\ handBacks[c] = 0
  /\ pc[c] = "racing" => acq[c] # "none" /\ handBacks[c] = 0
  /\ pc[c] \in {"won", "granted", "trying"} =>
       IF c \in RateOnly THEN acq[c] = "resolved" ELSE GoesOn(c)
  /\ pc[c] \in {"idle", "lost"} /\ c \notin RateOnly => StandsDown(c)
  /\ pc[c] = "won" /\ ~aborted[c] => acq[c] = "resolved" /\ handBacks[c] = 0
  /\ pc[c] = "lost" /\ ~aborted[c] /\ c \notin RateOnly =>
       handBacks[c] = (IF acq[c] = "none" THEN 0 ELSE 1)

(***************************************************************************)
(* How far the limiter's count may be off: a surplus release takes one off *)
(* it, and every one that was or will be made stands behind a gap.  While  *)
(* there was no gap the count is exact and no call is overdue.             *)
(***************************************************************************)
CountedUpToGaps ==
  /\ inFlight <= Cardinality(Owners)
  /\ Cardinality(Owners) + Cardinality(Overdue) <= inFlight + gaps

EngineInv ==
  /\ TypeOK /\ QueueExact /\ NoIdleSlot
  /\ CountedUpToGaps
  /\ \A c \in Calls : CallConsistent(c)

\* A call was abandoned at its `throttled` event and took its slot with it.
SlotLost ==
  \E c \in Abandoning \ RateOnly :
    pc[c] = "idle" /\ acq[c] = "resolved" /\ handBacks[c] = 0

\* Whoever waits for a slot stops waiting: it is granted, or its wait is cut short;
\* only a slot that was lost can keep it waiting.
WaitEnds == \A c \in Calls : pc[c] = "racing" ~> pc[c] # "racing" \/ SlotLost

\* Under the engine the limiter is the abstract semaphore, in order of arrival, with
\* one place of slack for every abort in the gap.
SlotSem == INSTANCE SlackSemaphore WITH inside <- Owners, line <- waiters, slack <- gaps
SlotsFollowSemaphore == SlotSem!Spec

\* Seen from the callers the engine implements it too: a caller whose wait was cut
\* short keeps its turn until the grant is handed back.
Inside == Owners \cup Admitted
CallSem == INSTANCE SlackSemaphore WITH inside <- Inside, line <- waiters, slack <- gaps
CallsFollowSemaphore == CallSem!Spec

\* Until an abort lands in the gap, what the engine does with the limiter is what the
\* limiter's doc comment asks of its callers: every release is that of an acquire
\* which has resolved and was not released before.
KeepsContract == ThrottleInit /\ [][gaps' = 0 => ThrottleNext]_throttleVars
===============================================================================
