------------------------------- MODULE Throttle -------------------------------
(***************************************************************************)
(* The in-process limiter of one stitch: createThrottle with a concurrency *)
(* limit, for one key (the states of two keys never meet).                 *)
(*                                                                         *)
(* acquire is an async function: its synchronous prefix (stateFor,         *)
(* takeSlot) is one step, and each continuation after an await another.    *)
(* The rate part is abstract here: an acquire that holds its slot may or   *)
(* may not have to sleep for its turn (HostPool keeps the times).  A       *)
(* dropped KeyState equals a fresh one as far as inFlight and waiters go,  *)
(* and nobody keeps a reference to it while a limit is set, so dropping    *)
(* it has no step here.                                                    *)
(***************************************************************************)
EXTENDS Naturals, Sequences, FiniteSets

CONSTANTS Calls,      \* callers of acquire; each has one acquire at a time
          RateOnly,   \* the ones that pass { rateOnly: true }: streams
          Limit       \* opts.concurrency

ASSUME ThrottleAssumption ==
  /\ IsFiniteSet(Calls)
  /\ RateOnly \subseteq Calls
  /\ Limit \in Nat \ {0}

VARIABLES
  inFlight,   \* KeyState.inFlight
  waiters,    \* KeyState.waiters: whose resolver is queued, oldest first
  acq,        \* where each caller's acquire() stands
  waited      \* whether its last acquire reports waited > 0

throttleVars == <<inFlight, waiters, acq, waited>>

(***************************************************************************)
(* "none"     no acquire outstanding                                       *)
(* "queued"   takeSlot pushed a resolver; the promise is pending           *)
(* "slotted"  takeSlot resolved; acquire's continuation has yet to run     *)
(* "pacing"   asleep until the rate spacing allows the grant               *)
(* "resolved" acquire resolved; the slot is the caller's until a release   *)
(***************************************************************************)
AcqStates == {"none", "queued", "slotted", "pacing", "resolved"}

\* The callers a slot is counted for.
Owners == {c \in Calls \ RateOnly : acq[c] \in {"slotted", "pacing", "resolved"}}

ThrottleTypeOK ==
  /\ inFlight \in 0..Limit
  /\ waiters \in Seq(Calls \ RateOnly)
  /\ acq \in [Calls -> AcqStates]
  /\ waited \in [Calls -> BOOLEAN]

ThrottleInit ==
  /\ inFlight = 0
  /\ waiters = <<>>
  /\ acq = [c \in Calls |-> "none"]
  /\ waited = [c \in Calls |-> FALSE]

-------------------------------------------------------------------------------
\* The rate part's two outcomes: the grant is due now, or the acquire sleeps.
Pace(c) ==
  \/ acq' = [acq EXCEPT ![c] = "resolved"] /\ UNCHANGED waited
  \/ acq' = [acq EXCEPT ![c] = "pacing"] /\ waited' = [waited EXCEPT ![c] = TRUE]

\* acquire(key) up to its first await: stateFor and takeSlot.
Acquire(c) ==
  /\ c \notin RateOnly
  /\ acq[c] = "none"
  /\ IF inFlight < Limit
       THEN /\ inFlight' = inFlight + 1
            /\ acq' = [acq EXCEPT ![c] = "slotted"]
            /\ waited' = [waited EXCEPT ![c] = FALSE]
            /\ UNCHANGED waiters
       ELSE /\ waiters' = Append(waiters, c)
            /\ acq' = [acq EXCEPT ![c] = "queued"]
            /\ waited' = [waited EXCEPT ![c] = TRUE]
            /\ UNCHANGED inFlight

\* acquire(key, { rateOnly: true }): no slot, only the rate part.
AcquireRateOnly(c) ==
  /\ c \in RateOnly
  /\ acq[c] = "none"
  /\ \/ acq' = [acq EXCEPT ![c] = "resolved"] /\ waited' = [waited EXCEPT ![c] = FALSE]
     \/ acq' = [acq EXCEPT ![c] = "pacing"] /\ waited' = [waited EXCEPT ![c] = TRUE]
  /\ UNCHANGED <<inFlight, waiters>>

\* The continuation after `await takeSlot(s)`.
Slotted(c) ==
  /\ acq[c] = "slotted"
  /\ Pace(c)
  /\ UNCHANGED <<inFlight, waiters>>

\* The rate sleep ends: acquire resolves.
Paced(c) ==
  /\ acq[c] = "pacing"
  /\ acq' = [acq EXCEPT ![c] = "resolved"]
  /\ UNCHANGED <<inFlight, waiters, waited>>

\* Mutant: the slot is handed over and the count drops all the same.
ReleaseCountsDownToo(acq0) ==
  /\ inFlight' = IF inFlight > 0 THEN inFlight - 1 ELSE 0
  /\ waiters' = IF waiters = <<>> THEN <<>> ELSE Tail(waiters)
  /\ acq' = IF waiters = <<>> THEN acq0 ELSE [acq0 EXCEPT ![Head(waiters)] = "slotted"]
  /\ UNCHANGED waited

\* release(key), called with the acquires standing as in acq0: the slot goes to
\* the first waiter, else the count drops, never below zero.
Release(acq0) ==
  /\ IF waiters = <<>>
       THEN /\ inFlight' = IF inFlight > 0 THEN inFlight - 1 ELSE 0
            /\ acq' = acq0
            /\ UNCHANGED waiters
       ELSE /\ waiters' = Tail(waiters)
            /\ acq' = [acq0 EXCEPT ![Head(waiters)] = "slotted"]
            /\ UNCHANGED inFlight
  /\ UNCHANGED waited

\* acq once caller c has given its grant up.
WithoutGrant(c) == [acq EXCEPT ![c] = "none"]

-------------------------------------------------------------------------------
(***************************************************************************)
(* The limiter alone, under the contract its doc comment puts on callers:  *)
(* acquire "MUST be paired with release".                                  *)
(***************************************************************************)
PairedRelease(c) ==
  /\ acq[c] = "resolved"
  /\ IF c \in RateOnly
       THEN acq' = WithoutGrant(c) /\ UNCHANGED <<inFlight, waiters, waited>>
       ELSE Release(WithoutGrant(c))

ThrottleNext ==
  \E c \in Calls :
    \/ Acquire(c)
    \/ AcquireRateOnly(c)
    \/ Slotted(c)
    \/ Paced(c)
    \/ PairedRelease(c)

ThrottleSpec == ThrottleInit /\ [][ThrottleNext]_throttleVars

-------------------------------------------------------------------------------
(***************************************************************************)
(* The slot accounting: inFlight counts exactly the acquires a slot was    *)
(* given to, so that a hand-off and a decrement cannot both happen for one *)
(* release (release, resilience.ts).                                       *)
(***************************************************************************)
SlotsCounted == inFlight = Cardinality(Owners)

(***************************************************************************)
(* The resolver queue holds every blocked acquire once and no other, so    *)
(* that a hand-off always wakes somebody who is asleep.                    *)
(***************************************************************************)
QueueExact ==
  /\ \A c \in Calls : acq[c] = "queued" <=> \E i \in 1..Len(waiters) : waiters[i] = c
  /\ \A i, j \in 1..Len(waiters) : waiters[i] = waiters[j] => i = j

\* Nobody is queued while a slot is free: takeSlot queues only at the limit and
\* release hands over before it counts down.
NoIdleSlot == waiters # <<>> => inFlight = Limit

\* The inductive invariant: each part needs the others.
ThrottleInv == ThrottleTypeOK /\ SlotsCounted /\ QueueExact /\ NoIdleSlot

\* The abstract semaphore the limiter implements.
Sem == INSTANCE Semaphore WITH inside <- Owners, line <- waiters

ImplementsSemaphore == Sem!Spec
===============================================================================
