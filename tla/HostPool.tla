------------------------------- MODULE HostPool -------------------------------
(***************************************************************************)
(* The limiters of one host with pool 'host': several createThrottle, one  *)
(* KeyState in the process-wide registry.  Throttle has no times and no    *)
(* registry; here they are: a KeyState is created when an acquire asks for *)
(* the host, dropped when a release leaves it idle, and an acquire keeps   *)
(* the object it was given across `await takeSlot`, while a release looks  *)
(* the host up again.  The limiters may differ in their rate; those with a *)
(* concurrency limit have the same one.                                    *)
(*                                                                         *)
(* Times are relative: how long from now something is due, 0 once it is.   *)
(***************************************************************************)
EXTENDS Naturals, Sequences, FiniteSets

CONSTANTS
  Calls,      \* callers of acquire; each has one acquire at a time
  RateOnly,   \* the ones that pass { rateOnly: true }
  Uncapped,   \* the ones whose limiter has no concurrency limit
  Limit,      \* opts.concurrency of the others' limiters
  SpacingOf,  \* per caller, its limiter's time between grants; 0 without a rate
  Objects,    \* the KeyState objects there can be at a time
  NoObject    \* no entry in the registry, no object kept

Capped == Calls \ (RateOnly \cup Uncapped)

ASSUME HostPoolAssumption ==
  /\ IsFiniteSet(Calls)
  /\ RateOnly \subseteq Calls
  /\ Uncapped \subseteq Calls \ RateOnly
  /\ Limit \in Nat \ {0}
  /\ SpacingOf \in [Calls -> Nat]
  /\ NoObject \notin Objects

VARIABLES
  registry,   \* hostStates().get(host)
  content,    \* the fields of each KeyState
  held,       \* the KeyState each acquire was given, while it still needs it
  acq,        \* where each caller's acquire() stands, as in Throttle
  waited,     \* whether its last acquire reports waited > 0
  left,       \* what is left of its rate sleep
  due         \* when the host's next paced grant may be, by all the reservations
              \* made on the registered states: what the pool promises

poolVars == <<registry, content, held, acq, waited, left, due>>

KeyStates == [inFlight : 0..Limit, waiters : Seq(Calls), nextGrantAt : Nat]
Fresh == [inFlight |-> 0, waiters |-> <<>>, nextGrantAt |-> 0]

PoolTypeOK ==
  /\ registry \in Objects \cup {NoObject}
  /\ content \in [Objects -> KeyStates]
  /\ held \in [Calls -> Objects \cup {NoObject}]
  /\ acq \in [Calls -> {"none", "queued", "slotted", "pacing", "resolved"}]
  /\ waited \in [Calls -> BOOLEAN]
  /\ left \in [Calls -> Nat]
  /\ due \in Nat

PoolInit ==
  /\ registry = NoObject
  /\ content = [o \in Objects |-> Fresh]
  /\ held = [c \in Calls |-> NoObject]
  /\ acq = [c \in Calls |-> "none"]
  /\ waited = [c \in Calls |-> FALSE]
  /\ left = [c \in Calls |-> 0]
  /\ due = 0

-------------------------------------------------------------------------------
\* The objects stateFor may return: the host's, or one nobody has any more.
StateFor ==
  IF registry # NoObject THEN {registry}
  ELSE {o \in Objects : \A c \in Calls : held[c] # o}

\* What an acquire finds in it: a new object is fresh.
Found(o) == IF o = registry THEN content[o] ELSE Fresh

Put(o, s) == content' = [content EXCEPT ![o] = s]

\* The rate part, on the object o whose fields are s: the grant is reserved behind
\* the last one and the acquire sleeps until it is due.
Pace(c, o, s) ==
  IF SpacingOf[c] = 0
    THEN /\ acq' = [acq EXCEPT ![c] = "resolved"]
         /\ Put(o, s) /\ UNCHANGED <<left, due>>
    ELSE /\ Put(o, [s EXCEPT !.nextGrantAt = @ + SpacingOf[c]])
         /\ left' = [left EXCEPT ![c] = s.nextGrantAt]
         /\ acq' = [acq EXCEPT ![c] = IF s.nextGrantAt > 0 THEN "pacing" ELSE "resolved"]
         /\ due' = IF o = registry' THEN s.nextGrantAt + SpacingOf[c] ELSE due

Sleeps(c, s) == SpacingOf[c] > 0 /\ s.nextGrantAt > 0

\* acquire(key) of a limiter with a limit, up to its first await.
Acquire(c) ==
  /\ c \in Capped /\ acq[c] = "none"
  /\ \E o \in StateFor :
       LET s == Found(o) IN
       /\ registry' = o
       /\ held' = [held EXCEPT ![c] = o]
       /\ IF s.inFlight < Limit
            THEN /\ Put(o, [s EXCEPT !.inFlight = @ + 1])
                 /\ acq' = [acq EXCEPT ![c] = "slotted"]
                 /\ waited' = [waited EXCEPT ![c] = FALSE]
            ELSE /\ Put(o, [s EXCEPT !.waiters = Append(@, c)])
                 /\ acq' = [acq EXCEPT ![c] = "queued"]
                 /\ waited' = [waited EXCEPT ![c] = TRUE]
  /\ UNCHANGED <<left, due>>

\* The same without a limit: takeSlot resolves at once, but the await is there.
AcquireUncapped(c) ==
  /\ c \in Uncapped /\ acq[c] = "none"
  /\ \E o \in StateFor :
       /\ registry' = o
       /\ held' = [held EXCEPT ![c] = o]
       /\ Put(o, Found(o))
  /\ acq' = [acq EXCEPT ![c] = "slotted"]
  /\ UNCHANGED <<waited, left, due>>

\* acquire(key, { rateOnly: true }): no await before the reservation.
AcquireRateOnly(c) ==
  /\ c \in RateOnly /\ acq[c] = "none"
  /\ \E o \in StateFor :
       /\ registry' = o
       /\ Pace(c, o, Found(o))
       /\ waited' = [waited EXCEPT ![c] = Sleeps(c, Found(o))]
  /\ UNCHANGED held

\* The continuation after `await takeSlot(s)`, on the object it was given.
Slotted(c) ==
  /\ acq[c] = "slotted"
  /\ registry' = registry
  /\ Pace(c, held[c], content[held[c]])
  /\ waited' = [waited EXCEPT ![c] = (c \in Capped /\ @) \/ Sleeps(c, content[held[c]])]
  /\ held' = [held EXCEPT ![c] = NoObject]

\* The rate sleep ends, when it is due or later.
Paced(c) ==
  /\ acq[c] = "pacing" /\ left[c] = 0
  /\ acq' = [acq EXCEPT ![c] = "resolved"]
  /\ UNCHANGED <<registry, content, held, waited, left, due>>

\* Mutant: a state is dropped although a grant on it is still to come.
IdleForgetsRate(s) == s.inFlight = 0 /\ s.waiters = <<>>

\* Mutant: a state is dropped while slots of it are out.
IdleForgetsSlots(s) == s.waiters = <<>> /\ s.nextGrantAt = 0

\* A state that can be dropped: no slot out, nobody queued, no grant to come.
Idle(s) == s.inFlight = 0 /\ s.waiters = <<>> /\ s.nextGrantAt = 0

\* Mutant: release only counts down; no waiter is woken.
ReleaseWithoutHandOff(c) ==
  /\ c \in Capped /\ acq[c] = "resolved" /\ registry # NoObject
  /\ LET s == content[registry] IN
       Put(registry, [s EXCEPT !.inFlight = IF @ > 0 THEN @ - 1 ELSE @])
  /\ acq' = [acq EXCEPT ![c] = "none"]
  /\ UNCHANGED <<registry, held, waited, left, due>>

\* Mutant: the youngest waiter is woken (pop for shift).
ReleaseToYoungest(c) ==
  /\ c \in Capped /\ acq[c] = "resolved" /\ registry # NoObject
  /\ LET s == content[registry]
         n == Len(s.waiters)
     IN  /\ Put(registry, IF n = 0 THEN [s EXCEPT !.inFlight = @ - 1]
                          ELSE [s EXCEPT !.waiters = SubSeq(@, 1, n - 1)])
         /\ acq' = IF n = 0 THEN [acq EXCEPT ![c] = "none"]
                   ELSE [acq EXCEPT ![c] = "none", ![s.waiters[n]] = "slotted"]
  /\ UNCHANGED <<registry, held, waited, left, due>>

\* release(key) of a limiter with a limit: the slot goes to the first waiter, else
\* the count drops, and an idle state leaves the registry.
Release(c) ==
  /\ c \in Capped /\ acq[c] = "resolved"
  /\ IF registry = NoObject
       THEN acq' = [acq EXCEPT ![c] = "none"] /\ UNCHANGED <<registry, content>>
       ELSE LET s  == content[registry]
                s2 == IF s.waiters # <<>> THEN [s EXCEPT !.waiters = Tail(@)]
                      ELSE IF s.inFlight > 0 THEN [s EXCEPT !.inFlight = @ - 1]
                      ELSE s
            IN  /\ Put(registry, s2)
                /\ acq' = IF s.waiters = <<>> THEN [acq EXCEPT ![c] = "none"]
                          ELSE [acq EXCEPT ![c] = "none", ![Head(s.waiters)] = "slotted"]
                /\ registry' = IF Idle(s2) THEN NoObject ELSE registry
  /\ UNCHANGED <<held, waited, left, due>>

\* Without a slot there is nothing to give back: release returns at once, and a
\* stream does not call it.
Done(c) ==
  /\ c \notin Capped /\ acq[c] = "resolved"
  /\ acq' = [acq EXCEPT ![c] = "none"]
  /\ UNCHANGED <<registry, content, held, waited, left, due>>

Sooner(n) == IF n > 0 THEN n - 1 ELSE 0

\* Time passes, once the continuations that are due have run.
Tick ==
  /\ \A c \in Calls : acq[c] # "slotted"
  /\ content' = [o \in Objects |-> [content[o] EXCEPT !.nextGrantAt = Sooner(@)]]
  /\ left' = [c \in Calls |-> Sooner(left[c])]
  /\ due' = Sooner(due)
  /\ <<content', left', due'>> # <<content, left, due>>
  /\ UNCHANGED <<registry, held, acq, waited>>

-------------------------------------------------------------------------------
PoolNext ==
  \/ \E c \in Calls :
       \/ Acquire(c) \/ AcquireUncapped(c) \/ AcquireRateOnly(c)
       \/ Slotted(c) \/ Paced(c) \/ Release(c) \/ Done(c)
  \/ Tick

PoolSpec == PoolInit /\ [][PoolNext]_poolVars

\* Continuations run, time passes however busy the limiter is, and who was granted
\* gives back in the end.
PoolFairSpec ==
  /\ PoolSpec
  /\ SF_poolVars(Tick)
  /\ \A c \in Calls : WF_poolVars(Slotted(c) \/ Paced(c) \/ Release(c))

-------------------------------------------------------------------------------
\* The host's KeyState as the next acquire will find it.
Current == IF registry = NoObject THEN Fresh ELSE content[registry]

(***************************************************************************)
(* An acquire with a limit never paces on, or is queued in, a KeyState     *)
(* that was dropped and replaced meanwhile: dropping "only when nothing is *)
(* in flight, no one is queued" (release) keeps its object in the registry *)
(* until it has given its slot back.                                       *)
(***************************************************************************)
HeldIsRegistered ==
  \A c \in Capped :
    /\ acq[c] # "none" => registry # NoObject
    /\ acq[c] \in {"queued", "slotted"} => held[c] = registry

(***************************************************************************)
(* The pool's pace: a grant on the host's KeyState is never reserved       *)
(* earlier than the reservations before it allow, though the state may     *)
(* have been dropped and made anew in between: dropping it must not "reset *)
(* its pacing and let the next acquire burst" (release).                   *)
(***************************************************************************)
PaceKept == Current.nextGrantAt = due

\* An acquire that was queued is granted in the end.
QueuedIsGranted == \A c \in Calls : acq[c] = "queued" ~> acq[c] = "resolved"

(***************************************************************************)
(* The registry is invisible: seen through it, the limiters of a host are  *)
(* one Throttle, in which the callers without a slot count as rateOnly.    *)
(***************************************************************************)
SeenAcq == [c \in Calls |-> IF c \in Uncapped /\ acq[c] = "slotted" THEN "none" ELSE acq[c]]

T == INSTANCE Throttle WITH
       RateOnly <- RateOnly \cup Uncapped,
       inFlight <- Current.inFlight, waiters <- Current.waiters, acq <- SeenAcq

ImplementsThrottle == T!ThrottleSpec
===============================================================================
