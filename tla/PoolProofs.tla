----------------------------- MODULE PoolProofs ------------------------------
(***************************************************************************)
(* Two that hand out a bounded number of slots to whoever waits.           *)
(*                                                                         *)
(* The limiters of a host are one limiter, for every set of callers, limit *)
(* and rate.                                                               *)
(*                                                                         *)
(* A batch of downloads keeps its slots in use, its shared requests alive  *)
(* as long as they are wanted and no longer, and its watchdogs on them,    *)
(* for every number of items, way to tell them apart and concurrency.      *)
(***************************************************************************)
EXTENDS HostPool, Downloads,
        FiniteSetTheorems, SequenceTheorems, WellFoundedInduction, TLAPS

\* The limiter's own proofs, read for what the host's limiters look like from outside.
TP == INSTANCE ThrottleProofs WITH
        RateOnly <- RateOnly \cup Uncapped,
        inFlight <- Current.inFlight, waiters <- Current.waiters, acq <- SeenAcq

\* Whoever is about to go on after takeSlot has an object to go on with.
HeldIsAnObject ==
  \A c \in Calls : acq[c] = "slotted" => c \notin RateOnly /\ held[c] \in Objects

\* The inductive invariant: each part needs the others.
PoolInv ==
  PoolTypeOK /\ HeldIsRegistered /\ HeldIsAnObject /\ PaceKept /\ TP!ThrottleInv

-------------------------------------------------------------------------------
\* What the limiter's proofs assume of their constants, the pool's constants satisfy.
LEMMA PoolThrottleAssumption ==
  /\ TP!IsFiniteSet(Calls)
  /\ RateOnly \cup Uncapped \subseteq Calls
  /\ Limit \in Nat \ {0}
  <1>1. \A S : TP!IsFiniteSet(S) <=> IsFiniteSet(S)
    BY DEF TP!IsFiniteSet, IsFiniteSet
  <1> QED
    BY <1>1, HostPoolAssumption

\* The two readings of the limiter are one.
LEMMA SameThrottle ==
  [T!ThrottleNext]_(T!throttleVars) => [TP!ThrottleNext]_(TP!throttleVars)
  BY DEF T!ThrottleNext, TP!ThrottleNext, T!throttleVars, TP!throttleVars,
         T!Acquire, TP!Acquire, T!AcquireRateOnly, TP!AcquireRateOnly, T!Slotted, TP!Slotted,
         T!Paced, TP!Paced, T!PairedRelease, TP!PairedRelease, T!Pace, TP!Pace,
         T!Release, TP!Release, T!WithoutGrant, TP!WithoutGrant

\* An acquire finds what the last operation left of the host's state, whatever object
\* it is in.
LEMMA FoundIsCurrent ==
  ASSUME PoolTypeOK, NEW o \in StateFor
  PROVE  /\ o \in Objects /\ o # NoObject
         /\ Found(o) = Current
         /\ registry # NoObject => o = registry
  BY HostPoolAssumption DEF PoolTypeOK, StateFor, Found, Current

\* Current is what was put last into the host's object.
LEMMA PutIsCurrent ==
  ASSUME PoolTypeOK, NEW o \in Objects, NEW s, Put(o, s), registry' = o
  PROVE  Current' = s
  BY HostPoolAssumption DEF PoolTypeOK, Put, Current

\* How a step of one caller is seen.
LEMMA SeenStep ==
  ASSUME PoolTypeOK, NEW c \in Calls, NEW v, acq' = [acq EXCEPT ![c] = v]
  PROVE  SeenAcq' = [SeenAcq EXCEPT ![c] = IF c \in Uncapped /\ v = "slotted" THEN "none"
                                           ELSE v]
  BY DEF PoolTypeOK, SeenAcq

\* The fields of a KeyState that an operation has changed.
LEMMA CurrentType ==
  ASSUME PoolTypeOK
  PROVE  Current \in KeyStates
  BY HostPoolAssumption, EmptySeq DEF PoolTypeOK, Current, KeyStates, Fresh

\* The parts of the invariant that a step leaving registry, held and everybody's acquire
\* but c's alone keeps, when c's does not begin to wait or to go on.
LEMMA OthersKeepTheirs ==
  ASSUME PoolInv, NEW c \in Calls,
         NEW v \in {"none", "pacing", "resolved"}, acq' = [acq EXCEPT ![c] = v],
         acq[c] = "none" => c \notin Capped,
         registry # NoObject => registry' = registry,
         \A e \in Calls : e # c => held'[e] = held[e]
  PROVE  HeldIsRegistered' /\ HeldIsAnObject'
  <1>1. \A e \in Calls : e # c => acq'[e] = acq[e]
    BY DEF PoolInv, PoolTypeOK
  <1>2. acq'[c] = v
    BY DEF PoolInv, PoolTypeOK
  <1>3. \A e \in Capped : e \in Calls
    BY DEF Capped
  <1>4. HeldIsRegistered'
    <2>1. ASSUME NEW e \in Capped
          PROVE  /\ acq'[e] # "none" => registry' # NoObject
                 /\ acq'[e] \in {"queued", "slotted"} => held'[e] = registry'
      <3>1. CASE e = c
        BY <1>2, <2>1, <3>1 DEF PoolInv, HeldIsRegistered
      <3>2. CASE e # c
        BY <1>1, <1>3, <2>1, <3>2 DEF PoolInv, HeldIsRegistered
      <3> QED
        BY <3>1, <3>2
    <2> QED
      BY <2>1 DEF HeldIsRegistered, Capped
  <1>5. HeldIsAnObject'
    BY <1>1, <1>2 DEF PoolInv, HeldIsAnObject
  <1> QED
    BY <1>4, <1>5

\* acquire with a limit is the limiter's acquire.
LEMMA PoolAcquire ==
  ASSUME PoolInv, NEW c \in Calls, Acquire(c)
  PROVE  /\ T!Acquire(c)
         /\ PoolTypeOK' /\ HeldIsRegistered' /\ HeldIsAnObject' /\ PaceKept'
  <1> USE HostPoolAssumption
  <1>1. PICK o \in StateFor :
          LET s == Found(o) IN
          /\ registry' = o
          /\ held' = [held EXCEPT ![c] = o]
          /\ IF s.inFlight < Limit
               THEN /\ Put(o, [s EXCEPT !.inFlight = @ + 1])
                    /\ acq' = [acq EXCEPT ![c] = "slotted"]
                    /\ waited' = [waited EXCEPT ![c] = FALSE]
               ELSE /\ Put(o, [s EXCEPT !.waiters = Append(@, c)])
                    /\ acq' = [acq EXCEPT ![c] = "queued"]
                    /\ waited' = [waited EXCEPT ![c] = TRUE]
    BY DEF Acquire
  <1>2. /\ o \in Objects /\ o # NoObject /\ Found(o) = Current
        /\ registry # NoObject => o = registry
    BY FoundIsCurrent DEF PoolInv
  <1>3. /\ c \in Capped /\ c \notin RateOnly \cup Uncapped /\ acq[c] = "none"
        /\ left' = left /\ due' = due
    BY DEF Acquire, Capped
  <1>4. Current \in KeyStates
    BY CurrentType DEF PoolInv
  <1>5. SeenAcq[c] = "none"
    BY <1>3 DEF SeenAcq
  <1> DEFINE v == IF Current.inFlight < Limit THEN "slotted" ELSE "queued"
  <1>6. acq' = [acq EXCEPT ![c] = v] /\ SeenAcq' = [SeenAcq EXCEPT ![c] = v]
    <2>1. acq' = [acq EXCEPT ![c] = v]
      BY <1>1, <1>2
    <2> QED
      BY <1>3, <2>1, SeenStep DEF PoolInv
  <1>7. /\ Current'.nextGrantAt = Current.nextGrantAt
        /\ Current' \in KeyStates
        /\ content' = [content EXCEPT ![o] = Current']
        /\ IF Current.inFlight < Limit
             THEN Current'.inFlight = Current.inFlight + 1 /\ Current'.waiters = Current.waiters
             ELSE /\ Current'.inFlight = Current.inFlight
                  /\ Current'.waiters = Append(Current.waiters, c)
    <2>1. CASE Current.inFlight < Limit
      <3>1. Put(o, [Current EXCEPT !.inFlight = @ + 1]) /\ registry' = o
        BY <1>1, <1>2, <2>1
      <3>2. Current' = [Current EXCEPT !.inFlight = @ + 1]
        BY <1>2, <3>1, PutIsCurrent DEF PoolInv
      <3>3. Current.inFlight + 1 \in 0..Limit
        BY <1>4, <2>1 DEF KeyStates
      <3>4. [Current EXCEPT !.inFlight = @ + 1] \in KeyStates
        BY <1>4, <3>3 DEF KeyStates
      <3> QED
        BY <1>4, <2>1, <3>1, <3>2, <3>4 DEF KeyStates, Put
    <2>2. CASE ~(Current.inFlight < Limit)
      <3>1. Put(o, [Current EXCEPT !.waiters = Append(@, c)]) /\ registry' = o
        BY <1>1, <1>2, <2>2
      <3>2. Current' = [Current EXCEPT !.waiters = Append(@, c)]
        BY <1>2, <3>1, PutIsCurrent DEF PoolInv
      <3> QED
        BY <1>4, <2>2, <3>1, <3>2, AppendProperties DEF KeyStates, Put
    <2> QED
      BY <2>1, <2>2
  <1>8. waited' = [waited EXCEPT ![c] = ~(Current.inFlight < Limit)]
    BY <1>1, <1>2
  <1>9. T!Acquire(c)
    BY <1>1, <1>2, <1>3, <1>5, <1>6, <1>7 DEF T!Acquire
  <1>10. PoolTypeOK'
    <2>1. waited' \in [Calls -> BOOLEAN]
      BY <1>8, Zenon DEF PoolInv, PoolTypeOK
    <2>2. content' \in [Objects -> KeyStates]
      BY <1>2, <1>7 DEF PoolInv, PoolTypeOK
    <2>3. /\ registry' \in Objects \cup {NoObject}
          /\ held' \in [Calls -> Objects \cup {NoObject}]
          /\ left' \in [Calls -> Nat] /\ due' \in Nat
      BY <1>1, <1>2, <1>3 DEF PoolInv, PoolTypeOK
    <2>4. acq' \in [Calls -> {"none", "queued", "slotted", "pacing", "resolved"}]
      BY <1>6 DEF PoolInv, PoolTypeOK
    <2> QED
      BY <2>1, <2>2, <2>3, <2>4 DEF PoolTypeOK
  <1>11. HeldIsRegistered'
    <2>1. ASSUME NEW e \in Capped
          PROVE  /\ acq'[e] # "none" => registry' # NoObject
                 /\ acq'[e] \in {"queued", "slotted"} => held'[e] = registry'
      <3>1. CASE e = c
        BY <1>1, <1>2, <3>1 DEF PoolInv, PoolTypeOK
      <3>2. CASE e # c
        <4>1. acq'[e] = acq[e] /\ held'[e] = held[e]
          BY <1>1, <1>6, <2>1, <3>2 DEF PoolInv, PoolTypeOK, Capped
        <4>2. /\ acq[e] # "none" => registry # NoObject
              /\ acq[e] \in {"queued", "slotted"} => held[e] = registry
          BY <2>1 DEF PoolInv, HeldIsRegistered
        <4> QED
          BY <1>1, <1>2, <4>1, <4>2
      <3> QED
        BY <3>1, <3>2
    <2> QED
      BY <2>1 DEF HeldIsRegistered, Capped
  <1>12. HeldIsAnObject'
    BY <1>1, <1>2, <1>3, <1>6 DEF PoolInv, PoolTypeOK, HeldIsAnObject
  <1>13. PaceKept'
    BY <1>3, <1>7 DEF PoolInv, PaceKept
  <1> QED
    BY <1>9, <1>10, <1>11, <1>12, <1>13

\* acquire without a limit changes nothing the limiter shows: only an object may be made.
LEMMA PoolAcquireUncapped ==
  ASSUME PoolInv, NEW c \in Calls, AcquireUncapped(c)
  PROVE  /\ UNCHANGED T!throttleVars
         /\ PoolTypeOK' /\ HeldIsRegistered' /\ HeldIsAnObject' /\ PaceKept'
  <1> USE HostPoolAssumption
  <1>1. PICK o \in StateFor :
          /\ registry' = o
          /\ held' = [held EXCEPT ![c] = o]
          /\ Put(o, Found(o))
    BY DEF AcquireUncapped
  <1>2. /\ o \in Objects /\ o # NoObject /\ Found(o) = Current
        /\ registry # NoObject => o = registry
    BY FoundIsCurrent DEF PoolInv
  <1>3. /\ c \in Uncapped /\ c \notin RateOnly /\ acq[c] = "none"
        /\ acq' = [acq EXCEPT ![c] = "slotted"]
        /\ left' = left /\ due' = due /\ waited' = waited
    BY DEF AcquireUncapped
  <1>4. Current \in KeyStates
    BY CurrentType DEF PoolInv
  <1>5. Current' = Current
    BY <1>1, <1>2, PutIsCurrent DEF PoolInv
  <1>6. SeenAcq' = SeenAcq
    BY <1>3 DEF SeenAcq, PoolInv, PoolTypeOK
  <1>7. PoolTypeOK'
    BY <1>1, <1>2, <1>3, <1>4 DEF Put, PoolInv, PoolTypeOK
  <1>8. HeldIsRegistered'
    BY <1>1, <1>2, <1>3 DEF PoolInv, PoolTypeOK, HeldIsRegistered, Capped
  <1>9. HeldIsAnObject'
    BY <1>1, <1>2, <1>3 DEF PoolInv, PoolTypeOK, HeldIsAnObject
  <1>10. PaceKept'
    BY <1>3, <1>5 DEF PoolInv, PaceKept
  <1> QED
    BY <1>3, <1>5, <1>6, <1>7, <1>8, <1>9, <1>10 DEF T!throttleVars

\* The rate part: the grant is reserved behind the last one of the object's state.
LEMMA PaceOutcome ==
  ASSUME PoolTypeOK, NEW c \in Calls, NEW o \in Objects, NEW s \in KeyStates, Pace(c, o, s)
  PROVE  /\ acq' = [acq EXCEPT ![c] = IF Sleeps(c, s) THEN "pacing" ELSE "resolved"]
         /\ content' \in [Objects -> KeyStates]
         /\ \A p \in Objects : p # o => content'[p] = content[p]
         /\ content'[o].inFlight = s.inFlight
         /\ content'[o].waiters = s.waiters
         /\ content'[o].nextGrantAt = s.nextGrantAt + SpacingOf[c]
         /\ left' \in [Calls -> Nat] /\ due' \in Nat
         /\ o = registry' /\ due = s.nextGrantAt => due' = s.nextGrantAt + SpacingOf[c]
         /\ o # registry' => due' = due
  <1> USE HostPoolAssumption DEF PoolTypeOK
  <1>1. SpacingOf[c] \in Nat /\ s.nextGrantAt \in Nat
    BY DEF KeyStates
  <1>2. CASE SpacingOf[c] = 0
    BY <1>1, <1>2 DEF Pace, Put, Sleeps
  <1>3. CASE SpacingOf[c] # 0
    <2> DEFINE t == [s EXCEPT !.nextGrantAt = @ + SpacingOf[c]]
    <2>1. s.nextGrantAt + SpacingOf[c] \in Nat
      BY <1>1
    <2>2. /\ t \in KeyStates
          /\ t.inFlight = s.inFlight /\ t.waiters = s.waiters
          /\ t.nextGrantAt = s.nextGrantAt + SpacingOf[c]
      BY <2>1 DEF KeyStates
    <2>3. /\ content' = [content EXCEPT ![o] = t]
          /\ left' = [left EXCEPT ![c] = s.nextGrantAt]
          /\ acq' = [acq EXCEPT ![c] = IF s.nextGrantAt > 0 THEN "pacing" ELSE "resolved"]
          /\ due' = IF o = registry' THEN s.nextGrantAt + SpacingOf[c] ELSE due
      BY <1>3 DEF Pace, Put
    <2> HIDE DEF t
    <2>4. Sleeps(c, s) <=> s.nextGrantAt > 0
      BY <1>1, <1>3 DEF Sleeps
    <2>5. left' \in [Calls -> Nat] /\ due' \in Nat
      BY <1>1, <2>1, <2>3
    <2>6. /\ content' \in [Objects -> KeyStates] /\ content'[o] = t
          /\ \A p \in Objects : p # o => content'[p] = content[p]
      BY <2>2, <2>3
    <2> QED
      BY <2>2, <2>3, <2>4, <2>5, <2>6
  <1> QED
    BY <1>2, <1>3

\* acquire of a stream is the limiter's.
LEMMA PoolAcquireRateOnly ==
  ASSUME PoolInv, NEW c \in Calls, AcquireRateOnly(c)
  PROVE  /\ T!AcquireRateOnly(c)
         /\ PoolTypeOK' /\ HeldIsRegistered' /\ HeldIsAnObject' /\ PaceKept'
  <1> USE HostPoolAssumption
  <1>1. PICK o \in StateFor :
          /\ registry' = o
          /\ Pace(c, o, Found(o))
          /\ waited' = [waited EXCEPT ![c] = Sleeps(c, Found(o))]
    BY DEF AcquireRateOnly
  <1>2. /\ o \in Objects /\ o # NoObject /\ Found(o) = Current
        /\ registry # NoObject => o = registry
    BY FoundIsCurrent DEF PoolInv
  <1>3. c \in RateOnly /\ acq[c] = "none" /\ held' = held
    BY DEF AcquireRateOnly
  <1>4. Current \in KeyStates /\ Pace(c, o, Current)
    BY <1>1, <1>2, CurrentType DEF PoolInv
  <1>5. Current' = content'[o] /\ due = Current.nextGrantAt
    BY <1>1, <1>2 DEF Current, PoolInv, PaceKept
  <1> DEFINE v == IF Sleeps(c, Current) THEN "pacing" ELSE "resolved"
  <1>6. /\ acq' = [acq EXCEPT ![c] = v]
        /\ content' \in [Objects -> KeyStates]
        /\ Current'.inFlight = Current.inFlight
        /\ Current'.waiters = Current.waiters
        /\ Current'.nextGrantAt = due'
        /\ left' \in [Calls -> Nat] /\ due' \in Nat
    BY <1>1, <1>2, <1>4, <1>5, PaceOutcome DEF PoolInv
  <1>7. SeenAcq[c] = "none" /\ SeenAcq' = [SeenAcq EXCEPT ![c] = v]
    BY <1>3, <1>6, SeenStep DEF PoolInv, SeenAcq
  <1>8. waited' = [waited EXCEPT ![c] = Sleeps(c, Current)]
    BY <1>1, <1>2
  <1>9. T!AcquireRateOnly(c)
    <2>1. Sleeps(c, Current) \in BOOLEAN
      BY DEF Sleeps
    <2>2. CASE Sleeps(c, Current)
      <3>1. Sleeps(c, Current) = TRUE
        BY <2>1, <2>2
      <3>2. waited' = [waited EXCEPT ![c] = TRUE]
        BY <1>8, <3>1
      <3> QED
        BY <1>3, <1>6, <1>7, <2>2, <3>2 DEF T!AcquireRateOnly
    <2>3. CASE ~Sleeps(c, Current)
      <3>1. Sleeps(c, Current) = FALSE
        BY <2>1, <2>3
      <3>2. waited' = [waited EXCEPT ![c] = FALSE]
        BY <1>8, <3>1
      <3> QED
        BY <1>3, <1>6, <1>7, <2>3, <3>2 DEF T!AcquireRateOnly
    <2> QED
      BY <2>2, <2>3
  <1>10. PoolTypeOK'
    <2>1. waited' \in [Calls -> BOOLEAN]
      BY <1>8, Zenon DEF PoolInv, PoolTypeOK, Sleeps
    <2> QED
      BY <1>1, <1>2, <1>3, <1>6, <2>1 DEF PoolInv, PoolTypeOK
  <1>11. HeldIsRegistered' /\ HeldIsAnObject'
    BY <1>1, <1>2, <1>3, <1>6, OthersKeepTheirs DEF Capped
  <1>12. PaceKept'
    BY <1>6 DEF PaceKept
  <1> QED
    BY <1>9, <1>10, <1>11, <1>12

\* What takeSlot's continuation does is the limiter's; without a limit it is its acquire.
LEMMA PoolSlotted ==
  ASSUME PoolInv, NEW c \in Calls, Slotted(c)
  PROVE  /\ T!Slotted(c) \/ T!AcquireRateOnly(c)
         /\ PoolTypeOK' /\ HeldIsRegistered' /\ HeldIsAnObject' /\ PaceKept'
  <1> USE HostPoolAssumption
  <1> DEFINE o == held[c]
             s == content[o]
             v == IF Sleeps(c, s) THEN "pacing" ELSE "resolved"
  <1>1. /\ acq[c] = "slotted" /\ registry' = registry
        /\ Pace(c, o, s)
        /\ waited' = [waited EXCEPT ![c] = (c \in Capped /\ @) \/ Sleeps(c, s)]
        /\ held' = [held EXCEPT ![c] = NoObject]
    BY DEF Slotted
  <1>2. c \notin RateOnly /\ o \in Objects /\ s \in KeyStates
    BY <1>1 DEF PoolInv, HeldIsAnObject, PoolTypeOK
  <1>3. c \in Capped => o = registry
    BY <1>1 DEF PoolInv, HeldIsRegistered
  <1>4. /\ acq' = [acq EXCEPT ![c] = v]
        /\ content' \in [Objects -> KeyStates]
        /\ left' \in [Calls -> Nat] /\ due' \in Nat
    BY <1>1, <1>2, PaceOutcome DEF PoolInv
  <1>5. /\ Current'.inFlight = Current.inFlight
        /\ Current'.waiters = Current.waiters
        /\ Current'.nextGrantAt = due'
    <2>1. CASE o = registry
      <3>1. s = Current /\ content'[o] = Current' /\ due = s.nextGrantAt
        BY <1>1, <1>2, <2>1 DEF Current, PoolInv, PaceKept
      <3>2. /\ content'[o].inFlight = s.inFlight
            /\ content'[o].waiters = s.waiters
            /\ content'[o].nextGrantAt = due'
        BY <1>1, <1>2, <2>1, <3>1, PaceOutcome DEF PoolInv
      <3> QED
        BY <3>1, <3>2
    <2>2. CASE o # registry
      <3>1. /\ due' = due
            /\ \A p \in Objects : p # o => content'[p] = content[p]
        BY <1>1, <1>2, <2>2, PaceOutcome DEF PoolInv
      <3>2. Current' = Current
        BY <1>1, <2>2, <3>1 DEF Current, PoolInv, PoolTypeOK
      <3> QED
        BY <3>1, <3>2 DEF PoolInv, PaceKept
    <2> QED
      BY <2>1, <2>2
  <1>6. SeenAcq' = [SeenAcq EXCEPT ![c] = v]
    BY <1>4, SeenStep DEF PoolInv
  <1> HIDE DEF o, s
  <1>7. Sleeps(c, s) \in BOOLEAN
    BY DEF Sleeps
  <1>8. ASSUME c \in Capped
        PROVE  T!Slotted(c)
    <2>1. SeenAcq[c] = "slotted"
      BY <1>1, <1>8 DEF SeenAcq, Capped
    <2>2. CASE Sleeps(c, s)
      <3>1. waited' = [waited EXCEPT ![c] = TRUE]
        BY <1>1, <2>2, Zenon
      <3> QED
        BY <1>4, <1>5, <1>6, <2>1, <2>2, <3>1 DEF T!Slotted, T!Pace
    <2>3. CASE ~Sleeps(c, s)
      <3>1. waited[c] \in BOOLEAN /\ waited = [e \in Calls |-> waited[e]]
        BY DEF PoolInv, PoolTypeOK
      <3>2. waited' = [waited EXCEPT ![c] = waited[c]]
        BY <1>1, <1>8, <2>3, <3>1, Zenon
      <3>3. waited' = waited
        BY <3>1, <3>2
      <3> QED
        BY <1>4, <1>5, <1>6, <2>1, <2>3, <3>3 DEF T!Slotted, T!Pace
    <2> QED
      BY <2>2, <2>3
  <1>9. ASSUME c \notin Capped
        PROVE  T!AcquireRateOnly(c)
    <2>1. c \in Uncapped
      BY <1>2, <1>9 DEF Capped
    <2>2. SeenAcq[c] = "none"
      BY <1>1, <2>1 DEF SeenAcq
    <2>3. waited' = [waited EXCEPT ![c] = Sleeps(c, s)]
      BY <1>1, <1>7, <1>9, Zenon
    <2>4. CASE Sleeps(c, s)
      <3>1. waited' = [waited EXCEPT ![c] = TRUE]
        BY <1>7, <2>3, <2>4, Zenon
      <3> QED
        BY <1>4, <1>5, <1>6, <2>1, <2>2, <2>4, <3>1 DEF T!AcquireRateOnly
    <2>5. CASE ~Sleeps(c, s)
      <3>1. waited' = [waited EXCEPT ![c] = FALSE]
        BY <1>7, <2>3, <2>5, Zenon
      <3> QED
        BY <1>4, <1>5, <1>6, <2>1, <2>2, <2>5, <3>1 DEF T!AcquireRateOnly
    <2> QED
      BY <2>4, <2>5
  <1>10. PoolTypeOK'
    <2>1. waited' \in [Calls -> BOOLEAN]
      BY <1>1, Zenon DEF PoolInv, PoolTypeOK
    <2> QED
      BY <1>1, <1>2, <1>4, <2>1 DEF PoolInv, PoolTypeOK
  <1>11. HeldIsRegistered' /\ HeldIsAnObject'
    <2>1. \A e \in Calls : e # c => held'[e] = held[e]
      BY <1>1 DEF PoolInv, PoolTypeOK
    <2> QED
      BY <1>1, <1>4, <2>1, OthersKeepTheirs
  <1>12. PaceKept'
    BY <1>5 DEF PaceKept
  <1> QED
    BY <1>8, <1>9, <1>10, <1>11, <1>12

\* The rate sleep's end, and a release by a caller that has no slot.
LEMMA PoolPaced ==
  ASSUME PoolInv, NEW c \in Calls, Paced(c)
  PROVE  /\ T!Paced(c)
         /\ PoolTypeOK' /\ HeldIsRegistered' /\ HeldIsAnObject' /\ PaceKept'
  <1>1. /\ acq[c] = "pacing" /\ acq' = [acq EXCEPT ![c] = "resolved"]
        /\ UNCHANGED <<registry, content, held, waited, left, due>>
    BY DEF Paced
  <1>2. Current' = Current
    BY <1>1 DEF Current
  <1>3. SeenAcq[c] = "pacing" /\ SeenAcq' = [SeenAcq EXCEPT ![c] = "resolved"]
    BY <1>1, SeenStep DEF SeenAcq, PoolInv
  <1>4. PoolTypeOK'
    BY <1>1 DEF PoolInv, PoolTypeOK
  <1>5. HeldIsRegistered' /\ HeldIsAnObject'
    BY <1>1, OthersKeepTheirs
  <1> QED
    BY <1>1, <1>2, <1>3, <1>4, <1>5 DEF T!Paced, PoolInv, PaceKept

LEMMA PoolDone ==
  ASSUME PoolInv, NEW c \in Calls, Done(c)
  PROVE  /\ T!PairedRelease(c)
         /\ PoolTypeOK' /\ HeldIsRegistered' /\ HeldIsAnObject' /\ PaceKept'
  <1>1. /\ c \in RateOnly \cup Uncapped
        /\ acq[c] = "resolved" /\ acq' = [acq EXCEPT ![c] = "none"]
        /\ UNCHANGED <<registry, content, held, waited, left, due>>
    BY DEF Done, Capped
  <1>2. Current' = Current
    BY <1>1 DEF Current
  <1>3. SeenAcq[c] = "resolved" /\ SeenAcq' = [SeenAcq EXCEPT ![c] = "none"]
    BY <1>1, SeenStep DEF SeenAcq, PoolInv
  <1>4. PoolTypeOK'
    BY <1>1 DEF PoolInv, PoolTypeOK
  <1>5. HeldIsRegistered' /\ HeldIsAnObject'
    BY <1>1, OthersKeepTheirs
  <1> QED
    BY <1>1, <1>2, <1>3, <1>4, <1>5 DEF T!PairedRelease, T!WithoutGrant, PoolInv, PaceKept

\* Time passing touches no slot, and the host's grant and the promise come nearer alike.
LEMMA PoolTick ==
  ASSUME PoolInv, Tick
  PROVE  /\ UNCHANGED T!throttleVars
         /\ PoolTypeOK' /\ HeldIsRegistered' /\ HeldIsAnObject' /\ PaceKept'
  <1> USE HostPoolAssumption
  <1>1. /\ content' = [o \in Objects |-> [content[o] EXCEPT !.nextGrantAt = Sooner(@)]]
        /\ left' = [c \in Calls |-> Sooner(left[c])]
        /\ due' = Sooner(due)
        /\ UNCHANGED <<registry, held, acq, waited>>
    BY DEF Tick
  <1>2. \A n \in Nat : Sooner(n) \in Nat
    BY DEF Sooner
  <1>3. ASSUME NEW o \in Objects
        PROVE  /\ content'[o] \in KeyStates
               /\ content'[o].inFlight = content[o].inFlight
               /\ content'[o].waiters = content[o].waiters
               /\ content'[o].nextGrantAt = Sooner(content[o].nextGrantAt)
    BY <1>1, <1>2 DEF PoolInv, PoolTypeOK, KeyStates
  <1>4. PoolTypeOK'
    <2>1. content' \in [Objects -> KeyStates]
      BY <1>1, <1>3
    <2>2. left' \in [Calls -> Nat] /\ due' \in Nat
      BY <1>1, <1>2 DEF PoolInv, PoolTypeOK
    <2> QED
      BY <1>1, <2>1, <2>2 DEF PoolInv, PoolTypeOK
  <1>5. HeldIsRegistered' /\ HeldIsAnObject'
    BY <1>1 DEF PoolInv, HeldIsRegistered, HeldIsAnObject
  <1>6. /\ Current'.inFlight = Current.inFlight
        /\ Current'.waiters = Current.waiters
        /\ Current'.nextGrantAt = Sooner(Current.nextGrantAt)
    <2>1. CASE registry = NoObject
      BY <1>1, <2>1 DEF Current, Fresh, Sooner
    <2>2. CASE registry # NoObject
      <3>1. registry \in Objects
        BY <2>2 DEF PoolInv, PoolTypeOK
      <3> QED
        BY <1>1, <1>3, <2>2, <3>1 DEF Current
    <2> QED
      BY <2>1, <2>2
  <1>7. PaceKept'
    BY <1>1, <1>6 DEF PoolInv, PaceKept
  <1>8. SeenAcq' = SeenAcq
    BY <1>1 DEF SeenAcq
  <1> QED
    BY <1>1, <1>4, <1>5, <1>6, <1>7, <1>8 DEF T!throttleVars

\* A step of the limiter keeps the limiter's invariant.
LEMMA LimiterKeepsInv ==
  TP!ThrottleInv /\ [T!ThrottleNext]_(T!throttleVars) => TP!ThrottleInv'
  <1>1. TP!ThrottleInv /\ [TP!ThrottleNext]_(TP!throttleVars) => TP!ThrottleInv'
    BY PoolThrottleAssumption, TP!StepKeepsInv DEF TP!StepKeepsInv
  <1> QED
    BY <1>1, SameThrottle

\* The queue of the host's state holds callers with a limit, each of them asleep.
LEMMA QueuedIsAsleep ==
  ASSUME PoolInv, Current.waiters # <<>>
  PROVE  /\ Head(Current.waiters) \in Capped
         /\ acq[Head(Current.waiters)] = "queued"
  <1> DEFINE q == Current.waiters
             h == Head(q)
  <1>1. q \in Seq(Calls \ (RateOnly \cup Uncapped)) /\ q # <<>>
    BY DEF PoolInv, TP!ThrottleInv, TP!ThrottleTypeOK
  <1>2. h \in Calls \ (RateOnly \cup Uncapped) /\ Len(q) \in Nat \ {0} /\ h = q[1]
    BY <1>1, HeadTailProperties, EmptySeq
  <1>3. 1 \in 1..Len(q)
    BY <1>2
  <1>4. SeenAcq[h] = "queued"
    BY <1>2, <1>3 DEF PoolInv, TP!ThrottleInv, TP!QueueExact
  <1> QED
    BY <1>2, <1>4 DEF SeenAcq, Capped

\* When a step leaves no slot out and nobody queued, no caller with a limit is under way.
LEMMA IdleIsUnused ==
  ASSUME TP!ThrottleInv', PoolTypeOK', Current'.inFlight = 0, Current'.waiters = <<>>,
         NEW e \in Capped
  PROVE  acq'[e] = "none"
  <1>1. e \in Calls \ (RateOnly \cup Uncapped) /\ SeenAcq'[e] = acq'[e]
    BY DEF Capped, SeenAcq
  <1>2. SeenAcq'[e] # "queued"
    BY <1>1 DEF TP!ThrottleInv, TP!QueueExact
  <1>3. \A S : TP!Cardinality(S) = Cardinality(S)
    BY DEF TP!Cardinality, Cardinality
  <1>4. IsFiniteSet(TP!Owners')
    BY HostPoolAssumption, FS_Subset DEF TP!Owners
  <1>5. TP!Owners' = {}
    BY <1>3, <1>4, FS_EmptySet DEF TP!ThrottleInv, TP!SlotsCounted
  <1> QED
    BY <1>1, <1>2, <1>5 DEF TP!Owners, PoolTypeOK

\* release of a limiter with a limit is the limiter's, whether the state is kept or, idle,
\* dropped.
LEMMA PoolRelease ==
  ASSUME PoolInv, NEW c \in Calls, Release(c)
  PROVE  /\ T!PairedRelease(c)
         /\ PoolTypeOK' /\ HeldIsRegistered' /\ HeldIsAnObject' /\ PaceKept'
  <1> USE HostPoolAssumption
  <1> DEFINE s == Current
             h == Head(s.waiters)
             n == IF s.inFlight > 0 THEN s.inFlight - 1 ELSE 0
             s2 == IF s.waiters # <<>> THEN [s EXCEPT !.waiters = Tail(@)]
                   ELSE IF s.inFlight > 0 THEN [s EXCEPT !.inFlight = @ - 1]
                   ELSE s
  <1>1. c \in Capped /\ acq[c] = "resolved" /\ UNCHANGED <<held, waited, left, due>>
    BY DEF Release
  <1>2. registry \in Objects /\ registry # NoObject /\ s = content[registry]
    BY <1>1 DEF PoolInv, HeldIsRegistered, PoolTypeOK, Current
  <1>3. /\ content' = [content EXCEPT ![registry] = s2]
        /\ acq' = IF s.waiters = <<>> THEN [acq EXCEPT ![c] = "none"]
                  ELSE [acq EXCEPT ![c] = "none", ![h] = "slotted"]
        /\ registry' = IF Idle(s2) THEN NoObject ELSE registry
    BY <1>2 DEF Release, Put
  <1>4. s \in KeyStates
    BY CurrentType DEF PoolInv
  <1>5. /\ s2 \in KeyStates
        /\ s2.nextGrantAt = s.nextGrantAt
        /\ s2.inFlight = IF s.waiters = <<>> THEN n ELSE s.inFlight
        /\ s2.waiters = IF s.waiters = <<>> THEN <<>> ELSE Tail(s.waiters)
    <2>1. CASE s.waiters # <<>>
      <3>1. Tail(s.waiters) \in Seq(Calls)
        BY <1>4, <2>1, HeadTailProperties DEF KeyStates
      <3> QED
        BY <1>4, <2>1, <3>1 DEF KeyStates
    <2>2. CASE s.waiters = <<>>
      <3>1. s.inFlight > 0 => s.inFlight - 1 \in 0..Limit
        BY <1>4 DEF KeyStates
      <3> QED
        BY <1>4, <2>2, <3>1 DEF KeyStates
    <2> QED
      BY <2>1, <2>2
  <1>6. s.waiters # <<>> => h \in Capped /\ h # c /\ acq[h] = "queued"
    BY <1>1, QueuedIsAsleep
  <1> HIDE DEF s2
  <1>7. Current'.inFlight = s2.inFlight /\ Current'.waiters = s2.waiters
        /\ Current'.nextGrantAt = s2.nextGrantAt
    <2>1. CASE Idle(s2)
      BY <1>3, <2>1 DEF Current, Fresh, Idle
    <2>2. CASE ~Idle(s2)
      <3>1. Current' = s2
        BY <1>2, <1>3, <2>2 DEF Current, PoolInv, PoolTypeOK
      <3> QED
        BY <3>1
    <2> QED
      BY <2>1, <2>2
  <1>8. /\ c \in Calls /\ c \notin RateOnly \cup Uncapped
        /\ s.waiters # <<>> => h \in Calls /\ h \notin RateOnly \cup Uncapped
    BY <1>1, <1>6 DEF Capped
  <1>9. /\ SeenAcq[c] = "resolved"
        /\ SeenAcq' = IF s.waiters = <<>> THEN T!WithoutGrant(c)
                      ELSE [T!WithoutGrant(c) EXCEPT ![h] = "slotted"]
    <2>1. SeenAcq[c] = "resolved"
      BY <1>1, <1>8 DEF SeenAcq
    <2>2. CASE s.waiters = <<>>
      BY <1>3, <2>1, <2>2, SeenStep DEF PoolInv, T!WithoutGrant
    <2>3. CASE s.waiters # <<>>
      BY <1>3, <1>6, <1>8, <2>1, <2>3 DEF PoolInv, PoolTypeOK, SeenAcq, T!WithoutGrant
    <2> QED
      BY <2>1, <2>2, <2>3
  <1>10. T!PairedRelease(c)
    <2>1. T!Release(T!WithoutGrant(c))
      BY <1>1, <1>5, <1>7, <1>9 DEF T!Release
    <2> QED
      BY <1>8, <1>9, <2>1 DEF T!PairedRelease
  <1>11. PoolTypeOK'
    <2>1. acq' \in [Calls -> {"none", "queued", "slotted", "pacing", "resolved"}]
      BY <1>3, <1>6, <1>8 DEF PoolInv, PoolTypeOK
    <2>2. content' \in [Objects -> KeyStates]
      BY <1>2, <1>3, <1>5 DEF PoolInv, PoolTypeOK
    <2> QED
      BY <1>1, <1>3, <2>1, <2>2 DEF PoolInv, PoolTypeOK
  <1>12. HeldIsRegistered'
    <2>1. CASE Idle(s2)
      <3>1. T!ThrottleNext
        BY <1>10 DEF T!ThrottleNext
      <3>2. TP!ThrottleInv'
        BY <3>1, LimiterKeepsInv DEF PoolInv
      <3>3. Current'.inFlight = 0 /\ Current'.waiters = <<>>
        BY <1>7, <2>1 DEF Idle
      <3>4. \A e \in Capped : acq'[e] = "none"
        BY <1>11, <3>2, <3>3, IdleIsUnused
      <3> QED
        BY <3>4 DEF HeldIsRegistered, Capped
    <2>2. CASE ~Idle(s2)
      <3>1. ASSUME NEW e \in Capped, acq'[e] \in {"queued", "slotted"}
            PROVE  acq[e] \in {"queued", "slotted"}
        <4>1. e \in Calls /\ acq \in [Calls -> {"none", "queued", "slotted", "pacing", "resolved"}]
          BY DEF Capped, PoolInv, PoolTypeOK
        <4>2. CASE s.waiters = <<>>
          BY <1>3, <1>8, <3>1, <4>1, <4>2
        <4>3. CASE s.waiters # <<>>
          BY <1>3, <1>6, <1>8, <3>1, <4>1, <4>3
        <4> QED
          BY <4>2, <4>3
      <3>2. \A e \in Capped : acq'[e] \in {"queued", "slotted"} => held'[e] = registry'
        BY <1>1, <1>3, <2>2, <3>1 DEF PoolInv, HeldIsRegistered
      <3> QED
        BY <1>2, <1>3, <2>2, <3>2 DEF HeldIsRegistered, Capped
    <2> QED
      BY <2>1, <2>2
  <1>13. HeldIsAnObject'
    <2>1. ASSUME NEW e \in Calls, acq'[e] = "slotted"
          PROVE  e \notin RateOnly /\ held'[e] \in Objects
      <3>1. CASE acq[e] = "slotted"
        BY <1>1, <3>1 DEF PoolInv, HeldIsAnObject
      <3>2. CASE acq[e] # "slotted"
        <4>1. e = h /\ s.waiters # <<>>
          BY <1>3, <1>6, <1>8, <2>1, <3>2 DEF PoolInv, PoolTypeOK
        <4>2. held[e] = registry
          BY <1>6, <4>1 DEF PoolInv, HeldIsRegistered
        <4> QED
          BY <1>1, <1>2, <1>8, <4>1, <4>2
      <3> QED
        BY <3>1, <3>2
    <2> QED
      BY <2>1 DEF HeldIsAnObject
  <1>14. PaceKept'
    BY <1>1, <1>5, <1>7 DEF PoolInv, PaceKept
  <1> QED
    BY <1>10, <1>11, <1>12, <1>13, <1>14

-------------------------------------------------------------------------------
\* The invariant holds before the first acquire.
LEMMA PoolInitInv == PoolInit => PoolInv /\ T!ThrottleInit
  <1> SUFFICES ASSUME PoolInit
               PROVE  PoolInv /\ T!ThrottleInit
    OBVIOUS
  <1> USE HostPoolAssumption
  <1>1. Current = Fresh /\ SeenAcq = [c \in Calls |-> "none"]
    BY DEF PoolInit, Current, SeenAcq
  <1>2. T!ThrottleInit /\ TP!ThrottleInit
    BY <1>1 DEF T!ThrottleInit, TP!ThrottleInit, Fresh, PoolInit
  <1>3. TP!ThrottleInv
    <2>1. TP!ThrottleInit => TP!ThrottleInv
      BY PoolThrottleAssumption, TP!InitInv DEF TP!InitInv
    <2> QED
      BY <1>2, <2>1
  <1>4. PoolTypeOK
    <2>1. Fresh \in KeyStates
      BY EmptySeq DEF Fresh, KeyStates
    <2> QED
      BY <2>1 DEF PoolInit, PoolTypeOK
  <1>5. HeldIsRegistered /\ HeldIsAnObject
    BY DEF PoolInit, HeldIsRegistered, HeldIsAnObject, Capped
  <1>6. PaceKept
    BY <1>1 DEF PaceKept, Fresh, PoolInit
  <1> QED
    BY <1>2, <1>3, <1>4, <1>5, <1>6 DEF PoolInv

\* Every step of the host's limiters is a step of the one limiter or is not seen at all,
\* and keeps the invariant.
LEMMA PoolStep ==
  PoolInv /\ [PoolNext]_poolVars => PoolInv' /\ [T!ThrottleNext]_(T!throttleVars)
  <1> SUFFICES ASSUME PoolInv, [PoolNext]_poolVars
               PROVE  PoolInv' /\ [T!ThrottleNext]_(T!throttleVars)
    OBVIOUS
  <1> DEFINE Kept == PoolTypeOK' /\ HeldIsRegistered' /\ HeldIsAnObject' /\ PaceKept'
  <1>1. ASSUME NEW c \in Calls, Acquire(c)
        PROVE  Kept /\ T!ThrottleNext
    BY <1>1, PoolAcquire DEF T!ThrottleNext
  <1>2. ASSUME NEW c \in Calls, AcquireUncapped(c)
        PROVE  Kept /\ UNCHANGED T!throttleVars
    BY <1>2, PoolAcquireUncapped
  <1>3. ASSUME NEW c \in Calls, AcquireRateOnly(c)
        PROVE  Kept /\ T!ThrottleNext
    BY <1>3, PoolAcquireRateOnly DEF T!ThrottleNext
  <1>4. ASSUME NEW c \in Calls, Slotted(c)
        PROVE  Kept /\ T!ThrottleNext
    BY <1>4, PoolSlotted DEF T!ThrottleNext
  <1>5. ASSUME NEW c \in Calls, Paced(c)
        PROVE  Kept /\ T!ThrottleNext
    BY <1>5, PoolPaced DEF T!ThrottleNext
  <1>6. ASSUME NEW c \in Calls, Release(c)
        PROVE  Kept /\ T!ThrottleNext
    BY <1>6, PoolRelease DEF T!ThrottleNext
  <1>7. ASSUME NEW c \in Calls, Done(c)
        PROVE  Kept /\ T!ThrottleNext
    BY <1>7, PoolDone DEF T!ThrottleNext
  <1>8. ASSUME Tick
        PROVE  Kept /\ UNCHANGED T!throttleVars
    BY <1>8, PoolTick
  <1>9. ASSUME UNCHANGED poolVars
        PROVE  Kept /\ UNCHANGED T!throttleVars
    <2>1. Current' = Current /\ SeenAcq' = SeenAcq
      BY <1>9 DEF poolVars, Current, SeenAcq
    <2> QED
      BY <1>9, <2>1 DEF poolVars, T!throttleVars, PoolInv, PoolTypeOK, HeldIsRegistered,
                        HeldIsAnObject, PaceKept
  <1>10. Kept /\ [T!ThrottleNext]_(T!throttleVars)
    BY <1>1, <1>2, <1>3, <1>4, <1>5, <1>6, <1>7, <1>8, <1>9 DEF PoolNext
  <1>11. TP!ThrottleInv'
    BY <1>10, LimiterKeepsInv DEF PoolInv
  <1> QED
    BY <1>10, <1>11 DEF PoolInv

(***************************************************************************)
(* The invariant of the limiters of a host, for every set of callers, with *)
(* or without a limit, every limit and every rate.                         *)
(***************************************************************************)
THEOREM PoolSafe == PoolSpec => []PoolInv
  <1> QED
    BY PoolInitInv, PoolStep, PTL DEF PoolSpec

\* The states' slots stay within the limit and their pending grants in the future.
THEOREM PoolTyped == PoolSpec => []PoolTypeOK
  <1>1. PoolInv => PoolTypeOK
    BY DEF PoolInv
  <1> QED
    BY <1>1, PoolSafe, PTL

(***************************************************************************)
(* release drops a KeyState only when no acquire with a limit can still    *)
(* come back to it: the object an acquire keeps over its await is the one  *)
(* the registry has.                                                       *)
(***************************************************************************)
THEOREM PoolKeepsWhatIsHeld == PoolSpec => []HeldIsRegistered
  <1>1. PoolInv => HeldIsRegistered
    BY DEF PoolInv
  <1> QED
    BY <1>1, PoolSafe, PTL

\* Dropping an idle KeyState and making a new one does not let the next acquire burst:
\* the next grant is due when the reservations so far say.
THEOREM PoolKeepsPace == PoolSpec => []PaceKept
  <1>1. PoolInv => PaceKept
    BY DEF PoolInv
  <1> QED
    BY <1>1, PoolSafe, PTL

(***************************************************************************)
(* The limiters of a host, with their registry, their objects and their    *)
(* times, implement the one limiter of Throttle.                           *)
(***************************************************************************)
THEOREM PoolRefines == PoolSpec => ImplementsThrottle
  <1>1. PoolInit => T!ThrottleInit
    BY PoolInitInv
  <1>2. PoolInv /\ [PoolNext]_poolVars => [T!ThrottleNext]_(T!throttleVars)
    BY PoolStep
  <1> QED
    BY <1>1, <1>2, PoolSafe, PTL DEF PoolSpec, ImplementsThrottle, T!ThrottleSpec

(***************************************************************************)
(* And so the abstract semaphore: the capped callers of all the limiters   *)
(* share the host's slots in the order in which they asked.                *)
(***************************************************************************)
THEOREM PoolRunsSemaphore == PoolSpec => TP!ImplementsSemaphore
  <1>1. PoolInit => TP!ThrottleInit
    BY PoolInitInv DEF TP!ThrottleInit, T!ThrottleInit
  <1>2. PoolInv /\ [PoolNext]_poolVars => [TP!ThrottleNext]_(TP!throttleVars)
    BY PoolStep, SameThrottle
  <1>3. PoolSpec => TP!ThrottleSpec
    BY <1>1, <1>2, PoolSafe, PTL DEF PoolSpec, TP!ThrottleSpec
  <1>4. TP!ThrottleSpec => TP!ImplementsSemaphore
    BY PoolThrottleAssumption, TP!ThrottleRefines
  <1> QED
    BY <1>3, <1>4, PTL

-------------------------------------------------------------------------------
(***************************************************************************)
(* Sequences and the sets of their elements.                               *)
(***************************************************************************)

\* A set of numbers that is not empty has a least element.
LEMMA LeastOf ==
  ASSUME NEW I \in SUBSET Nat, I # {}
  PROVE  Min(I) \in I
  <1>1. PICK x \in I : \A y \in I : ~(<<y, x>> \in OpToRel(<, Nat))
    BY NatLessThanWellFounded, WFMin
  <1>2. ASSUME NEW y \in I, y < x
        PROVE  FALSE
    <2>1. <<y, x>> \in OpToRel(<, Nat)
      BY <1>2 DEF OpToRel
    <2> QED
      BY <1>1, <2>1
  <1>3. \A y \in I : x =< y
    BY <1>2
  <1> QED
    BY <1>3 DEF Min

\* The elements of a sequence are those of its first place and of the rest.
LEMMA ElementsOf ==
  ASSUME NEW S, NEW s \in Seq(S)
  PROVE  /\ ToSet(s) \subseteq S
         /\ s = <<>> <=> ToSet(s) = {}
         /\ s # <<>> => /\ Head(s) \in S /\ Tail(s) \in Seq(S)
                        /\ ToSet(s) = {Head(s)} \cup ToSet(Tail(s))
  <1>1. DOMAIN s = 1..Len(s) /\ Len(s) \in Nat /\ \A n \in 1..Len(s) : s[n] \in S
    BY LenProperties, ElementOfSeq
  <1>2. ToSet(s) \subseteq S
    BY <1>1 DEF ToSet
  <1>3. CASE s = <<>>
    BY <1>2, <1>3 DEF ToSet
  <1>4. CASE s # <<>>
    <2>1. /\ Head(s) \in S /\ Tail(s) \in Seq(S)
          /\ Len(Tail(s)) = Len(s) - 1
          /\ \A n \in 1..Len(Tail(s)) : Tail(s)[n] = s[n + 1]
          /\ Head(s) = s[1]
      BY <1>4, HeadTailProperties
    <2>2. Len(s) > 0 /\ DOMAIN Tail(s) = 1..(Len(s) - 1)
      BY <1>1, <1>4, <2>1, EmptySeq, LenProperties
    <2>3. ASSUME NEW n \in 1..Len(s)
          PROVE  s[n] \in {Head(s)} \cup ToSet(Tail(s))
      <3>1. CASE n = 1
        BY <2>1, <3>1
      <3>2. CASE n # 1
        <4>1. n - 1 \in 1..(Len(s) - 1) /\ (n - 1) + 1 = n
          BY <1>1, <3>2
        <4>2. Tail(s)[n - 1] = s[n]
          BY <2>1, <4>1
        <4> QED
          BY <2>2, <4>1, <4>2 DEF ToSet
      <3> QED
        BY <3>1, <3>2
    <2>4. ASSUME NEW n \in 1..(Len(s) - 1)
          PROVE  Tail(s)[n] \in ToSet(s)
      <3>1. n + 1 \in 1..Len(s) /\ Tail(s)[n] = s[n + 1]
        BY <1>1, <2>1
      <3> QED
        BY <1>1, <3>1 DEF ToSet
    <2>5. Head(s) \in ToSet(s)
      BY <1>1, <2>1, <2>2 DEF ToSet
    <2>6. ToSet(s) = {Head(s)} \cup ToSet(Tail(s))
      BY <1>1, <2>2, <2>3, <2>4, <2>5 DEF ToSet
    <2> QED
      BY <1>2, <1>4, <2>1, <2>5, <2>6
  <1> QED
    BY <1>3, <1>4

\* What queues behind others comes last, and joins the elements.
LEMMA ElementsOfAppend ==
  ASSUME NEW S, NEW s \in Seq(S), NEW x \in S
  PROVE  /\ Append(s, x) \in Seq(S)
         /\ Append(s, x) # <<>>
         /\ ToSet(Append(s, x)) = ToSet(s) \cup {x}
         /\ Len(Append(s, x)) = Len(s) + 1
         /\ IsInjective(s) /\ x \notin ToSet(s) => IsInjective(Append(s, x))
  <1>1. /\ Append(s, x) \in Seq(S)
        /\ Len(Append(s, x)) = Len(s) + 1
        /\ \A n \in 1..Len(s) : Append(s, x)[n] = s[n]
        /\ Append(s, x)[Len(s) + 1] = x
    BY AppendProperties
  <1>2. /\ DOMAIN s = 1..Len(s) /\ Len(s) \in Nat
        /\ DOMAIN Append(s, x) = 1..(Len(s) + 1)
    BY <1>1, LenProperties
  <1>3. Append(s, x) # <<>>
    BY <1>1, <1>2, EmptySeq
  <1>4. ToSet(Append(s, x)) = ToSet(s) \cup {x}
    BY <1>1, <1>2 DEF ToSet
  <1>5. IsInjective(s) /\ x \notin ToSet(s) => IsInjective(Append(s, x))
    BY <1>1, <1>2 DEF ToSet, IsInjective
  <1> QED
    BY <1>1, <1>3, <1>4, <1>5

\* The elements of two sequences, one behind the other.
LEMMA ElementsOfConcat ==
  ASSUME NEW S, NEW s \in Seq(S), NEW t \in Seq(S)
  PROVE  s \o t \in Seq(S) /\ ToSet(s \o t) = ToSet(s) \cup ToSet(t)
  <1>1. /\ s \o t \in Seq(S)
        /\ Len(s \o t) = Len(s) + Len(t)
        /\ \A n \in 1..(Len(s) + Len(t)) :
             (s \o t)[n] = IF n <= Len(s) THEN s[n] ELSE t[n - Len(s)]
    BY ConcatProperties
  <1>2. /\ DOMAIN s = 1..Len(s) /\ DOMAIN t = 1..Len(t) /\ Len(s) \in Nat /\ Len(t) \in Nat
        /\ DOMAIN (s \o t) = 1..(Len(s) + Len(t))
    BY <1>1, LenProperties
  <1>3. ASSUME NEW n \in 1..Len(t)
        PROVE  t[n] \in ToSet(s \o t)
    <2>1. n + Len(s) \in 1..(Len(s) + Len(t)) /\ (s \o t)[n + Len(s)] = t[n]
      BY <1>1, <1>2
    <2> QED
      BY <1>2, <2>1 DEF ToSet
  <1>4. ASSUME NEW n \in 1..Len(s)
        PROVE  s[n] \in ToSet(s \o t)
    <2>1. n \in 1..(Len(s) + Len(t)) /\ (s \o t)[n] = s[n]
      BY <1>1, <1>2
    <2> QED
      BY <1>2, <2>1 DEF ToSet
  <1>5. ASSUME NEW n \in 1..(Len(s) + Len(t))
        PROVE  (s \o t)[n] \in ToSet(s) \cup ToSet(t)
    BY <1>1, <1>2 DEF ToSet
  <1> QED
    BY <1>1, <1>2, <1>3, <1>4, <1>5 DEF ToSet

\* The first of a sequence without repetitions does not come again.
LEMMA FirstComesOnce ==
  ASSUME NEW S, NEW s \in Seq(S), IsInjective(s), s # <<>>
  PROVE  /\ IsInjective(Tail(s))
         /\ ToSet(Tail(s)) = ToSet(s) \ {Head(s)}
         /\ Len(Tail(s)) = Len(s) - 1
  <1>1. /\ Head(s) \in S /\ Tail(s) \in Seq(S)
        /\ Len(Tail(s)) = Len(s) - 1
        /\ \A n \in 1..Len(Tail(s)) : Tail(s)[n] = s[n + 1]
        /\ Head(s) = s[1]
    BY HeadTailProperties
  <1>2. /\ DOMAIN s = 1..Len(s) /\ Len(s) \in Nat \ {0}
        /\ DOMAIN Tail(s) = 1..(Len(s) - 1)
    BY <1>1, EmptySeq, LenProperties
  <1>3. \A n \in 1..(Len(s) - 1) : n + 1 \in 1..Len(s) /\ n + 1 # 1 /\ Tail(s)[n] = s[n + 1]
    BY <1>1, <1>2
  <1>4. IsInjective(Tail(s))
    <2>1. SUFFICES ASSUME NEW a \in 1..(Len(s) - 1), NEW b \in 1..(Len(s) - 1),
                          Tail(s)[a] = Tail(s)[b]
                   PROVE  a = b
      BY <1>2 DEF IsInjective
    <2>2. a + 1 = b + 1
      BY <1>2, <1>3, <2>1 DEF IsInjective
    <2> QED
      BY <2>2
  <1>5. Head(s) \notin ToSet(Tail(s))
    BY <1>1, <1>2, <1>3 DEF ToSet, IsInjective
  <1>6. ToSet(s) = {Head(s)} \cup ToSet(Tail(s))
    BY ElementsOf
  <1> QED
    BY <1>1, <1>4, <1>5, <1>6

\* Removing an element of a sequence without repetitions.
LEMMA ElementsOfRemove ==
  ASSUME NEW S, NEW s \in Seq(S), IsInjective(s), NEW x
  PROVE  /\ RemoveFirst(s, x) \in Seq(S)
         /\ IsInjective(RemoveFirst(s, x))
         /\ ToSet(RemoveFirst(s, x)) = ToSet(s) \ {x}
         /\ Len(RemoveFirst(s, x)) <= Len(s)
         /\ Len(RemoveFirst(s, x)) \in Nat
  <1>1. DOMAIN s = 1..Len(s) /\ Len(s) \in Nat
    BY LenProperties
  <1>2. CASE ~\E n \in 1..Len(s) : s[n] = x
    BY <1>1, <1>2 DEF RemoveFirst, ToSet
  <1>3. CASE \E n \in 1..Len(s) : s[n] = x
    <2>1. PICK n \in 1..Len(s) : s[n] = x
      BY <1>3
    <2>2. {m \in 1..Len(s) : s[m] = x} = {n}
      BY <1>1, <2>1 DEF IsInjective
    <2>3. Min({n}) = n
      BY DEF Min
    <2>4. SelectInSeq(s, LAMBDA v : v = x) = n
      BY <2>2, <2>3 DEF SelectInSeq
    <2> DEFINE a == SubSeq(s, 1, n - 1)
               b == SubSeq(s, n + 1, Len(s))
    <2>5. RemoveFirst(s, x) = a \o b
      <3>1. RemoveFirst(s, x) = RemoveAt(s, SelectInSeq(s, LAMBDA v : v = x))
        BY <1>3 DEF RemoveFirst
      <3> QED
        BY <2>4, <3>1 DEF RemoveAt
    <2>6. /\ a \in Seq(S) /\ Len(a) = n - 1
          /\ \A m \in 1..(n - 1) : a[m] = s[m]
      <3>1. 1 \in 1..(Len(s) + 1) /\ n - 1 \in 0..Len(s)
        BY <1>1
      <3>2. \A m \in 1..(n - 1) : m \in 1..Len(s)
        BY <1>1
      <3> QED
        BY <1>1, <3>1, <3>2, SubSeqProperties
    <2>7. /\ b \in Seq(S) /\ Len(b) = Len(s) - n
          /\ \A m \in 1..(Len(s) - n) : b[m] = s[n + m]
      <3>1. n + 1 \in Int /\ Len(s) \in Int /\ \A m \in (n + 1)..Len(s) : s[m] \in S
        BY <1>1
      <3>2. /\ b \in Seq(S)
            /\ Len(b) = IF n + 1 <= Len(s) THEN Len(s) - (n + 1) + 1 ELSE 0
            /\ \A m \in 1..(Len(s) - (n + 1) + 1) : b[m] = s[(n + 1) + m - 1]
        BY <3>1, SubSeqProperties
      <3>3. ASSUME NEW m \in 1..(Len(s) - n)
            PROVE  m \in 1..(Len(s) - (n + 1) + 1) /\ (n + 1) + m - 1 = n + m
        BY <1>1
      <3> HIDE DEF b
      <3>4. Len(b) = Len(s) - n
        <4>1. CASE n = Len(s)
          BY <1>1, <3>2, <4>1
        <4>2. CASE n + 1 <= Len(s)
          BY <1>1, <3>2, <4>2
        <4>3. Len(s) \in Nat /\ n \in Nat /\ n <= Len(s)
          BY <1>1
        <4> QED
          BY <4>1, <4>2, <4>3
      <3>5. \A m \in 1..(Len(s) - n) : b[m] = s[n + m]
        BY <3>2, <3>3
      <3> QED
        BY <3>2, <3>4, <3>5
    <2> HIDE DEF a, b
    <2>8. /\ a \o b \in Seq(S)
          /\ Len(a \o b) = Len(s) - 1
          /\ \A m \in 1..(Len(s) - 1) : (a \o b)[m] = IF m <= n - 1 THEN s[m] ELSE s[m + 1]
      <3>1. /\ a \o b \in Seq(S)
            /\ Len(a \o b) = Len(a) + Len(b)
            /\ \A m \in 1..(Len(a) + Len(b)) :
                 (a \o b)[m] = IF m <= Len(a) THEN a[m] ELSE b[m - Len(a)]
        BY <2>6, <2>7, ConcatProperties
      <3>2. Len(a) + Len(b) = Len(s) - 1
        BY <1>1, <2>6, <2>7
      <3>3. ASSUME NEW m \in 1..(Len(s) - 1)
            PROVE  (a \o b)[m] = IF m <= n - 1 THEN s[m] ELSE s[m + 1]
        <4>1. CASE m <= n - 1
          BY <1>1, <2>6, <3>1, <3>2, <4>1
        <4>2. CASE ~(m <= n - 1)
          <5>1. m - (n - 1) \in 1..(Len(s) - n) /\ n + (m - (n - 1)) = m + 1
            BY <1>1, <4>2
          <5>2. b[m - (n - 1)] = s[m + 1]
            BY <2>7, <5>1
          <5> QED
            BY <1>1, <2>6, <3>1, <3>2, <4>2, <5>2
        <4> QED
          BY <4>1, <4>2
      <3> QED
        BY <3>1, <3>2, <3>3
    <2> DEFINE r == a \o b
               old(m) == IF m <= n - 1 THEN m ELSE m + 1
    <2>9. /\ DOMAIN r = 1..(Len(s) - 1)
          /\ \A m \in 1..(Len(s) - 1) : old(m) \in 1..Len(s) /\ old(m) # n /\ r[m] = s[old(m)]
          /\ \A m, k \in 1..(Len(s) - 1) : old(m) = old(k) => m = k
          /\ \A m \in 1..Len(s) : m # n => \E k \in 1..(Len(s) - 1) : old(k) = m
      <3>1. DOMAIN r = 1..(Len(s) - 1)
        BY <2>8, LenProperties
      <3>2. ASSUME NEW m \in 1..Len(s), m # n
            PROVE  \E k \in 1..(Len(s) - 1) : old(k) = m
        <4>1. CASE m < n
          BY <1>1, <4>1
        <4>2. CASE m > n
          <5>1. m - 1 \in 1..(Len(s) - 1) /\ old(m - 1) = m
            BY <1>1, <4>2
          <5> QED
            BY <5>1
        <4> QED
          BY <1>1, <3>2, <4>1, <4>2
      <3>3. ASSUME NEW m \in 1..(Len(s) - 1)
            PROVE  old(m) \in 1..Len(s) /\ old(m) # n /\ r[m] = s[old(m)]
        BY <1>1, <2>8, <3>3
      <3>4. ASSUME NEW m \in 1..(Len(s) - 1), NEW k \in 1..(Len(s) - 1), old(m) = old(k)
            PROVE  m = k
        BY <1>1, <3>4
      <3> HIDE DEF r, old
      <3> QED
        BY <3>1, <3>2, <3>3, <3>4
    <2> HIDE DEF r, old
    <2>10. IsInjective(r)
      BY <1>1, <2>9 DEF IsInjective
    <2>11. ToSet(r) = ToSet(s) \ {x}
      <3>1. ASSUME NEW m \in 1..(Len(s) - 1)
            PROVE  r[m] \in ToSet(s) /\ r[m] # x
        BY <1>1, <2>1, <2>9 DEF ToSet, IsInjective
      <3>2. ASSUME NEW m \in 1..Len(s), s[m] # x
            PROVE  s[m] \in ToSet(r)
        <4>1. PICK k \in 1..(Len(s) - 1) : old(k) = m
          BY <2>1, <2>9, <3>2
        <4>2. r[k] = s[m]
          BY <2>9, <4>1
        <4> QED
          BY <2>9, <4>2 DEF ToSet
      <3>3. ToSet(r) \subseteq ToSet(s) \ {x}
        BY <2>9, <3>1 DEF ToSet
      <3>4. ToSet(s) \ {x} \subseteq ToSet(r)
        BY <1>1, <3>2 DEF ToSet
      <3> QED
        BY <3>3, <3>4
    <2> QED
      BY <1>1, <2>5, <2>8, <2>10, <2>11 DEF r
  <1> QED
    BY <1>2, <1>3

\* The index NextSharer finds: none, or that of a sharer.
LEMMA FirstSharer ==
  ASSUME active \in Seq(Items), NEW i
  PROVE  \/ NextSharer(i) = 0 /\ \A j \in Running : ~(j # i /\ group[j] = group[i])
         \/ /\ NextSharer(i) # 0
            /\ active[NextSharer(i)] \in Running /\ active[NextSharer(i)] # i
            /\ group[active[NextSharer(i)]] = group[i]
  <1> DEFINE I == {m \in 1..Len(active) : active[m] # i /\ group[active[m]] = group[i]}
  <1>1. NextSharer(i) = IF I # {} THEN Min(I) ELSE 0
    BY DEF NextSharer, SelectInSeq
  <1>2. DOMAIN active = 1..Len(active) /\ Len(active) \in Nat
    BY LenProperties
  <1>3. CASE I = {}
    BY <1>1, <1>2, <1>3 DEF ToSet, Running
  <1>4. CASE I # {}
    <2>1. I \in SUBSET Nat
      BY <1>2
    <2>2. Min(I) \in I
      BY <1>4, <2>1, LeastOf
    <2>3. PICK n \in 1..Len(active) : /\ n = NextSharer(i)
                                      /\ active[n] # i /\ group[active[n]] = group[i]
      BY <1>1, <1>4, <2>2
    <2> QED
      BY <1>2, <2>3 DEF ToSet, Running
  <1> QED
    BY <1>3, <1>4

\* A sequence of one.
LEMMA ElementsOfOne ==
  ASSUME NEW S, NEW x \in S
  PROVE  <<x>> \in Seq(S) /\ ToSet(<<x>>) = {x}
  <1>1. DOMAIN <<x>> = {1} /\ <<x>>[1] = x
    OBVIOUS
  <1> QED
    BY <1>1 DEF ToSet

Reactions == Items \X (Items \cup {Nobody})

\* What Reply adds to the jobs.
LEMMA ReactionsDue ==
  ASSUME NEW s \in Seq(Reactions), NEW g \in Items, NEW w \in Seq(Items)
  PROVE  LET after == s \o <<<<g, Nobody>>>> \o [n \in DOMAIN w |-> <<g, w[n]>>] IN
         /\ after \in Seq(Reactions)
         /\ ToSet(after) = ToSet(s) \cup {<<g, Nobody>>} \cup {<<g, i>> : i \in ToSet(w)}
  <1> DEFINE r == [n \in DOMAIN w |-> <<g, w[n]>>]
             a == <<<<g, Nobody>>>>
  <1>1. DOMAIN w = 1..Len(w) /\ Len(w) \in Nat /\ \A n \in 1..Len(w) : w[n] \in Items
    BY LenProperties, ElementOfSeq
  <1>2. r \in Seq(Reactions) /\ ToSet(r) = {<<g, i>> : i \in ToSet(w)}
    <2>1. \A n \in 1..Len(w) : <<g, w[n]>> \in Reactions
      BY <1>1 DEF Reactions
    <2>2. r \in Seq(Reactions)
      BY <1>1, <2>1, SeqDef
    <2>3. DOMAIN r = DOMAIN w /\ \A n \in DOMAIN w : r[n] = <<g, w[n]>>
      OBVIOUS
    <2> HIDE DEF r
    <2> QED
      BY <2>2, <2>3 DEF ToSet
  <1>3. a \in Seq(Reactions) /\ ToSet(a) = {<<g, Nobody>>}
    <2>1. <<g, Nobody>> \in Reactions
      BY DEF Reactions
    <2> QED
      BY <2>1, ElementsOfOne
  <1> HIDE DEF r, a
  <1>4. s \o a \in Seq(Reactions) /\ ToSet(s \o a) = ToSet(s) \cup ToSet(a)
    BY <1>3, ElementsOfConcat
  <1> DEFINE p == s \o a
  <1>5. p \in Seq(Reactions) /\ ToSet(p) = ToSet(s) \cup {<<g, Nobody>>}
    BY <1>3, <1>4
  <1> HIDE DEF p
  <1>6. p \o r \in Seq(Reactions) /\ ToSet(p \o r) = ToSet(p) \cup ToSet(r)
    BY <1>2, <1>5, ElementsOfConcat
  <1>7. /\ p \o r \in Seq(Reactions)
        /\ ToSet(p \o r) = ToSet(s) \cup {<<g, Nobody>>} \cup {<<g, i>> : i \in ToSet(w)}
    BY <1>2, <1>5, <1>6
  <1> QED
    BY <1>7 DEF p, r, a

-------------------------------------------------------------------------------
(***************************************************************************)
(* The inductive invariant of a batch.  While a method is under way the    *)
(* state is not what it is between two tasks; what makes up for it is that *)
(* the frames of the stack still have to run: whoever is out of the queue  *)
(* without having settled, whoever is active without a request, and a free *)
(* slot that somebody waits for, each has its frame.                       *)
(***************************************************************************)
Frames ==
  [op : {"pump", "user"}] \cup [op : {"open", "drop"}, item : Items]
    \cup [op : {"settle"}, item : Items, result : Results \ {"none"}]
    \cup [op : {"cancelQueued", "cancelActive"}, items : Seq(Items)]

Due == ToSet(stack)
\* What is left of the stack under the innermost method.
Rest == IF Quiet THEN {} ELSE ToSet(Tail(stack))
\* The item is starting: taken from the queue, not yet in #active.
Opening(i) == \E f \in Due : f.op = "open" /\ f.item = i

\* It has its request or had it; it has left the queue by a cancel; it has no request yet.
Admitted(i) == i \in Running \/ phase[i] = "settled"
Condemned(i) == phase[i] = "queued" /\ i \notin ToSet(queue)
Waiting(i) == phase[i] \in {"new", "queued"} \/ Opening(i)

Typed ==
  /\ keyOf \in Keyings \cup {<<>>}
  /\ queue \in Seq(Items) /\ IsInjective(queue)
  /\ active \in Seq(Items) /\ IsInjective(active)
  /\ jobs \in Seq(Reactions) /\ stack \in Seq(Frames)
  /\ watchers \in [Items -> Seq(Items)]
  /\ signalAborted \in BOOLEAN /\ drained \in BOOLEAN
  /\ phase \in [Items -> Phases]
  /\ result \in [Items -> Results]
  /\ cancelled \subseteq Items /\ stalled \subseteq Items /\ interrupted \subseteq Items
  /\ group \in [Items -> Items \cup {Nobody}]
  /\ shared \in [Keys -> Items \cup {Nobody}]
  /\ leader \in [Items -> Items]
  /\ aborted \in [Items -> {"no", "cancel", "stall"}]
  /\ wire \in [Items -> {"none", "open", "resolved", "rejected"}]

\* Whoever was cancelled out of the queue is about to settle.
Ends(f, i) == \/ f.op = "settle" /\ f.item = i
              \/ f.op = "cancelQueued" /\ i \in ToSet(f.items)
EndIsDue(i) == \E f \in Due : Ends(f, i)

PhasesAgree ==
  \A i \in Items :
    /\ result[i] # "none" <=> phase[i] = "settled"
    /\ result[i] # "pulled"
    /\ i \in ToSet(queue) => phase[i] = "queued"
    /\ i \in Running => phase[i] = "active"
    /\ phase[i] = "active" => i \in Running \/ Opening(i)
    /\ Condemned(i) => EndIsDue(i)

\* No two frames of a stack start the same item.
Apart(s) ==
  \A p, q \in DOMAIN s :
    s[p].op = "open" /\ s[q].op = "open" /\ s[p].item = s[q].item => p = q

\* Who starts under another method was interrupted, or its callback is what runs now.
StackAgrees ==
  /\ Apart(stack)
  /\ \A f \in Rest : f.op = "open" => f.item \in interrupted \cup Starting

(***************************************************************************)
(* An item that starts takes the slot it was started for, unless somebody  *)
(* else was let in while its callback ran.                                 *)
(***************************************************************************)
Occupied == (Running \cup {i \in Items : Opening(i)}) \ interrupted

SlotsTaken ==
  /\ \A i \in Items : Opening(i) => phase[i] = "active" /\ i \notin Running
  /\ Cardinality(Occupied) <= Concurrency

FrameAgrees(f) ==
  /\ f.op = "settle" =>
       /\ Admitted(f.item) \/ Condemned(f.item)
       /\ f.item \in Running /\ Request(f.item) # Nobody => wire[Request(f.item)] # "open"
       /\ f.result = "pulled" => phase[f.item] = "settled"
  /\ f.op = "drop" => (Admitted(f.item) \/ Opening(f.item)) /\ f.item \in cancelled
  /\ f.op = "cancelQueued" => \A i \in ToSet(f.items) : Condemned(i) \/ phase[i] = "settled"
  /\ f.op = "cancelActive" => \A i \in ToSet(f.items) : Admitted(i)

FramesAgree == \A f \in Due : FrameAgrees(f)

Untouched ==
  \A i \in Items : Waiting(i) =>
    group[i] = Nobody /\ wire[i] = "none" /\ aborted[i] = "no" /\ leader[i] = i

\* Nothing is left to do, but for whoever was interrupted.
NothingToCome ==
  /\ queue = <<>>
  /\ \A i \in Items : i \in Running \/ Opening(i) => i \in interrupted

PumpIsDue ==
  /\ signalAborted => queue = <<>>
  /\ CanStart => \E f \in Due : f.op = "pump"
  /\ drained => NothingToCome
  /\ timer \subseteq Running

Shares ==
  /\ \A i \in Items : group[i] # Nobody => dedupe /\ i \in Running /\ wire[group[i]] # "none"
  /\ \A k \in Keys : shared[k] # Nobody => dedupe /\ wire[shared[k]] # "none"
  /\ \A i \in Running : Request(i) = Nobody => \E f \in Due : f.op = "settle" /\ f.item = i
  /\ dedupe => \A g \in Items :
       /\ wire[g] = "open" /\ Sharers(g) = {} => aborted[g] # "no"
       /\ aborted[g] = "cancel" => Sharers(g) = {} /\ \A k \in Keys : shared[k] # g
  /\ ~dedupe => \A g \in Items :
       /\ wire[g] = "open" => g \in Running
       /\ aborted[g] = "cancel" => g \in cancelled

LeadIn ==
  \A g \in Items : wire[g] = "open" /\ aborted[g] = "no" =>
    leader[g] \in timer /\ leader[g] \in Running /\ Request(leader[g]) = g

Reacts(g, i) == i \in ToSet(watchers[g]) \/ <<g, i>> \in ToSet(jobs)

ReactionsAgree ==
  /\ \A g, i \in Items : Reacts(g, i) => Admitted(i) /\ (i \in Running => Request(i) \in {g, Nobody})
  /\ \A g \in Items, i \in Items \cup {Nobody} :
       <<g, i>> \in ToSet(jobs) => wire[g] \in {"resolved", "rejected"}

BatchInv ==
  /\ Typed /\ StackAgrees /\ PhasesAgree /\ SlotsTaken /\ FramesAgree /\ Untouched
  /\ PumpIsDue /\ Shares /\ LeadIn /\ ReactionsAgree

-------------------------------------------------------------------------------
(***************************************************************************)
(* The stack: what each kind of frame holds, and what a step makes of it.  *)
(***************************************************************************)
LEMMA FrameFields ==
  ASSUME NEW f \in Frames
  PROVE  /\ f.op \in {"pump", "user", "open", "drop", "settle", "cancelQueued", "cancelActive"}
         /\ f.op \in {"open", "drop", "settle"} => f.item \in Items
         /\ f.op = "settle" => f.result \in Results \ {"none"}
         /\ f.op \in {"cancelQueued", "cancelActive"} => f.items \in Seq(Items)
  BY DEF Frames

LEMMA NewFrames ==
  /\ Pump \in Frames
  /\ \A i \in Items : Do("open", i) \in Frames /\ Do("drop", i) \in Frames
  /\ \A i \in Items, r \in Results \ {"none"} : Settle(i, r) \in Frames
  /\ \A s \in Seq(Items) : DoAll("cancelQueued", s) \in Frames /\ DoAll("cancelActive", s) \in Frames
  /\ \A callback \in {"start", "settled"}, i \in Items :
       /\ User(callback, i) \in Seq(Frames)
       /\ \A f \in ToSet(User(callback, i)) : f.op = "user"
  <1>1. [op |-> "user"] \in Frames
    BY DEF Frames
  <1>2. /\ <<[op |-> "user"]>> \in Seq(Frames)
        /\ ToSet(<<[op |-> "user"]>>) = {[op |-> "user"]}
    BY <1>1, ElementsOfOne
  <1>3. <<>> \in Seq(Frames) /\ ToSet(<<>>) = {}
    BY DEF ToSet
  <1>4. \A callback \in {"start", "settled"}, i \in Items :
       /\ User(callback, i) \in Seq(Frames)
       /\ \A f \in ToSet(User(callback, i)) : f.op = "user"
    BY <1>2, <1>3 DEF User
  <1> QED
    BY <1>4 DEF Frames, Pump, Do, Settle, DoAll

LEMMA StackParts ==
  ASSUME stack \in Seq(Frames)
  PROVE  /\ Quiet => Due = {} /\ Rest = {}
         /\ ~Quiet => /\ Head(stack) \in Frames /\ Tail(stack) \in Seq(Frames)
                      /\ Due = {Head(stack)} \cup Rest
                      /\ Rest = ToSet(Tail(stack))
         /\ Due \subseteq Frames /\ Rest \subseteq Due
  BY ElementsOf DEF Quiet, Due, Rest

\* Of a stack whose frames are apart, so are those under the first.
LEMMA ApartBelow ==
  ASSUME NEW s \in Seq(Frames), s # <<>>, Apart(s)
  PROVE  /\ Apart(Tail(s))
         /\ Head(s).op = "open" => \A f \in ToSet(Tail(s)) : f.op = "open" => f.item # Head(s).item
  <1>1. /\ Tail(s) \in Seq(Frames)
        /\ Len(Tail(s)) = Len(s) - 1
        /\ \A n \in 1..Len(Tail(s)) : Tail(s)[n] = s[n + 1]
        /\ Head(s) = s[1]
    BY HeadTailProperties
  <1>2. /\ DOMAIN s = 1..Len(s) /\ Len(s) \in Nat \ {0}
        /\ DOMAIN Tail(s) = 1..(Len(s) - 1)
    BY <1>1, EmptySeq, LenProperties
  <1>3. \A n \in 1..(Len(s) - 1) : n + 1 \in 1..Len(s) /\ n + 1 # 1 /\ Tail(s)[n] = s[n + 1]
    BY <1>1, <1>2
  <1>4. Apart(Tail(s))
    <2>1. SUFFICES ASSUME NEW p \in 1..(Len(s) - 1), NEW q \in 1..(Len(s) - 1),
                          Tail(s)[p].op = "open", Tail(s)[q].op = "open",
                          Tail(s)[p].item = Tail(s)[q].item
                   PROVE  p = q
      BY <1>2 DEF Apart
    <2>2. p + 1 = q + 1
      BY <1>2, <1>3, <2>1 DEF Apart
    <2> QED
      BY <2>2
  <1>5. ASSUME Head(s).op = "open", NEW f \in ToSet(Tail(s)), f.op = "open", f.item = Head(s).item
        PROVE  FALSE
    <2>1. PICK n \in 1..(Len(s) - 1) : f = Tail(s)[n]
      BY <1>2, <1>5 DEF ToSet
    <2>2. 1 \in 1..Len(s) /\ n + 1 \in 1..Len(s) /\ n + 1 # 1 /\ f = s[n + 1]
      BY <1>2, <1>3, <2>1
    <2> QED
      BY <1>1, <1>2, <1>5, <2>2 DEF Apart
  <1> QED
    BY <1>4, <1>5

\* Putting frames on top that start nobody, or nobody who starts already, leaves them apart.
LEMMA ApartAbove ==
  ASSUME NEW s \in Seq(Frames), NEW t \in Seq(Frames), Apart(s), Apart(t),
         \A f \in ToSet(s), e \in ToSet(t) :
           f.op = "open" /\ e.op = "open" => f.item # e.item
  PROVE  Apart(s \o t)
  <1>1. /\ Len(s \o t) = Len(s) + Len(t) /\ s \o t \in Seq(Frames)
        /\ \A n \in 1..(Len(s) + Len(t)) :
             (s \o t)[n] = IF n <= Len(s) THEN s[n] ELSE t[n - Len(s)]
    BY ConcatProperties
  <1>2. /\ DOMAIN s = 1..Len(s) /\ DOMAIN t = 1..Len(t) /\ Len(s) \in Nat /\ Len(t) \in Nat
        /\ DOMAIN (s \o t) = 1..(Len(s) + Len(t))
    BY <1>1, LenProperties
  <1> DEFINE r == s \o t
  <1>3. ASSUME NEW n \in 1..(Len(s) + Len(t))
        PROVE  \/ n \in DOMAIN s /\ r[n] = s[n] /\ r[n] \in ToSet(s)
               \/ n > Len(s) /\ n - Len(s) \in DOMAIN t /\ r[n] = t[n - Len(s)] /\ r[n] \in ToSet(t)
    <2>1. CASE n <= Len(s)
      BY <1>1, <1>2, <2>1 DEF ToSet
    <2>2. CASE n > Len(s)
      <3>1. n - Len(s) \in 1..Len(t) /\ r[n] = t[n - Len(s)]
        BY <1>1, <1>2, <2>2
      <3> QED
        BY <1>2, <2>2, <3>1 DEF ToSet
    <2> QED
      BY <1>2, <2>1, <2>2
  <1> HIDE DEF r
  <1>4. SUFFICES ASSUME NEW p \in 1..(Len(s) + Len(t)), NEW q \in 1..(Len(s) + Len(t)),
                        r[p].op = "open", r[q].op = "open", r[p].item = r[q].item
                 PROVE  p = q
    BY <1>2 DEF Apart, r
  <1>5. CASE p \in DOMAIN s /\ r[p] = s[p] /\ r[p] \in ToSet(s)
    BY <1>2, <1>3, <1>4, <1>5 DEF Apart
  <1>6. CASE /\ p > Len(s) /\ p - Len(s) \in DOMAIN t
             /\ r[p] = t[p - Len(s)] /\ r[p] \in ToSet(t)
    <2>1. /\ q > Len(s) /\ q - Len(s) \in DOMAIN t
          /\ r[q] = t[q - Len(s)]
      BY <1>3, <1>4, <1>6
    <2>2. p - Len(s) = q - Len(s)
      BY <1>4, <1>6, <2>1 DEF Apart
    <2> QED
      BY <1>2, <2>2
  <1> QED
    BY <1>3, <1>5, <1>6

\* Frames that start nobody are apart.
LEMMA ApartIdle ==
  ASSUME NEW s \in Seq(Frames), \A f \in ToSet(s) : f.op # "open"
  PROVE  Apart(s)
  BY DEF Apart, ToSet

\* A method, or the user between two, goes on with the frames s: nobody new is starting.
LEMMA GoesOn ==
  ASSUME stack \in Seq(Frames), StackAgrees,
         NEW s \in Seq(Frames), \A f \in ToSet(s) : f.op # "open",
         \/ ~Quiet /\ Head(stack).op # "open" /\ stack' = s \o Tail(stack)
         \/ Quiet /\ stack' = s,
         interrupted \subseteq interrupted',
         s # <<>> => Starting \subseteq interrupted'
  PROVE  /\ stack' \in Seq(Frames)
         /\ Due' = ToSet(s) \cup Rest
         /\ StackAgrees'
         /\ \A i : Opening(i)' <=> Opening(i)
  <1>1. Apart(s)
    BY ApartIdle
  <1>2. CASE Quiet
    <2>1. stack' \in Seq(Frames) /\ Due' = ToSet(s) /\ Due = {} /\ Rest = {}
      BY <1>2, StackParts DEF Due, Quiet
    <2>2. \A f \in Rest' : f.op # "open"
      <3>1. stack' # <<>> => ToSet(Tail(stack')) \subseteq ToSet(stack')
        BY <2>1, ElementsOf
      <3> QED
        BY <2>1, <3>1 DEF Rest, Due, Quiet
    <2>3. StackAgrees'
      BY <1>1, <1>2, <2>2 DEF StackAgrees, Quiet
    <2>4. \A i : Opening(i)' <=> Opening(i)
      BY <2>1 DEF Opening
    <2> QED
      BY <2>1, <2>3, <2>4
  <1>3. CASE ~Quiet
    <2> DEFINE t == Tail(stack)
    <2>1. /\ t \in Seq(Frames) /\ Rest = ToSet(t) /\ stack' = s \o t
          /\ Due = {Head(stack)} \cup Rest /\ Head(stack).op # "open"
      BY <1>3, StackParts
    <2>2. Apart(t)
      BY <1>3, ApartBelow DEF StackAgrees, Quiet
    <2> HIDE DEF t
    <2>3. s \o t \in Seq(Frames) /\ ToSet(s \o t) = ToSet(s) \cup Rest
      BY <2>1, ElementsOfConcat
    <2>4. stack' \in Seq(Frames) /\ Due' = ToSet(s) \cup Rest
      BY <2>1, <2>3, Zenon DEF Due
    <2>5. Apart(stack')
      <3>1. Apart(s \o t)
        BY <1>1, <2>1, <2>2, ApartAbove
      <3> QED
        BY <2>1, <3>1, Zenon
    <2>6. \A f \in Rest' : f.op = "open" => f.item \in interrupted'
      <3>1. SUFFICES ASSUME NEW f \in Rest', f.op = "open"
                     PROVE  f.item \in interrupted'
        OBVIOUS
      <3>2. stack' # <<>> /\ f \in ToSet(Tail(stack')) /\ f \in ToSet(stack')
        <4>1. stack' # <<>> /\ f \in ToSet(Tail(stack'))
          BY <3>1 DEF Rest, Quiet
        <4> QED
          BY <2>4, <4>1, ElementsOf
      <3>3. f \in Rest
        BY <2>4, <3>1, <3>2 DEF Due
      <3>4. f.item \in interrupted \cup Starting
        BY <3>1, <3>3 DEF StackAgrees
      <3>5. CASE s # <<>>
        BY <3>4, <3>5
      <3>6. CASE s = <<>>
        <4>1. <<>> \o t = t
          BY <2>1, ConcatEmptySeq
        <4>2. stack' = t
          BY <2>1, <3>6, <4>1
        <4>3. ASSUME f.item \in Starting
              PROVE  FALSE
          <5>1. Head(t).op = "open" /\ Head(t).item = f.item
            BY <4>3 DEF Starting, t
          <5> QED
            BY <2>1, <2>2, <3>1, <3>2, <4>2, <5>1, ApartBelow
        <4> QED
          BY <3>4, <4>3
      <3> QED
        BY <3>5, <3>6
    <2>7. StackAgrees'
      BY <2>5, <2>6 DEF StackAgrees
    <2>8. \A i : Opening(i)' <=> Opening(i)
      BY <2>1, <2>4 DEF Opening
    <2> QED
      BY <2>4, <2>7, <2>8
  <1> QED
    BY <1>2, <1>3

\* Only the user's own frame may stand over one that starts an item it has not interrupted.
LEMMA NobodyStarts ==
  ASSUME ~Innermost("user")
  PROVE  Starting = {}
  BY DEF Starting

\* Whoever starts under a method that runs now has been interrupted.
LEMMA StartersBelow ==
  ASSUME stack \in Seq(Frames), StackAgrees, ~Quiet, Head(stack).op \notin {"open", "user"}
  PROVE  \A f \in Due : f.op = "open" => f.item \in interrupted
  <1>1. Starting = {}
    BY NobodyStarts DEF Innermost
  <1>2. Due = {Head(stack)} \cup Rest
    BY StackParts
  <1> QED
    BY <1>1, <1>2 DEF StackAgrees

\* Whom the slots count is a finite set.
LEMMA SlotsAreFinite ==
  ASSUME NEW S \in SUBSET Items
  PROVE  IsFiniteSet(S) /\ Cardinality(S) \in Nat
  <1>1. IsFiniteSet(Items)
    BY DownloadsAssumption, FS_Interval DEF Items
  <1>2. IsFiniteSet(S)
    BY <1>1, FS_Subset
  <1> QED
    BY <1>2, FS_CardinalityType

\* A sequence has no more elements than places.
LEMMA NoMoreThanPlaces ==
  ASSUME NEW s \in Seq(Items)
  PROVE  Cardinality(ToSet(s)) <= Len(s)
  <1>1. DOMAIN s = 1..Len(s) /\ Len(s) \in Nat
    BY LenProperties
  <1>2. s \in Surjection(1..Len(s), ToSet(s))
    <2>1. s \in [1..Len(s) -> ToSet(s)]
      BY <1>1, ElementOfSeq DEF ToSet
    <2> QED
      BY <1>1, <2>1 DEF Surjection, ToSet
  <1>3. ExistsSurjection(1..Len(s), ToSet(s))
    BY <1>2 DEF ExistsSurjection
  <1> QED
    BY <1>1, <1>3, FS_SurjCardinalityBound

\* Who occupies a slot goes on to, unless it is interrupted or settles.
LEMMA SlotsStayTaken ==
  ASSUME SlotsTaken, Running \subseteq Items,
         \A i \in Items : Opening(i)' => Opening(i),
         \A i \in Items : Opening(i) => phase'[i] = phase[i],
         Running' \subseteq Running,
         interrupted \subseteq interrupted'
  PROVE  SlotsTaken'
  <1>1. \A i \in Items : Opening(i)' => phase'[i] = "active" /\ i \notin Running'
    BY DEF SlotsTaken
  <1>2. Occupied' \subseteq Occupied
    BY DEF Occupied
  <1>3. Occupied \in SUBSET Items
    BY DEF Occupied
  <1>4. Cardinality(Occupied') <= Cardinality(Occupied)
    <2>1. IsFiniteSet(Occupied)
      BY <1>3, SlotsAreFinite
    <2> QED
      BY <1>2, <2>1, FS_Subset
  <1>5. Cardinality(Occupied') \in Nat /\ Cardinality(Occupied) \in Nat
    <2>1. Occupied' \in SUBSET Items
      BY <1>2, <1>3
    <2> QED
      BY <1>3, <2>1, SlotsAreFinite
  <1>6. Cardinality(Occupied') <= Concurrency
    BY <1>4, <1>5, DownloadsAssumption DEF SlotsTaken
  <1> QED
    BY <1>1, <1>6 DEF SlotsTaken

LEMMA KeyInKeys ==
  ASSUME keyOf \in Keyings \cup {<<>>}, dedupe, NEW i \in Items
  PROVE  keyOf[i] \in Keys
  <1>1. keyOf \in Keyings
    BY DEF dedupe
  <1>2. DOMAIN keyOf = 1..N
    BY <1>1, DownloadsAssumption
  <1>3. keyOf[i] \in Range(keyOf)
    BY <1>2 DEF Items, Range
  <1> QED
    BY <1>1, <1>3 DEF Keys

-------------------------------------------------------------------------------
(***************************************************************************)
(* Steps that admit nobody and settle nobody: what they put on the stack,  *)
(* and what they may take from it, for the invariant to hold on.           *)
(***************************************************************************)
LEMMA StackMoves ==
  ASSUME BatchInv, stack' \in Seq(Frames), StackAgrees',
         \A i : Opening(i)' <=> Opening(i),
         interrupted \subseteq interrupted', interrupted' \subseteq Items,
         UNCHANGED <<keyOf, active, phase, result, stalled, timer,
                     group, shared, leader, wire, watchers>>,
         cancelled \subseteq cancelled', cancelled' \subseteq Items,
         queue' \in Seq(Items), IsInjective(queue'), ToSet(queue') \subseteq ToSet(queue),
         jobs' \in Seq(Reactions), ToSet(jobs') \subseteq ToSet(jobs),
         signalAborted' \in BOOLEAN, signalAborted' => queue' = <<>>,
         drained' \in BOOLEAN, drained' => drained \/ NothingToCome,
         aborted' \in [Items -> {"no", "cancel", "stall"}],
         \A g \in Items : \/ aborted'[g] = aborted[g]
                          \/ ~dedupe /\ g \in cancelled /\ g \in Running /\ aborted'[g] # "no",
         \A i \in Items : Condemned(i)' => EndIsDue(i)',
         CanStart' => \E f \in Due' : f.op = "pump",
         \A i \in Running : Request(i) = Nobody =>
           \E f \in Due' : f.op = "settle" /\ f.item = i,
         \A f \in Due' : f \in Due \/ FrameAgrees(f)'
  PROVE  BatchInv'
  <1>1. SlotsTaken'
    BY SlotsStayTaken, ElementsOf DEF BatchInv, Typed, Running
  <1>2. Typed'
    BY DEF BatchInv, Typed
  <1>3. /\ Running' = Running /\ dedupe' = dedupe
        /\ \A i : Request(i)' = Request(i)
        /\ \A i : Admitted(i)' <=> Admitted(i)
        /\ \A g : Sharers(g)' = Sharers(g)
    BY DEF Running, dedupe, Request, Admitted, Sharers
  <1>4. PhasesAgree'
    BY <1>1, <1>3 DEF BatchInv, PhasesAgree
  <1>5. FramesAgree'
    <2>1. SUFFICES ASSUME NEW f \in Due', f \in Due
                   PROVE  FrameAgrees(f)'
      BY DEF FramesAgree
    <2>2. FrameAgrees(f)
      BY <2>1 DEF BatchInv, FramesAgree
    <2>3. \A i : Condemned(i) => Condemned(i)'
      BY DEF Condemned
    <2> QED
      BY <1>3, <2>2, <2>3 DEF FrameAgrees
  <1>6. Untouched'
    <2>1. SUFFICES ASSUME NEW i \in Items, Waiting(i)'
                   PROVE  (group[i] = Nobody /\ wire[i] = "none" /\ aborted[i] = "no" /\ leader[i] = i)'
      BY DEF Untouched
    <2>2. Waiting(i)
      BY <1>1, <2>1 DEF Waiting
    <2>3. group[i] = Nobody /\ wire[i] = "none" /\ aborted[i] = "no" /\ leader[i] = i
      BY <2>2 DEF BatchInv, Untouched
    <2>4. i \notin Running
      BY <2>2 DEF BatchInv, PhasesAgree, SlotsTaken, Waiting
    <2> QED
      BY <2>3, <2>4
  <1>7. PumpIsDue'
    <2>1. drained' => NothingToCome'
      <3>1. drained' => NothingToCome
        BY DEF BatchInv, PumpIsDue
      <3>2. ASSUME queue = <<>>
            PROVE  queue' = <<>>
        <4>1. ToSet(queue) = {}
          BY <3>2 DEF ToSet
        <4> QED
          BY <4>1, ElementsOf
      <3> QED
        BY <1>3, <3>1, <3>2 DEF NothingToCome
    <2> QED
      BY <1>3, <2>1 DEF BatchInv, PumpIsDue
  <1>8. Shares'
    BY <1>3 DEF BatchInv, Shares
  <1>9. LeadIn'
    BY <1>3 DEF BatchInv, LeadIn, Typed
  <1>10. ReactionsAgree'
    BY <1>3 DEF BatchInv, ReactionsAgree, Reacts
  <1> QED
    BY <1>1, <1>2, <1>4, <1>5, <1>6, <1>7, <1>8, <1>9, <1>10 DEF BatchInv

\* ... of a method: it goes on with the frames s.
LEMMA MethodMoves ==
  ASSUME BatchInv, ~Quiet, Head(stack).op # "open",
         NEW s \in Seq(Frames), \A f \in ToSet(s) : f.op # "open",
         stack' = s \o Tail(stack),
         UNCHANGED <<queue, active, phase, result, stalled, timer, interrupted,
                     group, shared, leader, wire, watchers, keyOf, signalAborted, jobs>>,
         cancelled \subseteq cancelled', cancelled' \subseteq Items,
         drained' \in BOOLEAN, drained' => drained \/ NothingToCome,
         Head(stack).op = "user" => s = <<>>,
         aborted' \in [Items -> {"no", "cancel", "stall"}],
         \A g \in Items : \/ aborted'[g] = aborted[g]
                          \/ ~dedupe /\ g \in cancelled /\ g \in Running /\ aborted'[g] # "no",
         \A i \in Items : Condemned(i) /\ Ends(Head(stack), i) => \E f \in ToSet(s) : Ends(f, i),
         Head(stack).op = "pump" => ~CanStart,
         Head(stack).op = "settle" => Head(stack).item \notin Running,
         \A f \in ToSet(s) : FrameAgrees(f)'
  PROVE  BatchInv'
  <1>1. stack \in Seq(Frames) /\ StackAgrees /\ interrupted \subseteq Items
    BY DEF BatchInv, Typed
  <1>2. /\ stack' \in Seq(Frames) /\ Due' = ToSet(s) \cup Rest
        /\ StackAgrees' /\ \A i : Opening(i)' <=> Opening(i)
    <2>1. s # <<>> => Starting \subseteq interrupted'
      BY NobodyStarts DEF Innermost
    <2> QED
      BY <1>1, <2>1, GoesOn
  <1>3. Due = {Head(stack)} \cup Rest
    BY <1>1, StackParts
  <1>5. \A i \in Items : Condemned(i)' => EndIsDue(i)'
    <2>1. SUFFICES ASSUME NEW i \in Items, Condemned(i)'
                   PROVE  \E f \in Due' : Ends(f, i)
      BY DEF EndIsDue, Ends
    <2>2. Condemned(i)
      BY <2>1 DEF Condemned
    <2>3. PICK f \in Due : Ends(f, i)
      BY <2>2 DEF BatchInv, PhasesAgree, EndIsDue
    <2> QED
      BY <1>2, <1>3, <2>2, <2>3
  <1>6. CanStart' => \E f \in Due' : f.op = "pump"
    <2>1. CanStart' => CanStart
      BY DEF CanStart, HasRoom
    <2> QED
      BY <1>2, <1>3, <2>1 DEF BatchInv, PumpIsDue
  <1>7. \A i \in Running : Request(i) = Nobody => \E f \in Due' : f.op = "settle" /\ f.item = i
    BY <1>2, <1>3 DEF BatchInv, Shares
  <1>8. \A f \in Due' : f \in Due \/ FrameAgrees(f)'
    BY <1>2, <1>3
  <1> QED
    <2>1. /\ queue' \in Seq(Items) /\ IsInjective(queue') /\ ToSet(queue') \subseteq ToSet(queue)
          /\ jobs' \in Seq(Reactions) /\ ToSet(jobs') \subseteq ToSet(jobs)
          /\ signalAborted' \in BOOLEAN /\ (signalAborted' => queue' = <<>>)
      BY DEF BatchInv, Typed, PumpIsDue
    <2> QED
      BY <1>1, <1>2, <1>5, <1>6, <1>7, <1>8, <2>1, StackMoves

LEMMA UserReturnsKeeps ==
  ASSUME BatchInv, UserReturns
  PROVE  BatchInv'
  <1>1. /\ ~Quiet /\ Head(stack).op = "user" /\ stack' = <<>> \o Tail(stack)
        /\ <<>> \in Seq(Frames) /\ ToSet(<<>>) = {}
        /\ UNCHANGED <<itemVars, requestVars, batchVars, jobs>>
    BY DEF UserReturns, Innermost, Then, ToSet
  <1>2. \A i : ~Ends(Head(stack), i)
    BY <1>1 DEF Ends
  <1> QED
    BY <1>1, <1>2, MethodMoves DEF BatchInv, Typed, itemVars, requestVars, batchVars

LEMMA PumpEndsKeeps ==
  ASSUME BatchInv, PumpEnds
  PROVE  BatchInv'
  <1>1. /\ ~Quiet /\ Head(stack).op = "pump" /\ stack' = <<>> \o Tail(stack)
        /\ <<>> \in Seq(Frames) /\ ToSet(<<>>) = {}
        /\ ~CanStart /\ drained' = (drained \/ NothingLeft)
        /\ UNCHANGED <<itemVars, requestVars, keyOf, signalAborted, interrupted, jobs>>
    BY DEF PumpEnds, Innermost, Then, ToSet
  <1>2. \A i : ~Ends(Head(stack), i)
    BY <1>1 DEF Ends
  <1>3. drained' \in BOOLEAN
    BY <1>1 DEF BatchInv, Typed, NothingLeft
  <1>4. NothingLeft => NothingToCome
    <2>1. ASSUME NEW i \in Items, Opening(i)
          PROVE  i \in interrupted
      BY <1>1, <2>1, StartersBelow DEF BatchInv, Typed, Opening
    <2>2. NothingLeft => queue = <<>> /\ Running = {}
      BY DEF NothingLeft, Running, ToSet
    <2> QED
      BY <2>1, <2>2 DEF NothingToCome
  <1> QED
    BY <1>1, <1>2, <1>3, <1>4, MethodMoves DEF BatchInv, Typed, itemVars, requestVars

LEMMA SettledAlreadyKeeps ==
  ASSUME BatchInv, SettledAlready
  PROVE  BatchInv'
  <1>1. /\ ~Quiet /\ Head(stack).op = "settle" /\ stack' = <<>> \o Tail(stack)
        /\ <<>> \in Seq(Frames) /\ ToSet(<<>>) = {}
        /\ result[Head(stack).item] # "none"
        /\ UNCHANGED <<itemVars, requestVars, batchVars, jobs>>
    BY DEF SettledAlready, Innermost, Then, ToSet
  <1>2. Head(stack).item \in Items
    BY <1>1, StackParts, FrameFields DEF BatchInv, Typed
  <1>3. phase[Head(stack).item] = "settled"
    BY <1>1, <1>2 DEF BatchInv, PhasesAgree
  <1>4. Head(stack).item \notin Running /\ ~Condemned(Head(stack).item)
    BY <1>2, <1>3 DEF BatchInv, PhasesAgree, Condemned
  <1>5. \A i : ~(Condemned(i) /\ Ends(Head(stack), i))
    BY <1>1, <1>4 DEF Ends
  <1> QED
    BY <1>1, <1>4, <1>5, MethodMoves DEF BatchInv, Typed, itemVars, requestVars, batchVars

LEMMA DropOwnKeeps ==
  ASSUME BatchInv, DropOwn
  PROVE  BatchInv'
  <1>0. PICK i : i = Head(stack).item
    OBVIOUS
  <1>1. /\ ~Quiet /\ Head(stack).op = "drop" /\ stack' = <<>> \o Tail(stack)
        /\ <<>> \in Seq(Frames) /\ ToSet(<<>>) = {}
        /\ UNCHANGED <<itemVars, group, shared, leader, wire, watchers, batchVars, jobs>>
        /\ IF ~dedupe /\ i \in Running THEN Abort(i, "cancel") ELSE UNCHANGED aborted
    BY <1>0 DEF DropOwn, Innermost, Then, ToSet
  <1>2. i \in Items /\ i \in cancelled
    <2>1. Head(stack) \in Due /\ Head(stack) \in Frames
      BY <1>1, StackParts DEF BatchInv, Typed
    <2>2. FrameAgrees(Head(stack))
      BY <2>1 DEF BatchInv, FramesAgree
    <2> QED
      BY <1>0, <1>1, <2>1, <2>2, FrameFields DEF FrameAgrees
  <1>3. aborted \in [Items -> {"no", "cancel", "stall"}]
    BY DEF BatchInv, Typed
  <1>4. /\ aborted' \in [Items -> {"no", "cancel", "stall"}]
        /\ \A g \in Items : \/ aborted'[g] = aborted[g]
                            \/ ~dedupe /\ g \in cancelled /\ g \in Running /\ aborted'[g] # "no"
    <2>1. CASE ~dedupe /\ i \in Running
      <3>1. aborted' = [aborted EXCEPT ![i] = IF @ = "no" THEN "cancel" ELSE @]
        BY <1>1, <2>1 DEF Abort
      <3> QED
        BY <1>2, <1>3, <2>1, <3>1
    <2>2. CASE ~(~dedupe /\ i \in Running)
      BY <1>1, <1>3, <2>2
    <2> QED
      BY <2>1, <2>2
  <1>5. \A j : ~Ends(Head(stack), j)
    BY <1>1 DEF Ends
  <1> QED
    BY <1>1, <1>4, <1>5, MethodMoves DEF BatchInv, Typed, itemVars, batchVars

\* A sequence of two.
LEMMA ElementsOfTwo ==
  ASSUME NEW S, NEW x \in S, NEW y \in S
  PROVE  <<x, y>> \in Seq(S) /\ ToSet(<<x, y>>) = {x, y}
  <1>1. DOMAIN <<x, y>> = {1, 2} /\ <<x, y>>[1] = x /\ <<x, y>>[2] = y
    OBVIOUS
  <1> QED
    BY <1>1 DEF ToSet

LEMMA CancelsNextKeeps ==
  ASSUME BatchInv, CancelsNext
  PROVE  BatchInv'
  <1>0. PICK frame, i, wasActive :
          frame = Head(stack) /\ i = Head(frame.items) /\ wasActive = active
    OBVIOUS
  <1> DEFINE queued == frame.op = "cancelQueued"
  <1>1. /\ ~Quiet /\ frame.op \in {"cancelQueued", "cancelActive"}
        /\ UNCHANGED <<queue, active, phase, result, stalled, timer, requestVars, batchVars, jobs>>
        /\ IF frame.items # <<>>
             THEN /\ cancelled' = IF queued /\ result[i] # "none" THEN cancelled
                                  ELSE cancelled \cup {i}
                  /\ stack' = <<IF queued THEN Settle(i, "cancelled") ELSE Do("drop", i),
                                DoAll(frame.op, Tail(frame.items))>> \o Tail(stack)
             ELSE /\ stack' = (IF queued THEN <<DoAll("cancelActive", wasActive)>> ELSE <<>>)
                              \o Tail(stack)
                  /\ UNCHANGED cancelled
    BY <1>0 DEF CancelsNext, Innermost, Then
  <1>2. frame \in Due /\ frame.items \in Seq(Items)
    BY <1>0, <1>1, StackParts, FrameFields DEF BatchInv, Typed
  <1>3. FrameAgrees(frame)
    BY <1>2 DEF BatchInv, FramesAgree
  <1>4. /\ wasActive \in Seq(Items) /\ cancelled \subseteq Items
        /\ drained \in BOOLEAN /\ aborted \in [Items -> {"no", "cancel", "stall"}]
    BY <1>0 DEF BatchInv, Typed
  <1>5. /\ \A j : Condemned(j)' <=> Condemned(j)
        /\ \A j : Admitted(j)' <=> Admitted(j)
        /\ \A j : Request(j)' = Request(j)
        /\ Running' = Running
    BY <1>1 DEF Condemned, Admitted, Request, Running, dedupe, requestVars, batchVars
  <1>6. CASE frame.items # <<>>
    <2> DEFINE f1 == IF queued THEN Settle(i, "cancelled") ELSE Do("drop", i)
               f2 == DoAll(frame.op, Tail(frame.items))
    <2>1. /\ i \in Items /\ Tail(frame.items) \in Seq(Items)
          /\ ToSet(frame.items) = {i} \cup ToSet(Tail(frame.items))
      BY <1>0, <1>2, <1>6, ElementsOf
    <2>2. f1 \in Frames /\ f2 \in Frames
      <3>1. "cancelled" \in Results \ {"none"}
        BY DEF Results
      <3> QED
        BY <1>1, <2>1, <3>1, NewFrames
    <2>3. <<f1, f2>> \in Seq(Frames) /\ ToSet(<<f1, f2>>) = {f1, f2}
      BY <2>2, ElementsOfTwo
    <2>4. cancelled \subseteq cancelled' /\ cancelled' \subseteq Items
      BY <1>1, <1>4, <1>6, <2>1
    <2>5. FrameAgrees(f1)'
      <3>1. CASE queued
        <4>1. Condemned(i) \/ phase[i] = "settled"
          BY <1>3, <2>1, <3>1 DEF FrameAgrees
        <4>2. Admitted(i)' \/ Condemned(i)'
          BY <1>5, <4>1 DEF Admitted
        <4>3. i \notin Running
          BY <2>1, <4>1 DEF BatchInv, PhasesAgree, Condemned
        <4>4. f1.op = "settle" /\ f1.item = i /\ f1.result = "cancelled"
          BY <3>1 DEF Settle
        <4> QED
          BY <1>5, <4>2, <4>3, <4>4 DEF FrameAgrees
      <3>2. CASE ~queued
        <4>1. Admitted(i)
          BY <1>1, <1>3, <2>1, <3>2 DEF FrameAgrees
        <4>2. i \in cancelled'
          BY <1>1, <1>6, <3>2
        <4>3. f1.op = "drop" /\ f1.item = i
          BY <3>2 DEF Do
        <4> QED
          BY <1>5, <4>1, <4>2, <4>3 DEF FrameAgrees
      <3> QED
        BY <3>1, <3>2
    <2>6. FrameAgrees(f2)'
      <3>1. /\ f2.op = frame.op /\ f2.items = Tail(frame.items)
            /\ \A j \in ToSet(f2.items) : j \in ToSet(frame.items)
        BY <2>1 DEF DoAll
      <3> QED
        BY <1>1, <1>3, <1>5, <3>1 DEF FrameAgrees
    <2>7. \A j \in Items : Condemned(j) /\ Ends(frame, j) => Ends(f1, j) \/ Ends(f2, j)
      <3>1. queued => f1.op = "settle" /\ f1.item = i /\ f2.op = "cancelQueued"
                      /\ f2.items = Tail(frame.items)
        BY DEF Settle, DoAll
      <3> QED
        BY <1>1, <2>1, <3>1 DEF Ends
    <2>8. f1.op # "open" /\ f2.op # "open"
      BY <1>1 DEF Settle, Do, DoAll
    <2>9. stack' = <<f1, f2>> \o Tail(stack)
      BY <1>1, <1>6
    <2> HIDE DEF f1, f2, queued
    <2> QED
      BY <1>0, <1>1, <1>4, <2>3, <2>4, <2>5, <2>6, <2>7, <2>8, <2>9, MethodMoves
         DEF requestVars, batchVars
  <1>7. CASE frame.items = <<>>
    <2> DEFINE s == IF queued THEN <<DoAll("cancelActive", wasActive)>> ELSE <<>>
    <2>1. /\ s \in Seq(Frames)
          /\ ToSet(s) \subseteq {DoAll("cancelActive", wasActive)}
      <3>1. CASE queued
        BY <1>4, <3>1, NewFrames, ElementsOfOne
      <3>2. CASE ~queued
        BY <3>2 DEF ToSet
      <3> QED
        BY <3>1, <3>2
    <2>2. \A f \in ToSet(s) : f.op # "open" /\ FrameAgrees(f)'
      <3>1. /\ DoAll("cancelActive", wasActive).op = "cancelActive"
            /\ DoAll("cancelActive", wasActive).items = wasActive
        BY DEF DoAll
      <3>2. \A j \in ToSet(wasActive) : Admitted(j)'
        BY <1>0, <1>5 DEF Admitted, Running
      <3> QED
        BY <2>1, <3>1, <3>2 DEF FrameAgrees
    <2>3. \A j : ~Ends(frame, j)
      BY <1>1, <1>7 DEF Ends, ToSet
    <2>4. stack' = s \o Tail(stack) /\ cancelled' = cancelled
      BY <1>1, <1>7
    <2> HIDE DEF s, queued
    <2> QED
      BY <1>0, <1>1, <1>4, <2>1, <2>2, <2>3, <2>4, MethodMoves
         DEF requestVars, batchVars
  <1> QED
    BY <1>6, <1>7

\* ... of the user, between two tasks or from a callback, with the frames s of what was called.
LEMMA UserGoesOn ==
  ASSUME stack \in Seq(Frames), StackAgrees, UserRuns, interrupted \subseteq Items, Interrupts,
         NEW s \in Seq(Frames), \A f \in ToSet(s) : f.op # "open",
         stack' = s \o AfterCallback
  PROVE  /\ stack' \in Seq(Frames)
         /\ Due' = ToSet(s) \cup Rest
         /\ StackAgrees'
         /\ \A i : Opening(i)' <=> Opening(i)
         /\ interrupted \subseteq interrupted' /\ interrupted' \subseteq Items
         /\ Rest \subseteq Due /\ \A f \in Due : f \in Rest \/ f.op = "user"
  <1>1. \/ ~Quiet /\ Head(stack).op # "open" /\ stack' = s \o Tail(stack)
        \/ Quiet /\ stack' = s
    <2>1. CASE Quiet
      <3>1. s \o <<>> = s
        BY ConcatEmptySeq
      <3> QED
        BY <2>1, <3>1 DEF AfterCallback
    <2>2. CASE ~Quiet
      BY <2>2 DEF AfterCallback, UserRuns, Innermost
    <2> QED
      BY <2>1, <2>2
  <1>2. interrupted \subseteq interrupted' /\ Starting \subseteq interrupted'
    BY DEF Interrupts
  <1>3. \A f \in Due : f \in Rest \/ f.op = "user"
    BY StackParts DEF UserRuns, Innermost
  <1>4. Starting \subseteq Items
    <2>1. SUFFICES ASSUME Innermost("user"), Tail(stack) # <<>>, Head(Tail(stack)).op = "open"
                   PROVE  Head(Tail(stack)).item \in Items
      BY DEF Starting
    <2>2. Tail(stack) \in Seq(Frames)
      BY <2>1, StackParts DEF Innermost
    <2>3. Head(Tail(stack)) \in Frames
      BY <2>1, <2>2, ElementsOf
    <2> QED
      BY <2>1, <2>3, FrameFields
  <1>5. interrupted' \subseteq Items
    BY <1>4 DEF Interrupts
  <1> QED
    BY <1>1, <1>2, <1>3, <1>5, GoesOn, StackParts

\* What is left of nothing is nothing.
LEMMA NothingStays ==
  ASSUME NEW S, NEW s \in Seq(S), NEW t \in Seq(S), ToSet(t) \subseteq ToSet(s), t # <<>>
  PROVE  s # <<>>
  <1>1. ToSet(t) # {}
    BY ElementsOf
  <1>2. ToSet(s) # {}
    BY <1>1
  <1> QED
    BY <1>2, ElementsOf

\* Nobody the user's frame kept is without one.
LEMMA StillDue ==
  ASSUME BatchInv, Rest \subseteq Due',
         \A f \in Due : f \in Rest \/ f.op = "user"
  PROVE  /\ \A i \in Items : Condemned(i) => EndIsDue(i)'
         /\ CanStart => \E f \in Due' : f.op = "pump"
         /\ \A i \in Running : Request(i) = Nobody =>
              \E f \in Due' : f.op = "settle" /\ f.item = i
  <1>1. \A i \in Items : Condemned(i) => EndIsDue(i)'
    BY DEF BatchInv, PhasesAgree, EndIsDue, Ends
  <1>2. CanStart => \E f \in Due' : f.op = "pump"
    BY DEF BatchInv, PumpIsDue
  <1>3. \A i \in Running : Request(i) = Nobody => \E f \in Due' : f.op = "settle" /\ f.item = i
    BY DEF BatchInv, Shares
  <1> QED
    BY <1>1, <1>2, <1>3

LEMMA CancelKeeps ==
  ASSUME BatchInv, NEW i \in Items, Cancel(i)
  PROVE  BatchInv'
  <1>1. /\ UserRuns /\ Interrupts /\ phase[i] # "new" /\ result[i] = "none"
        /\ cancelled' = cancelled \cup {i}
        /\ UNCHANGED <<active, phase, result, stalled, timer, requestVars,
                       keyOf, signalAborted, drained, jobs>>
    BY DEF Cancel
  <1>2. /\ stack \in Seq(Frames) /\ StackAgrees /\ interrupted \subseteq Items /\ cancelled \subseteq Items
        /\ queue \in Seq(Items) /\ IsInjective(queue)
        /\ jobs \in Seq(Reactions) /\ phase \in [Items -> Phases]
        /\ signalAborted \in BOOLEAN /\ drained \in BOOLEAN
        /\ aborted \in [Items -> {"no", "cancel", "stall"}]
        /\ (signalAborted => queue = <<>>)
    BY DEF BatchInv, Typed, PumpIsDue
  <1>3. /\ \A j : Request(j)' = Request(j)
        /\ Running' = Running
        /\ \A j : Admitted(j)' <=> Admitted(j)
    BY <1>1 DEF Request, dedupe, Running, Admitted, requestVars
  <1>4. CASE phase[i] = "active"
    <2> DEFINE f1 == Do("drop", i)
    <2>1. /\ f1 \in Frames /\ f1.op = "drop" /\ f1.item = i
          /\ <<f1>> \in Seq(Frames) /\ ToSet(<<f1>>) = {f1}
      <3>1. f1 \in Frames
        BY NewFrames
      <3> QED
        BY <3>1, ElementsOfOne DEF Do
    <2>2. stack' = <<f1>> \o AfterCallback /\ queue' = queue
      BY <1>4 DEF Cancel
    <2> HIDE DEF f1
    <2>3. /\ stack' \in Seq(Frames) /\ Due' = {f1} \cup Rest
          /\ StackAgrees' /\ \A j : Opening(j)' <=> Opening(j)
          /\ interrupted \subseteq interrupted' /\ interrupted' \subseteq Items
          /\ Rest \subseteq Due /\ \A f \in Due : f \in Rest \/ f.op = "user"
      BY <1>1, <1>2, <2>1, <2>2, UserGoesOn
    <2>4. FrameAgrees(f1)'
      <3>1. Admitted(i) \/ Opening(i)
        BY <1>4 DEF BatchInv, PhasesAgree, Admitted
      <3> QED
        BY <1>1, <1>3, <2>1, <2>3, <3>1 DEF FrameAgrees
    <2>5. /\ \A j \in Items : Condemned(j)' => Condemned(j)
          /\ CanStart' => CanStart
      BY <1>1, <2>2 DEF Condemned, CanStart, HasRoom
    <2>6. \A f \in Due' : f \in Due \/ FrameAgrees(f)'
      BY <2>3, <2>4
    <2>7. Rest \subseteq Due'
      BY <2>3
    <2> QED
      BY <1>1, <1>2, <2>2, <2>3, <2>5, <2>6, <2>7, StillDue, StackMoves DEF requestVars
  <1>5. CASE phase[i] # "active"
    <2>1. phase[i] = "queued"
      BY <1>1, <1>2, <1>5 DEF BatchInv, PhasesAgree, Phases
    <2> DEFINE f1 == Settle(i, "cancelled")
    <2>2. /\ f1 \in Frames /\ f1.op = "settle" /\ f1.item = i /\ f1.result = "cancelled"
          /\ <<f1>> \in Seq(Frames) /\ ToSet(<<f1>>) = {f1}
      <3>1. f1 \in Frames
        BY NewFrames DEF Results
      <3> QED
        BY <3>1, ElementsOfOne DEF Settle
    <2>3. stack' = <<f1>> \o AfterCallback /\ queue' = RemoveFirst(queue, i)
      BY <1>5 DEF Cancel, Unqueue
    <2> HIDE DEF f1
    <2>4. /\ stack' \in Seq(Frames) /\ Due' = {f1} \cup Rest
          /\ StackAgrees' /\ \A j : Opening(j)' <=> Opening(j)
          /\ interrupted \subseteq interrupted' /\ interrupted' \subseteq Items
          /\ Rest \subseteq Due /\ \A f \in Due : f \in Rest \/ f.op = "user"
      BY <1>1, <1>2, <2>2, <2>3, UserGoesOn
    <2>5. queue' \in Seq(Items) /\ IsInjective(queue') /\ ToSet(queue') = ToSet(queue) \ {i}
      BY <1>2, <2>3, ElementsOfRemove
    <2>6. queue' # <<>> => queue # <<>>
      BY <1>2, <2>5, NothingStays
    <2>7. FrameAgrees(f1)'
      <3>1. Condemned(i)'
        BY <1>1, <2>1, <2>5 DEF Condemned
      <3>2. i \notin Running
        BY <2>1 DEF BatchInv, PhasesAgree
      <3> QED
        BY <1>3, <2>2, <3>1, <3>2 DEF FrameAgrees
    <2>8. \A j \in Items : Condemned(j)' => EndIsDue(j)'
      <3>1. SUFFICES ASSUME NEW j \in Items, Condemned(j)'
                     PROVE  EndIsDue(j)'
        OBVIOUS
      <3>2. CASE j = i
        BY <2>2, <2>4, <3>2 DEF EndIsDue, Ends
      <3>3. CASE j # i
        <4>1. Condemned(j)
          BY <1>1, <2>5, <3>1, <3>3 DEF Condemned
        <4> QED
          BY <2>4, <4>1, StillDue
      <3> QED
        BY <3>2, <3>3
    <2>9. CanStart' => CanStart
      BY <1>1, <2>6 DEF CanStart, HasRoom
    <2>10. \A f \in Due' : f \in Due \/ FrameAgrees(f)'
      BY <2>4, <2>7
    <2>11. Rest \subseteq Due' /\ ToSet(queue') \subseteq ToSet(queue)
      BY <2>4, <2>5
    <2> QED
      BY <1>1, <1>2, <2>4, <2>5, <2>6, <2>8, <2>9, <2>10, <2>11, StillDue, StackMoves
         DEF requestVars
  <1> QED
    BY <1>4, <1>5

LEMMA CancelAllKeeps ==
  ASSUME BatchInv, CancelAll, UNCHANGED <<keyOf, drained>>, signalAborted' \in BOOLEAN
  PROVE  BatchInv'
  <1>0. PICK q : q = queue
    OBVIOUS
  <1> DEFINE f1 == DoAll("cancelQueued", q)
  <1>1. /\ UserRuns /\ Interrupts /\ stack' = <<f1>> \o AfterCallback /\ queue' = <<>>
        /\ UNCHANGED <<active, phase, result, cancelled, stalled, timer, requestVars, jobs>>
    BY <1>0 DEF CancelAll
  <1>2. /\ stack \in Seq(Frames) /\ StackAgrees /\ interrupted \subseteq Items
        /\ cancelled \subseteq Items
        /\ q \in Seq(Items) /\ jobs \in Seq(Reactions) /\ drained \in BOOLEAN
        /\ aborted \in [Items -> {"no", "cancel", "stall"}]
    BY <1>0 DEF BatchInv, Typed
  <1>3. /\ f1 \in Frames /\ f1.op = "cancelQueued" /\ f1.items = q
        /\ <<f1>> \in Seq(Frames) /\ ToSet(<<f1>>) = {f1}
    <2>1. f1 \in Frames
      BY <1>2, NewFrames
    <2> QED
      BY <2>1, ElementsOfOne DEF DoAll
  <1> HIDE DEF f1
  <1>4. /\ stack' \in Seq(Frames) /\ Due' = {f1} \cup Rest
        /\ StackAgrees' /\ \A j : Opening(j)' <=> Opening(j)
        /\ interrupted \subseteq interrupted' /\ interrupted' \subseteq Items
        /\ Rest \subseteq Due /\ \A f \in Due : f \in Rest \/ f.op = "user"
    BY <1>1, <1>2, <1>3, UserGoesOn
  <1>5. queue' \in Seq(Items) /\ IsInjective(queue') /\ ToSet(queue') = {}
    BY <1>1 DEF ToSet, IsInjective
  <1>6. FrameAgrees(f1)'
    <2>1. \A j \in ToSet(q) : j \in Items /\ phase[j] = "queued"
      BY <1>0, <1>2, ElementsOf DEF BatchInv, PhasesAgree
    <2>2. \A j \in ToSet(q) : Condemned(j)'
      BY <1>1, <1>5, <2>1 DEF Condemned
    <2> QED
      BY <1>3, <2>2 DEF FrameAgrees
  <1>7. \A j \in Items : Condemned(j)' => EndIsDue(j)'
    <2>1. SUFFICES ASSUME NEW j \in Items, Condemned(j)'
                   PROVE  EndIsDue(j)'
      OBVIOUS
    <2>2. phase[j] = "queued"
      BY <1>1, <2>1 DEF Condemned
    <2>3. CASE j \in ToSet(q)
      BY <1>3, <1>4, <2>3 DEF EndIsDue, Ends
    <2>4. CASE j \notin ToSet(q)
      <3>1. Condemned(j)
        BY <1>0, <2>2, <2>4 DEF Condemned
      <3> QED
        BY <1>4, <3>1, StillDue
    <2> QED
      BY <2>3, <2>4
  <1>8. ~CanStart'
    BY <1>1 DEF CanStart
  <1>9. \A f \in Due' : f \in Due \/ FrameAgrees(f)'
    BY <1>4, <1>6
  <1>10. Rest \subseteq Due' /\ ToSet(queue') \subseteq ToSet(queue)
    BY <1>4, <1>5
  <1> QED
    BY <1>1, <1>2, <1>4, <1>5, <1>7, <1>8, <1>9, <1>10, StillDue, StackMoves DEF requestVars

LEMMA ReactKeeps ==
  ASSUME BatchInv, React
  PROVE  BatchInv'
  <1>0. PICK g, i, r : /\ g = Head(jobs)[1] /\ i = Head(jobs)[2]
                       /\ r = IF wire[g] = "resolved" THEN "fulfilled" ELSE Verdict(g, i)
    OBVIOUS
  <1> DEFINE f1 == Settle(i, r)
  <1>1. /\ Quiet /\ jobs # <<>> /\ i # Nobody /\ jobs' = Tail(jobs) /\ stack' = <<f1>>
        /\ UNCHANGED <<itemVars, requestVars, batchVars>>
    BY <1>0 DEF React
  <1>2. /\ stack \in Seq(Frames) /\ StackAgrees /\ cancelled \subseteq Items
        /\ interrupted \subseteq Items
        /\ queue \in Seq(Items) /\ IsInjective(queue) /\ jobs \in Seq(Reactions)
        /\ signalAborted \in BOOLEAN /\ drained \in BOOLEAN
        /\ aborted \in [Items -> {"no", "cancel", "stall"}]
        /\ (signalAborted => queue = <<>>)
    BY DEF BatchInv, Typed, PumpIsDue
  <1>3. /\ g \in Items /\ i \in Items /\ <<g, i>> \in ToSet(jobs)
        /\ jobs' \in Seq(Reactions) /\ ToSet(jobs') \subseteq ToSet(jobs)
    <2>1. /\ Head(jobs) \in Reactions /\ Tail(jobs) \in Seq(Reactions)
          /\ Head(jobs) \in ToSet(jobs) /\ ToSet(Tail(jobs)) \subseteq ToSet(jobs)
      BY <1>1, <1>2, ElementsOf
    <2>2. Head(jobs) = <<g, i>> /\ g \in Items /\ i \in Items \cup {Nobody}
      BY <1>0, <2>1 DEF Reactions
    <2> QED
      BY <1>1, <2>1, <2>2
  <1>4. wire[g] \in {"resolved", "rejected"} /\ Admitted(i) /\ (i \in Running => Request(i) \in {g, Nobody})
    BY <1>3 DEF BatchInv, ReactionsAgree, Reacts
  <1>5. Due = {} /\ Rest = {} /\ Starting = {}
    BY <1>1, <1>2, StackParts, NobodyStarts DEF Innermost
  <1>6. \A j \in Running : Request(j) # Nobody
    BY <1>5 DEF BatchInv, Shares
  <1>7. r \in Results \ {"none"} /\ (r = "pulled" => aborted[g] = "cancel" /\ i \notin cancelled)
    <2>1. CASE wire[g] = "resolved"
      BY <1>0, <2>1 DEF Results
    <2>2. CASE wire[g] # "resolved"
      <3>1. CASE i \in cancelled
        BY <1>0, <2>2, <3>1 DEF Verdict, Results
      <3>2. CASE i \notin cancelled /\ i \in stalled
        BY <1>0, <2>2, <3>2 DEF Verdict, Results
      <3>3. CASE i \notin cancelled \cup stalled
        BY <1>0, <2>2, <3>3 DEF Verdict, Results
      <3> QED
        BY <3>1, <3>2, <3>3
    <2> QED
      BY <2>1, <2>2
  <1>8. r = "pulled" => phase[i] = "settled"
    <2>1. SUFFICES ASSUME aborted[g] = "cancel", i \notin cancelled, i \in Running
                   PROVE  FALSE
      BY <1>4, <1>7 DEF Admitted
    <2>2. Request(i) = g
      BY <1>4, <1>6, <2>1
    <2>3. CASE dedupe
      BY <1>3, <2>1, <2>2, <2>3 DEF BatchInv, Shares, Sharers, Request
    <2>4. CASE ~dedupe
      BY <1>3, <2>1, <2>2, <2>4 DEF BatchInv, Shares, Request
    <2> QED
      BY <2>3, <2>4
  <1>9. /\ <<f1>> \in Seq(Frames) /\ ToSet(<<f1>>) = {f1}
        /\ f1.op = "settle" /\ f1.item = i /\ f1.result = r
    <2>1. f1 \in Frames
      BY <1>3, <1>7, NewFrames
    <2> QED
      BY <2>1, ElementsOfOne DEF Settle
  <1> HIDE DEF f1
  <1>10. /\ stack' \in Seq(Frames) /\ Due' = {f1}
         /\ StackAgrees' /\ \A j : Opening(j)' <=> Opening(j)
    <2> DEFINE s == <<f1>>
    <2>1. s \in Seq(Frames) /\ ToSet(s) = {f1} /\ \A f \in ToSet(s) : f.op # "open"
      BY <1>9
    <2>2. stack' = s /\ interrupted' = interrupted
      BY <1>1 DEF batchVars
    <2> HIDE DEF s
    <2> QED
      BY <1>1, <1>2, <1>5, <2>1, <2>2, GoesOn
  <1>11. FrameAgrees(f1)'
    <2>1. /\ Admitted(i)' /\ Running' = Running /\ Request(i)' = Request(i)
          /\ wire' = wire /\ phase' = phase
      BY <1>1, <1>4 DEF Admitted, Running, Request, dedupe, itemVars, requestVars, batchVars
    <2>2. i \in Running => wire[Request(i)] # "open"
      BY <1>4, <1>6
    <2> QED
      BY <1>8, <1>9, <2>1, <2>2 DEF FrameAgrees
  <1>12. /\ \A j \in Items : ~Condemned(j)'
         /\ ~CanStart'
    <2>1. /\ \A j \in Items : Condemned(j)' => Condemned(j)
          /\ CanStart' => CanStart
      BY <1>1 DEF Condemned, CanStart, HasRoom, itemVars, batchVars
    <2>2. /\ \A j \in Items : ~Condemned(j)
          /\ ~CanStart
      BY <1>5 DEF BatchInv, PhasesAgree, EndIsDue, PumpIsDue
    <2> QED
      BY <2>1, <2>2
  <1>13. \A f \in Due' : FrameAgrees(f)'
    BY <1>9, <1>10, <1>11
  <1> QED
    BY <1>1, <1>2, <1>3, <1>5, <1>6, <1>10, <1>12, <1>13, StackMoves
       DEF itemVars, requestVars, batchVars

-------------------------------------------------------------------------------
(***************************************************************************)
(* Steps between two methods: nothing is due, neither before nor after.    *)
(***************************************************************************)
LEMMA QuietMoves ==
  ASSUME BatchInv, Quiet, timer' \subseteq Running,
         UNCHANGED <<keyOf, queue, active, phase, result, cancelled, group,
                     signalAborted, drained, interrupted, stack>>
  PROVE  /\ PhasesAgree' /\ StackAgrees' /\ SlotsTaken' /\ FramesAgree' /\ PumpIsDue'
         /\ \A i : (Waiting(i)' <=> Waiting(i)) /\ (Waiting(i) /\ i \in Items => i \notin Running)
         /\ dedupe' = dedupe /\ Running' = Running
         /\ \A i : (Admitted(i)' <=> Admitted(i)) /\ Request(i)' = Request(i)
         /\ \A g : Sharers(g)' = Sharers(g)
         /\ \A i \in Running : i \in Items /\ Request(i) \in Items
         /\ Due' = Due
  <1>1. Due = {} /\ Due' = {} /\ Rest' = {} /\ Quiet'
    BY StackParts DEF BatchInv, Typed, Due, Rest, Quiet
  <1>2. \A i : ~Opening(i) /\ ~Opening(i)'
    BY <1>1 DEF Opening
  <1>3. /\ dedupe' = dedupe /\ Running' = Running
        /\ \A i : (Admitted(i)' <=> Admitted(i)) /\ Request(i)' = Request(i)
        /\ \A g : Sharers(g)' = Sharers(g)
    BY DEF dedupe, Running, Admitted, Request, Sharers
  <1>4. PhasesAgree'
    BY <1>1, <1>2, <1>3 DEF BatchInv, PhasesAgree, Condemned, EndIsDue
  <1>5. StackAgrees' /\ SlotsTaken' /\ FramesAgree'
    <2>1. StackAgrees' /\ FramesAgree'
      BY <1>1 DEF BatchInv, StackAgrees, FramesAgree
    <2>2. SlotsTaken'
      BY <1>2, <1>3, SlotsStayTaken, ElementsOf DEF BatchInv, Typed, Running
    <2> QED
      BY <2>1, <2>2
  <1>6. PumpIsDue'
    BY <1>1, <1>2, <1>3 DEF BatchInv, PumpIsDue, CanStart, HasRoom, NothingToCome
  <1>7. \A i : (Waiting(i)' <=> Waiting(i)) /\ (Waiting(i) /\ i \in Items => i \notin Running)
    BY <1>2 DEF Waiting, BatchInv, PhasesAgree
  <1>8. \A i \in Running : i \in Items /\ Request(i) \in Items
    <2>1. SUFFICES ASSUME NEW i \in Running
                   PROVE  i \in Items /\ Request(i) \in Items
      OBVIOUS
    <2>2. i \in Items
      BY ElementsOf DEF BatchInv, Typed, Running
    <2>3. Request(i) # Nobody
      BY <1>1 DEF BatchInv, Shares
    <2>4. Request(i) \in Items \cup {Nobody}
      BY <2>2 DEF BatchInv, Typed, Request
    <2> QED
      BY <2>2, <2>3, <2>4
  <1> QED
    BY <1>1, <1>3, <1>4, <1>5, <1>6, <1>7, <1>8

LEMMA ChunkKeeps ==
  ASSUME BatchInv, NEW g \in Items, Chunk(g)
  PROVE  BatchInv'
  <1>1. /\ Quiet /\ timer \subseteq timer' /\ timer' \subseteq Running
        /\ UNCHANGED <<queue, active, phase, result, cancelled, stalled, requestVars,
                       batchVars, jobs, stack>>
    BY DEF Chunk, BatchInv, PumpIsDue
  <1>2. Typed'
    BY <1>1 DEF BatchInv, Typed, requestVars, batchVars
  <1>3. /\ PhasesAgree' /\ StackAgrees' /\ SlotsTaken' /\ FramesAgree' /\ PumpIsDue'
        /\ \A i : (Waiting(i)' <=> Waiting(i))
        /\ dedupe' = dedupe /\ Running' = Running
        /\ \A i : (Admitted(i)' <=> Admitted(i)) /\ Request(i)' = Request(i)
        /\ \A h : Sharers(h)' = Sharers(h)
        /\ Due' = Due
    BY <1>1, QuietMoves DEF requestVars, batchVars
  <1>4. Untouched'
    BY <1>1, <1>3 DEF BatchInv, Untouched, requestVars
  <1>5. Shares'
    BY <1>1, <1>3 DEF BatchInv, Shares, requestVars, batchVars
  <1>6. LeadIn'
    BY <1>1, <1>3 DEF BatchInv, LeadIn, requestVars
  <1>7. ReactionsAgree'
    BY <1>1, <1>3 DEF BatchInv, ReactionsAgree, Reacts, requestVars
  <1> QED
    BY <1>2, <1>3, <1>4, <1>5, <1>6, <1>7 DEF BatchInv

LEMMA ExpireKeeps ==
  ASSUME BatchInv, NEW i \in Items, Expire(i)
  PROVE  BatchInv'
  <1>0. PICK r : r = Request(i)
    OBVIOUS
  <1>1. /\ Quiet /\ i \in timer /\ timer' = timer \ {i}
        /\ stalled' = stalled \cup {i}
        /\ aborted' = [aborted EXCEPT ![r] = IF @ = "no" THEN "stall" ELSE @]
        /\ UNCHANGED <<queue, active, phase, result, cancelled,
                       group, shared, leader, wire, watchers, batchVars, jobs, stack>>
    BY <1>0 DEF Expire, Abort
  <1>2. timer \subseteq Running /\ timer' \subseteq Running /\ i \in Running
    BY <1>1 DEF BatchInv, PumpIsDue
  <1>3. /\ PhasesAgree' /\ StackAgrees' /\ SlotsTaken' /\ FramesAgree' /\ PumpIsDue'
        /\ \A j : (Waiting(j)' <=> Waiting(j)) /\ (Waiting(j) /\ j \in Items => j \notin Running)
        /\ dedupe' = dedupe /\ Running' = Running
        /\ \A j : (Admitted(j)' <=> Admitted(j)) /\ Request(j)' = Request(j)
        /\ \A h : Sharers(h)' = Sharers(h)
        /\ \A j \in Running : j \in Items /\ Request(j) \in Items
        /\ Due' = Due
    BY <1>1, <1>2, QuietMoves DEF batchVars
  <1>4. aborted \in [Items -> {"no", "cancel", "stall"}] /\ r \in Items
    BY <1>0, <1>2, <1>3 DEF BatchInv, Typed
  <1>5. /\ aborted' \in [Items -> {"no", "cancel", "stall"}]
        /\ aborted'[r] # "no"
        /\ \A g \in Items : g # r => aborted'[g] = aborted[g]
        /\ \A g \in Items : aborted'[g] = "cancel" <=> aborted[g] = "cancel"
        /\ \A g \in Items : aborted'[g] = "no" => aborted[g] = "no" /\ g # r
    BY <1>1, <1>4
  <1>6. Typed'
    BY <1>1, <1>5 DEF BatchInv, Typed, batchVars
  <1>7. Untouched'
    <2>1. ASSUME NEW j \in Items, Waiting(j)
          PROVE  j # r
      <3>1. wire[j] = "none" /\ j \notin Running
        BY <1>3, <2>1 DEF BatchInv, Untouched
      <3>2. CASE dedupe
        BY <1>0, <1>2, <1>3, <1>4, <3>1, <3>2 DEF BatchInv, Shares, Request, Nobody, Items
      <3>3. CASE ~dedupe
        BY <1>0, <1>2, <3>1, <3>3 DEF Request
      <3> QED
        BY <3>2, <3>3
    <2> QED
      BY <1>1, <1>3, <1>5, <2>1 DEF BatchInv, Untouched
  <1>8. Shares'
    BY <1>1, <1>3, <1>5 DEF BatchInv, Shares, batchVars
  <1>9. LeadIn'
    <2>1. SUFFICES ASSUME NEW g \in Items, wire[g] = "open", aborted'[g] = "no"
                   PROVE  leader[g] \in timer' /\ leader[g] \in Running /\ Request(leader[g]) = g
      BY <1>1, <1>3 DEF LeadIn
    <2>2. leader[g] \in timer /\ leader[g] \in Running /\ Request(leader[g]) = g /\ g # r
      BY <1>5, <2>1 DEF BatchInv, LeadIn
    <2> QED
      BY <1>0, <1>1, <2>2
  <1>10. ReactionsAgree'
    BY <1>1, <1>3 DEF BatchInv, ReactionsAgree, Reacts
  <1> QED
    BY <1>3, <1>6, <1>7, <1>8, <1>9, <1>10 DEF BatchInv

LEMMA ReplyKeeps ==
  ASSUME BatchInv, NEW g \in Items, Reply(g)
  PROVE  BatchInv'
  <1>1. PICK outcome \in {"resolved", "rejected"} : wire' = [wire EXCEPT ![g] = outcome]
    BY DEF Reply
  <1>2. /\ Quiet /\ wire[g] = "open"
        /\ jobs' = jobs \o <<<<g, Nobody>>>> \o [n \in DOMAIN watchers[g] |-> <<g, watchers[g][n]>>]
        /\ watchers' = [watchers EXCEPT ![g] = <<>>]
        /\ UNCHANGED <<itemVars, group, shared, leader, aborted, batchVars, stack>>
    BY DEF Reply
  <1>3. /\ jobs \in Seq(Reactions) /\ watchers \in [Items -> Seq(Items)]
        /\ wire \in [Items -> {"none", "open", "resolved", "rejected"}]
        /\ timer \subseteq Running
    BY DEF BatchInv, Typed, PumpIsDue
  <1>4. /\ PhasesAgree' /\ StackAgrees' /\ SlotsTaken' /\ FramesAgree' /\ PumpIsDue'
        /\ \A j : (Waiting(j)' <=> Waiting(j))
        /\ dedupe' = dedupe /\ Running' = Running
        /\ \A j : (Admitted(j)' <=> Admitted(j)) /\ Request(j)' = Request(j)
        /\ \A h : Sharers(h)' = Sharers(h)
        /\ Due' = Due
    BY <1>2, <1>3, QuietMoves DEF itemVars, batchVars
  <1>5. /\ wire' \in [Items -> {"none", "open", "resolved", "rejected"}]
        /\ wire'[g] \in {"resolved", "rejected"}
        /\ \A h \in Items : h # g => wire'[h] = wire[h]
        /\ \A h \in Items : wire'[h] = "open" => wire[h] = "open"
        /\ \A h \in Items : wire[h] # "none" => wire'[h] # "none"
        /\ \A h \in Items : wire[h] = "none" => wire'[h] = "none"
    BY <1>1, <1>2, <1>3
  <1>6. /\ jobs' \in Seq(Reactions)
        /\ ToSet(jobs') = ToSet(jobs) \cup {<<g, Nobody>>} \cup {<<g, i>> : i \in ToSet(watchers[g])}
    BY <1>2, <1>3, ReactionsDue
  <1>7. /\ watchers' \in [Items -> Seq(Items)]
        /\ \A h \in Items : h # g => watchers'[h] = watchers[h]
        /\ watchers'[g] = <<>>
    BY <1>2, <1>3
  <1>8. Typed'
    BY <1>2, <1>5, <1>6, <1>7 DEF BatchInv, Typed, itemVars, batchVars
  <1>9. Untouched'
    BY <1>2, <1>4, <1>5 DEF BatchInv, Untouched
  <1>10. Shares'
    <2>1. /\ \A i \in Items : group[i] # Nobody => group[i] \in Items
          /\ \A k \in Keys : shared[k] # Nobody => shared[k] \in Items
      BY DEF BatchInv, Typed
    <2> QED
      BY <1>2, <1>4, <1>5, <2>1 DEF BatchInv, Shares, itemVars, batchVars
  <1>11. LeadIn'
    BY <1>2, <1>4, <1>5 DEF BatchInv, LeadIn, itemVars
  <1>12. ReactionsAgree'
    <2>1. ASSUME NEW h \in Items, NEW i \in Items, Reacts(h, i)'
          PROVE  Reacts(h, i)
      <3>1. i # Nobody
        BY DEF Items, Nobody
      <3>2. CASE h = g
        <4>1. i \notin ToSet(<<>>)
          BY DEF ToSet
        <4>2. <<g, i>> \in ToSet(jobs')
          BY <1>7, <2>1, <3>2, <4>1 DEF Reacts
        <4> QED
          BY <1>6, <3>1, <3>2, <4>2 DEF Reacts
      <3>3. CASE h # g
        BY <1>6, <1>7, <2>1, <3>3 DEF Reacts
      <3> QED
        BY <3>2, <3>3
    <2>2. ASSUME NEW h \in Items, NEW i \in Items \cup {Nobody}, <<h, i>> \in ToSet(jobs')
          PROVE  wire'[h] \in {"resolved", "rejected"}
      <3>1. CASE h = g
        BY <1>5, <3>1
      <3>2. CASE h # g
        BY <1>5, <1>6, <2>2, <3>2 DEF BatchInv, ReactionsAgree
      <3> QED
        BY <3>1, <3>2
    <2> QED
      BY <1>4, <2>1, <2>2 DEF BatchInv, ReactionsAgree
  <1> QED
    BY <1>4, <1>8, <1>9, <1>10, <1>11, <1>12 DEF BatchInv

LEMMA ForgetKeeps ==
  ASSUME BatchInv, Forget
  PROVE  BatchInv'
  <1>0. PICK g : g = Head(jobs)[1]
    OBVIOUS
  <1>1. /\ Quiet /\ jobs # <<>> /\ jobs' = Tail(jobs)
        /\ shared' = [k \in Keys |-> IF shared[k] = g THEN Nobody ELSE shared[k]]
        /\ UNCHANGED <<itemVars, group, leader, aborted, wire, watchers, batchVars, stack>>
    BY <1>0 DEF Forget, Unregister
  <1>2. /\ jobs \in Seq(Reactions) /\ timer \subseteq Running
        /\ shared \in [Keys -> Items \cup {Nobody}]
    BY DEF BatchInv, Typed, PumpIsDue
  <1>3. jobs' \in Seq(Reactions) /\ ToSet(jobs') \subseteq ToSet(jobs)
    BY <1>1, <1>2, ElementsOf
  <1>4. /\ PhasesAgree' /\ StackAgrees' /\ SlotsTaken' /\ FramesAgree' /\ PumpIsDue'
        /\ \A j : (Waiting(j)' <=> Waiting(j))
        /\ dedupe' = dedupe /\ Running' = Running
        /\ \A j : (Admitted(j)' <=> Admitted(j)) /\ Request(j)' = Request(j)
        /\ \A h : Sharers(h)' = Sharers(h)
        /\ Due' = Due
    BY <1>1, <1>2, QuietMoves DEF itemVars, batchVars
  <1>5. /\ shared' \in [Keys -> Items \cup {Nobody}]
        /\ \A k \in Keys : shared'[k] # Nobody => shared'[k] = shared[k]
    BY <1>1, <1>2
  <1>6. Typed'
    BY <1>1, <1>3, <1>5 DEF BatchInv, Typed, itemVars, batchVars
  <1>7. Untouched'
    BY <1>1, <1>4 DEF BatchInv, Untouched
  <1>8. Shares'
    <2>1. \A h \in Items : h # Nobody
      BY DEF Items, Nobody
    <2> QED
      BY <1>1, <1>4, <1>5, <2>1 DEF BatchInv, Shares, itemVars, batchVars
  <1>9. LeadIn'
    BY <1>1, <1>4 DEF BatchInv, LeadIn, itemVars
  <1>10. ReactionsAgree'
    BY <1>1, <1>3, <1>4 DEF BatchInv, ReactionsAgree, Reacts
  <1> QED
    BY <1>4, <1>6, <1>7, <1>8, <1>9, <1>10 DEF BatchInv

-------------------------------------------------------------------------------
(***************************************************************************)
(* Steps that take an item further.                                        *)
(***************************************************************************)

LEMMA AddKeeps ==
  ASSUME BatchInv, NEW i \in Items, Add(i)
  PROVE  BatchInv'
  <1> DEFINE f1 == IF signalAborted THEN Settle(i, "cancelled") ELSE Pump
  <1>0. PICK g1 : g1 = f1
    OBVIOUS
  <1>1. /\ UserRuns /\ Interrupts /\ phase[i] = "new" /\ phase' = [phase EXCEPT ![i] = "queued"]
        /\ drained' = FALSE
        /\ stack' = <<f1>> \o AfterCallback
        /\ IF signalAborted THEN queue' = queue ELSE queue' = Append(queue, i)
        /\ UNCHANGED <<active, result, cancelled, stalled, timer, requestVars,
                       keyOf, signalAborted, jobs>>
    BY DEF Add
  <1>2. /\ stack \in Seq(Frames) /\ StackAgrees /\ interrupted \subseteq Items
        /\ queue \in Seq(Items) /\ IsInjective(queue)
        /\ phase \in [Items -> Phases]
    BY DEF BatchInv, Typed
  <1>3. <<f1>> \in Seq(Frames) /\ ToSet(<<f1>>) = {f1} /\ f1.op # "open"
    <2>1. f1 \in Frames
      BY NewFrames DEF Results
    <2> QED
      BY <2>1, ElementsOfOne DEF Settle, Pump
  <1>4. /\ signalAborted => f1.op = "settle" /\ f1.item = i /\ f1.result = "cancelled"
        /\ ~signalAborted => f1.op = "pump"
    BY DEF Settle, Pump
  <1> HIDE DEF f1
  <1>5. /\ stack' \in Seq(Frames) /\ Due' = {g1} \cup Rest
        /\ StackAgrees' /\ \A j : Opening(j)' <=> Opening(j)
        /\ interrupted \subseteq interrupted' /\ interrupted' \subseteq Items
        /\ Rest \subseteq Due /\ \A f \in Due : f \in Rest \/ f.op = "user"
    <2>1. <<g1>> \in Seq(Frames) /\ ToSet(<<g1>>) = {g1} /\ stack' = <<g1>> \o AfterCallback
      BY <1>1, <1>3, <1>0
    <2> QED
      BY <1>1, <1>2, <1>3, <1>0, <2>1, UserGoesOn
  <1>6. /\ phase' \in [Items -> Phases] /\ phase'[i] = "queued"
        /\ \A j \in Items : j # i => phase'[j] = phase[j]
    BY <1>1, <1>2 DEF Phases
  <1>7. i \notin ToSet(queue) /\ i \notin Running /\ result[i] = "none"
    BY <1>1 DEF BatchInv, PhasesAgree
  <1>8. /\ queue' \in Seq(Items) /\ IsInjective(queue')
        /\ signalAborted => ToSet(queue') = ToSet(queue)
        /\ ~signalAborted => ToSet(queue') = ToSet(queue) \cup {i}
    <2>1. CASE signalAborted
      BY <1>1, <1>2, <2>1
    <2>2. CASE ~signalAborted
      <3>1. /\ Append(queue, i) \in Seq(Items) /\ IsInjective(Append(queue, i))
            /\ ToSet(Append(queue, i)) = ToSet(queue) \cup {i}
        BY <1>2, <1>7, ElementsOfAppend
      <3> QED
        BY <1>1, <2>2, <3>1, Zenon
    <2> QED
      BY <2>1, <2>2
  <1>9. /\ dedupe' = dedupe /\ Running' = Running
        /\ \A j : Request(j)' = Request(j)
        /\ \A g : Sharers(g)' = Sharers(g)
    BY <1>1 DEF dedupe, Running, Request, Sharers, requestVars
  <1>10. /\ \A j \in Items : Admitted(j)' <=> Admitted(j)
         /\ \A j \in Items : j # i => (Condemned(j)' <=> Condemned(j))
         /\ ~Condemned(i) /\ (Condemned(i)' <=> signalAborted)
         /\ \A j \in Items : Waiting(j)' => Waiting(j)
    <2>1. \A j \in Items : Admitted(j)' <=> Admitted(j)
      BY <1>1, <1>6, <1>9 DEF Admitted
    <2>2. \A j \in Items : j # i => (Condemned(j)' <=> Condemned(j))
      BY <1>6, <1>8 DEF Condemned
    <2>3. ~Condemned(i) /\ (Condemned(i)' <=> signalAborted)
      BY <1>1, <1>6, <1>7, <1>8 DEF Condemned
    <2>4. \A j \in Items : Waiting(j)' => Waiting(j)
      BY <1>1, <1>5, <1>6 DEF Waiting
    <2> QED
      BY <2>1, <2>2, <2>3, <2>4
  <1>11. Rest \subseteq Due'
    BY <1>5
  <1>12. /\ \A j \in Items : Condemned(j) => EndIsDue(j)'
         /\ \A j \in Running : Request(j) = Nobody => \E f \in Due' : f.op = "settle" /\ f.item = j
    BY <1>5, <1>11, StillDue
  <1>13. Typed'
    BY <1>1, <1>5, <1>6, <1>8 DEF BatchInv, Typed, requestVars
  <1>14. PhasesAgree'
    <2>1. \A j \in Items : Condemned(j)' => EndIsDue(j)'
      <3>1. signalAborted => EndIsDue(i)'
        BY <1>4, <1>0, <1>5 DEF EndIsDue, Ends
      <3> QED
        BY <1>10, <1>12, <3>1
    <2>2. \A j \in Items : /\ result'[j] # "none" <=> phase'[j] = "settled"
                           /\ result'[j] # "pulled"
                           /\ j \in Running' => phase'[j] = "active"
      BY <1>1, <1>6, <1>7, <1>9 DEF BatchInv, PhasesAgree
    <2>3. \A j \in Items : j \in ToSet(queue') => phase'[j] = "queued"
      BY <1>6, <1>8 DEF BatchInv, PhasesAgree
    <2>4. \A j \in Items : phase'[j] = "active" => j \in Running' \/ Opening(j)'
      BY <1>5, <1>6, <1>9 DEF BatchInv, PhasesAgree
    <2> QED
      BY <2>1, <2>2, <2>3, <2>4 DEF PhasesAgree
  <1>15. FramesAgree'
    <2>1. SUFFICES ASSUME NEW f \in Due'
                   PROVE  FrameAgrees(f)'
      BY DEF FramesAgree
    <2>2. CASE f = g1
      BY <1>4, <1>0, <1>7, <1>9, <1>10, <2>2 DEF FrameAgrees
    <2>3. CASE f \in Rest
      <3>1. FrameAgrees(f) /\ f \in Frames
        BY <1>2, <1>5, <2>3, StackParts DEF BatchInv, FramesAgree
      <3>2. /\ f.op \in {"settle", "drop"} => f.item \in Items
            /\ f.op \in {"cancelQueued", "cancelActive"} => ToSet(f.items) \subseteq Items
        BY <3>1, FrameFields, ElementsOf
      <3>3. \A j \in Items : /\ Condemned(j) => Condemned(j)'
                             /\ phase[j] = "settled" => phase'[j] = "settled"
        BY <1>1, <1>6, <1>10
      <3> QED
        BY <1>1, <1>5, <1>9, <1>10, <3>1, <3>2, <3>3 DEF FrameAgrees, requestVars
    <2> QED
      BY <1>5, <2>2, <2>3
  <1>16. Untouched'
    BY <1>1, <1>10 DEF BatchInv, Untouched, requestVars
  <1>17. PumpIsDue'
    <2>1. CanStart' => \E f \in Due' : f.op = "pump"
      <3>1. CanStart' => ~signalAborted
        BY <1>1 DEF CanStart
      <3> QED
        BY <1>4, <1>0, <1>5, <3>1
    <2>2. ~drained' /\ (signalAborted' => queue' = <<>>)
      BY <1>1 DEF BatchInv, PumpIsDue
    <2> QED
      BY <1>1, <1>9, <2>1, <2>2 DEF BatchInv, PumpIsDue
  <1>18. Shares'
    BY <1>1, <1>9, <1>12 DEF BatchInv, Shares, requestVars
  <1>19. LeadIn'
    BY <1>1, <1>9 DEF BatchInv, LeadIn, requestVars
  <1>20. ReactionsAgree'
    BY <1>1, <1>9, <1>10 DEF BatchInv, ReactionsAgree, Reacts, requestVars
  <1>21. SlotsTaken'
    <2>1. \A j \in Items : Opening(j) => phase'[j] = phase[j]
      BY <1>1, <1>6 DEF BatchInv, SlotsTaken
    <2> QED
      BY <1>5, <1>9, <2>1, SlotsStayTaken, ElementsOf DEF BatchInv, Typed, Running
  <1> QED
    BY <1>5, <1>21, <1>13, <1>14, <1>15, <1>16, <1>17, <1>18, <1>19, <1>20 DEF BatchInv

\* A pump that starts an item leaves the rest of the stack to those who were there.
LEMMA StartsAnother ==
  ASSUME stack \in Seq(Frames), StackAgrees, ~Quiet, Head(stack).op = "pump",
         NEW i \in Items, ~Opening(i), NEW f1, f1 \in Frames, f1.op = "open", f1.item = i,
         stack' = User("start", i) \o <<f1>> \o stack, interrupted' = interrupted
  PROVE  /\ stack' \in Seq(Frames) /\ Due \subseteq Due' /\ f1 \in Due'
         /\ \A f \in Due' : f \in Due \/ f = f1 \/ f.op = "user"
         /\ StackAgrees'
  <1> DEFINE u == User("start", i)
             o == <<f1>>
             t == o \o stack
             uf == [op |-> "user"]
  <1>1. /\ u \in Seq(Frames) /\ \A f \in ToSet(u) : f.op = "user"
        /\ o \in Seq(Frames) /\ ToSet(o) = {f1}
    BY NewFrames, ElementsOfOne
  <1>2. t \in Seq(Frames) /\ ToSet(t) = {f1} \cup Due
    <2> HIDE DEF o
    <2> QED
      BY <1>1, ElementsOfConcat DEF Due
  <1>3. Head(t) = f1 /\ Tail(t) = stack /\ t # <<>>
    BY <1>1
  <1>4. Apart(t)
    <2>1. Apart(o)
      <3>1. DOMAIN <<f1>> = {1}
        OBVIOUS
      <3> QED
        BY <3>1, Zenon DEF Apart
    <2>2. \A f \in Due : f.op = "open" => f.item # i
      BY DEF Opening
    <2> HIDE DEF o
    <2> QED
      BY <1>1, <2>1, <2>2, ApartAbove DEF StackAgrees, Due
  <1>5. u \o o \o stack = u \o t
    <2> HIDE DEF o, u
    <2> QED
      BY <1>1, ConcatAssociative
  <1>6. /\ u \o t \in Seq(Frames) /\ ToSet(u \o t) = ToSet(u) \cup ToSet(t)
        /\ Apart(u \o t)
    <2> HIDE DEF u, t
    <2>1. Apart(u)
      BY <1>1, ApartIdle
    <2> QED
      BY <1>1, <1>2, <1>4, <2>1, ElementsOfConcat, ApartAbove
  <1>7. stack' = u \o t
    BY <1>5
  <1> HIDE DEF t, o
  <1>8. Due' = ToSet(u) \cup {f1} \cup Due /\ stack' \in Seq(Frames) /\ Apart(stack')
    <2> HIDE DEF u
    <2> QED
      BY <1>2, <1>6, <1>7, Zenon DEF Due
  <1>9. \A f \in Due : f.op = "open" => f.item \in interrupted
    BY StartersBelow
  <1>10. ASSUME NEW f \in Rest', f.op = "open"
         PROVE  f.item \in interrupted' \cup Starting'
    <2>1. CASE u = <<>>
      <3>1. stack' = t
        BY <1>2, <1>7, <2>1, ConcatEmptySeq
      <3>2. f \in Due
        BY <1>3, <1>10, <3>1 DEF Rest, Quiet, Due
      <3> QED
        BY <1>9, <1>10, <3>2
    <2>2. CASE u = <<uf>>
      <3>1. /\ Head(<<uf>> \o t) = uf /\ Tail(<<uf>> \o t) = t
            /\ <<uf>> \o t # <<>>
        BY <1>2
      <3>2. Head(stack') = uf /\ Tail(stack') = t /\ stack' # <<>>
        BY <1>7, <2>2, <3>1
      <3>3. f \in ToSet(t)
        BY <1>10, <3>2 DEF Rest, Quiet
      <3>4. Starting' = {i}
        <4>1. uf.op = "user"
          OBVIOUS
        <4>2. Innermost("user")'
          BY <3>2, <4>1 DEF Innermost, Quiet
        <4> QED
          BY <1>3, <3>2, <4>2 DEF Starting
      <3> QED
        BY <1>2, <1>9, <1>10, <3>3, <3>4
    <2> QED
      BY <2>1, <2>2 DEF User
  <1>11. StackAgrees'
    BY <1>8, <1>10 DEF StackAgrees
  <1> QED
    BY <1>1, <1>8, <1>11

LEMMA PumpStartsKeeps ==
  ASSUME BatchInv, PumpStarts
  PROVE  BatchInv'
  <1>0. PICK i : i = Head(queue)
    OBVIOUS
  <1> DEFINE f1 == Do("open", i)
  <1>1. /\ stack \in Seq(Frames) /\ StackAgrees
        /\ queue \in Seq(Items) /\ IsInjective(queue)
        /\ phase \in [Items -> Phases]
    BY DEF BatchInv, Typed
  <1>2. /\ ~Quiet /\ Head(stack).op = "pump" /\ CanStart
        /\ ~signalAborted /\ HasRoom /\ queue # <<>> /\ queue' = Tail(queue)
    BY DEF PumpStarts, Innermost, CanStart
  <1>3. /\ i \in Items /\ i \in ToSet(queue)
        /\ queue' \in Seq(Items) /\ IsInjective(queue') /\ ToSet(queue') = ToSet(queue) \ {i}
    <2>1. Head(queue) \in Items /\ Tail(queue) \in Seq(Items) /\ Head(queue) \in ToSet(queue)
      BY <1>1, <1>2, ElementsOf
    <2>2. IsInjective(Tail(queue)) /\ ToSet(Tail(queue)) = ToSet(queue) \ {Head(queue)}
      BY <1>1, <1>2, FirstComesOnce
    <2> QED
      BY <1>0, <1>2, <2>1, <2>2
  <1>4. phase[i] = "queued" /\ i \notin Running /\ ~Condemned(i)
    BY <1>3 DEF BatchInv, PhasesAgree, Condemned
  <1>5. /\ phase' = [phase EXCEPT ![i] = "active"]
        /\ stack' = User("start", i) \o <<f1>> \o stack
        /\ UNCHANGED <<active, result, cancelled, stalled, timer, requestVars, batchVars, jobs>>
    BY <1>0, <1>4 DEF PumpStarts
  <1>6. f1 \in Frames /\ f1.op = "open" /\ f1.item = i
    BY <1>3, NewFrames DEF Do
  <1> HIDE DEF f1
  <1>7. ~Opening(i)
    BY <1>3, <1>4 DEF BatchInv, SlotsTaken
  <1>8. /\ stack' \in Seq(Frames) /\ Due \subseteq Due' /\ f1 \in Due'
        /\ \A f \in Due' : f \in Due \/ f = f1 \/ f.op = "user"
        /\ StackAgrees'
    <2>1. interrupted' = interrupted
      BY <1>5 DEF batchVars
    <2> QED
      BY <1>1, <1>2, <1>3, <1>5, <1>6, <1>7, <2>1, StartsAnother
  <1>9. \A j : Opening(j)' <=> Opening(j) \/ j = i
    BY <1>6, <1>8 DEF Opening
  <1>10. /\ phase' \in [Items -> Phases] /\ phase'[i] = "active"
         /\ \A j \in Items : j # i => phase'[j] = phase[j]
    BY <1>1, <1>3, <1>5 DEF Phases
  <1>11. /\ dedupe' = dedupe /\ Running' = Running
         /\ \A j : Request(j)' = Request(j)
         /\ \A g : Sharers(g)' = Sharers(g)
    BY <1>2, <1>5 DEF dedupe, Running, HasRoom, Request, Sharers, requestVars, batchVars
  <1>12. /\ \A j \in Items : Admitted(j)' <=> Admitted(j)
         /\ \A j \in Items : Condemned(j)' <=> Condemned(j)
         /\ \A j \in Items : Waiting(j)' => Waiting(j)
         /\ \A j \in Items : phase[j] = "settled" => phase'[j] = "settled"
    <2>1. \A j \in Items : Admitted(j)' <=> Admitted(j)
      BY <1>4, <1>10, <1>11 DEF Admitted
    <2>2. \A j \in Items : Condemned(j)' <=> Condemned(j)
      BY <1>3, <1>4, <1>10 DEF Condemned
    <2>3. \A j \in Items : Waiting(j)' => Waiting(j)
      BY <1>4, <1>9, <1>10 DEF Waiting
    <2> QED
      BY <1>4, <1>10, <2>1, <2>2, <2>3
  <1>13. Typed'
    BY <1>3, <1>5, <1>8, <1>10 DEF BatchInv, Typed, requestVars, batchVars
  <1>14. PhasesAgree'
    <2>1. \A j \in Items : Condemned(j)' => EndIsDue(j)'
      BY <1>8, <1>12 DEF BatchInv, PhasesAgree, EndIsDue, Ends
    <2>2. \A j \in Items : /\ result'[j] # "none" <=> phase'[j] = "settled"
                           /\ result'[j] # "pulled"
                           /\ j \in Running' => phase'[j] = "active"
      BY <1>4, <1>5, <1>10, <1>11 DEF BatchInv, PhasesAgree
    <2>3. \A j \in Items : j \in ToSet(queue') => phase'[j] = "queued"
      BY <1>3, <1>10 DEF BatchInv, PhasesAgree
    <2>4. \A j \in Items : phase'[j] = "active" => j \in Running' \/ Opening(j)'
      BY <1>9, <1>10, <1>11 DEF BatchInv, PhasesAgree
    <2> QED
      BY <2>1, <2>2, <2>3, <2>4 DEF PhasesAgree
  <1>15. SlotsTaken'
    <2>1. ASSUME NEW j \in Items, Opening(j)'
          PROVE  phase'[j] = "active" /\ j \notin Running'
      BY <1>4, <1>9, <1>10, <1>11, <2>1 DEF BatchInv, SlotsTaken
    <2>2. Occupied' \subseteq Running \cup {i}
      <3>1. \A j : Opening(j) => j \in interrupted
        BY <1>1, <1>2, StartersBelow DEF Opening
      <3>2. interrupted' = interrupted
        BY <1>5 DEF batchVars
      <3> QED
        BY <1>9, <1>11, <3>1, <3>2 DEF Occupied
    <2>3. /\ Running \subseteq Items /\ Running \cup {i} \in SUBSET Items
          /\ IsFiniteSet(Running) /\ IsFiniteSet(Running \cup {i})
          /\ Cardinality(Running) \in Nat /\ Cardinality(Running \cup {i}) \in Nat
          /\ Cardinality(Occupied') \in Nat
      <3>1. Running \subseteq Items
        BY ElementsOf DEF BatchInv, Typed, Running
      <3>2. Running \cup {i} \in SUBSET Items /\ Occupied' \in SUBSET Items
        BY <1>3, <2>2, <3>1
      <3> QED
        BY <3>1, <3>2, SlotsAreFinite
    <2>4. Cardinality(Occupied') <= Cardinality(Running \cup {i})
      BY <2>2, <2>3, FS_Subset
    <2>5. Cardinality(Running \cup {i}) <= Cardinality(Running) + 1
      BY <1>4, <2>3, FS_AddElement
    <2>6. Cardinality(Running) <= Len(active) /\ Len(active) \in Nat
      BY NoMoreThanPlaces, LenProperties DEF BatchInv, Typed, Running
    <2>7. Cardinality(Occupied') <= Concurrency
      BY <1>2, <2>3, <2>4, <2>5, <2>6, DownloadsAssumption DEF HasRoom
    <2> QED
      BY <2>1, <2>7 DEF SlotsTaken
  <1>16. FramesAgree'
    <2>1. SUFFICES ASSUME NEW f \in Due'
                   PROVE  FrameAgrees(f)'
      BY DEF FramesAgree
    <2>2. CASE f = f1
      BY <1>6, <2>2 DEF FrameAgrees
    <2>4. CASE f.op = "user"
      BY <2>4 DEF FrameAgrees
    <2>3. CASE f \in Due
      <3>1. FrameAgrees(f) /\ f \in Frames
        BY <1>1, <2>3, StackParts DEF BatchInv, FramesAgree
      <3>2. /\ f.op \in {"settle", "drop"} => f.item \in Items
            /\ f.op \in {"cancelQueued", "cancelActive"} => ToSet(f.items) \subseteq Items
        BY <3>1, FrameFields, ElementsOf
      <3> QED
        BY <1>5, <1>9, <1>11, <1>12, <3>1, <3>2 DEF FrameAgrees, requestVars, batchVars
    <2> QED
      BY <1>6, <1>8, <2>2, <2>3, <2>4
  <1>17. Untouched'
    BY <1>5, <1>12 DEF BatchInv, Untouched, requestVars
  <1>18. PumpIsDue'
    <2>1. \E f \in Due' : f.op = "pump"
      BY <1>2, <1>8 DEF BatchInv, PumpIsDue
    <2>2. ~drained
      BY <1>2 DEF BatchInv, PumpIsDue, NothingToCome
    <2> QED
      BY <1>2, <1>5, <1>11, <2>1, <2>2 DEF BatchInv, PumpIsDue, batchVars
  <1>19. Shares'
    BY <1>5, <1>8, <1>11 DEF BatchInv, Shares, requestVars
  <1>20. LeadIn'
    BY <1>5, <1>11 DEF BatchInv, LeadIn, requestVars
  <1>21. ReactionsAgree'
    BY <1>5, <1>11, <1>12 DEF BatchInv, ReactionsAgree, Reacts, requestVars
  <1> QED
    BY <1>8, <1>13, <1>14, <1>15, <1>16, <1>17, <1>18, <1>19, <1>20, <1>21 DEF BatchInv

\* The item that opens is starting no more; whoever else is has been interrupted.
LEMMA StartIsOver ==
  ASSUME stack \in Seq(Frames), StackAgrees, ~Quiet, Head(stack).op = "open",
         stack' = <<>> \o Tail(stack), interrupted' = interrupted
  PROVE  /\ stack' \in Seq(Frames) /\ Due' = Rest /\ StackAgrees'
         /\ \A j : Opening(j)' <=> Opening(j) /\ j # Head(stack).item
  <1> DEFINE t == Tail(stack)
  <1>1. /\ t \in Seq(Frames) /\ Rest = ToSet(t) /\ Due = {Head(stack)} \cup Rest
    BY StackParts
  <1>2. /\ Apart(t)
        /\ \A f \in ToSet(t) : f.op = "open" => f.item # Head(stack).item
    BY ApartBelow DEF StackAgrees, Quiet
  <1>3. \A f \in Rest : f.op = "open" => f.item \in interrupted
    BY NobodyStarts DEF StackAgrees, Innermost
  <1>4. stack' = t
    BY <1>1
  <1> HIDE DEF t
  <1>5. Due' = Rest
    BY <1>1, <1>4, Zenon DEF Due
  <1>6. Rest' \subseteq Due'
    <2>1. stack' # <<>> => ToSet(Tail(stack')) \subseteq ToSet(stack')
      BY <1>1, <1>4, ElementsOf
    <2> QED
      BY <2>1 DEF Rest, Due, Quiet
  <1>7. StackAgrees'
    BY <1>2, <1>3, <1>4, <1>5, <1>6 DEF StackAgrees
  <1>8. \A j : Opening(j)' <=> Opening(j) /\ j # Head(stack).item
    BY <1>1, <1>2, <1>5 DEF Opening
  <1> QED
    BY <1>1, <1>4, <1>5, <1>7, <1>8

\* The item that opens has its slot, and no trace yet; whoever it shares with, what is
\* said of phases, frames and slots holds on.
LEMMA Opens ==
  ASSUME BatchInv, Innermost("open"), NEW i, i = Head(stack).item, Then(<<>>),
         active' = Append(active, i),
         UNCHANGED <<queue, phase, result, cancelled, keyOf, signalAborted, drained,
                     interrupted>>
  PROVE  /\ i \in Items /\ i \notin Running /\ ~Admitted(i)
         /\ group[i] = Nobody /\ wire[i] = "none" /\ aborted[i] = "no" /\ leader[i] = i
         /\ stack' \in Seq(Frames) /\ Due' = Rest
         /\ active' \in Seq(Items) /\ IsInjective(active') /\ Running' = Running \cup {i}
         /\ \A j \in Items : Admitted(j)' <=> Admitted(j) \/ j = i
         /\ \A j \in Items : Waiting(j)' => Waiting(j) /\ j # i
         /\ dedupe' = dedupe
         /\ PhasesAgree' /\ StackAgrees' /\ SlotsTaken'
         /\ timer' \subseteq Running' => PumpIsDue'
         /\ \A f \in Rest : FrameAgrees(f) /\ f \in Frames /\ (f.op = "settle" => f.item # i)
         /\ \A j \in Running : Request(j) = Nobody => \E f \in Rest : f.op = "settle" /\ f.item = j
         /\ (\A j \in Items \ {i} : Request(j)' = Request(j) /\ (j \in Running /\ Request(j) # Nobody
                                      /\ wire[Request(j)] # "open" => wire'[Request(j)] # "open"))
              => FramesAgree'
  <1>1. /\ stack \in Seq(Frames) /\ StackAgrees
        /\ active \in Seq(Items) /\ IsInjective(active) /\ phase \in [Items -> Phases]
    BY DEF BatchInv, Typed
  <1>2. ~Quiet /\ Head(stack).op = "open" /\ stack' = <<>> \o Tail(stack)
    BY DEF Innermost, Then
  <1>3. /\ i \in Items
        /\ Due = {Head(stack)} \cup Rest /\ Rest \subseteq Frames
    BY <1>1, <1>2, StackParts, FrameFields
  <1>4. Opening(i)
    BY <1>2, <1>3 DEF Opening
  <1>5. phase[i] = "active" /\ i \notin Running /\ ~Admitted(i) /\ ~Condemned(i)
    BY <1>1, <1>3, <1>4 DEF BatchInv, SlotsTaken, Admitted, Condemned
  <1>6. group[i] = Nobody /\ wire[i] = "none" /\ aborted[i] = "no" /\ leader[i] = i
    BY <1>3, <1>4 DEF BatchInv, Untouched, Waiting
  <1>7. /\ stack' \in Seq(Frames) /\ Due' = Rest /\ StackAgrees'
        /\ \A j : Opening(j)' <=> Opening(j) /\ j # i
    BY <1>1, <1>2, StartIsOver
  <1>8. /\ active' \in Seq(Items) /\ IsInjective(active') /\ Running' = Running \cup {i}
        /\ Len(active') = Len(active) + 1 /\ Len(active) \in Nat
    <2>1. /\ Append(active, i) \in Seq(Items) /\ IsInjective(Append(active, i))
          /\ ToSet(Append(active, i)) = ToSet(active) \cup {i}
          /\ Len(Append(active, i)) = Len(active) + 1
      BY <1>1, <1>3, <1>5, ElementsOfAppend DEF Running
    <2>2. Len(active) \in Nat
      BY <1>1, LenProperties
    <2> QED
      BY <2>1, <2>2, Zenon DEF Running
  <1>9. /\ \A j \in Items : Admitted(j)' <=> Admitted(j) \/ j = i
        /\ \A j \in Items : Waiting(j)' => Waiting(j) /\ j # i
        /\ \A j \in Items : Condemned(j)' <=> Condemned(j)
    BY <1>5, <1>7, <1>8 DEF Admitted, Waiting, Condemned
  <1>10. PhasesAgree'
    <2>1. \A j \in Items : Condemned(j)' => EndIsDue(j)'
      BY <1>2, <1>3, <1>7, <1>9 DEF BatchInv, PhasesAgree, EndIsDue, Ends
    <2>2. \A j \in Items : /\ result'[j] # "none" <=> phase'[j] = "settled"
                           /\ result'[j] # "pulled"
                           /\ j \in ToSet(queue') => phase'[j] = "queued"
      BY DEF BatchInv, PhasesAgree
    <2>3. \A j \in Items : /\ j \in Running' => phase'[j] = "active"
                           /\ phase'[j] = "active" => j \in Running' \/ Opening(j)'
      BY <1>5, <1>7, <1>8 DEF BatchInv, PhasesAgree
    <2> QED
      BY <2>1, <2>2, <2>3 DEF PhasesAgree
  <1>11. timer' \subseteq Running' => PumpIsDue'
    <2>1. CanStart' => \E f \in Due' : f.op = "pump"
      <3>1. CanStart' => CanStart
        BY <1>8, DownloadsAssumption DEF CanStart, HasRoom
      <3> QED
        BY <1>2, <1>3, <1>7, <3>1 DEF BatchInv, PumpIsDue
    <2>2. drained' => NothingToCome'
      BY <1>4, <1>7, <1>8 DEF BatchInv, PumpIsDue, NothingToCome
    <2> QED
      BY <2>1, <2>2 DEF BatchInv, PumpIsDue
  <1>12. \A f \in Rest : FrameAgrees(f) /\ f \in Frames /\ (f.op = "settle" => f.item # i)
    BY <1>3, <1>5 DEF BatchInv, FramesAgree, FrameAgrees
  <1>13. \A j \in Running : Request(j) = Nobody => \E f \in Rest : f.op = "settle" /\ f.item = j
    BY <1>2, <1>3 DEF BatchInv, Shares
  <1>14. ASSUME \A j \in Items \ {i} :
                  Request(j)' = Request(j) /\ (j \in Running /\ Request(j) # Nobody
                     /\ wire[Request(j)] # "open" => wire'[Request(j)] # "open")
         PROVE  FramesAgree'
    <2>1. SUFFICES ASSUME NEW f \in Rest
                   PROVE  FrameAgrees(f)'
      BY <1>7 DEF FramesAgree
    <2>2. /\ FrameAgrees(f) /\ f \in Frames /\ (f.op = "settle" => f.item # i)
          /\ f.op \in {"settle", "drop"} => f.item \in Items
          /\ f.op \in {"cancelQueued", "cancelActive"} => ToSet(f.items) \subseteq Items
      BY <1>12, FrameFields, ElementsOf
    <2>3. CASE f.op = "settle"
      <3>1. f.item \in Items \ {i}
        BY <2>2, <2>3
      <3>2. Request(f.item)' = Request(f.item)
        BY <1>14, <3>1
      <3> QED
        BY <1>8, <1>9, <1>14, <2>2, <2>3, <3>1, <3>2 DEF FrameAgrees
    <2>4. CASE f.op # "settle"
      BY <1>7, <1>9, <2>2, <2>4 DEF FrameAgrees
    <2> QED
      BY <2>3, <2>4
  <1>15. dedupe' = dedupe
    BY DEF dedupe
  <1>16. SlotsTaken'
    <2>1. \A j \in Items : Opening(j)' => phase'[j] = "active" /\ j \notin Running'
      BY <1>7, <1>8 DEF BatchInv, SlotsTaken
    <2>2. Occupied' = Occupied
      BY <1>3, <1>4, <1>7, <1>8 DEF Occupied
    <2> QED
      BY <2>1, <2>2 DEF BatchInv, SlotsTaken
  <1> QED
    BY <1>16, <1>3, <1>5, <1>6, <1>7, <1>8, <1>9, <1>10, <1>11, <1>12, <1>13, <1>14, <1>15

LEMMA JoinKeeps ==
  ASSUME BatchInv, Join
  PROVE  BatchInv'
  <1>0. PICK i, g : i = Head(stack).item /\ g = Joinable(i)
    OBVIOUS
  <1>1. /\ Innermost("open") /\ Then(<<>>) /\ g # Nobody
        /\ active' = Append(active, i)
        /\ group' = [group EXCEPT ![i] = g]
        /\ watchers' = [watchers EXCEPT ![g] = IF wire[g] = "open" THEN Append(@, i) ELSE @]
        /\ jobs' = IF wire[g] = "open" THEN jobs ELSE Append(jobs, <<g, i>>)
        /\ UNCHANGED <<queue, phase, result, cancelled, stalled, timer,
                       shared, leader, aborted, wire, batchVars>>
    BY <1>0 DEF Join
  <1>2. /\ i \in Items /\ i \notin Running /\ ~Admitted(i)
        /\ group[i] = Nobody /\ wire[i] = "none"
        /\ stack' \in Seq(Frames) /\ Due' = Rest
        /\ active' \in Seq(Items) /\ IsInjective(active') /\ Running' = Running \cup {i}
        /\ \A j \in Items : Admitted(j)' <=> Admitted(j) \/ j = i
        /\ \A j \in Items : Waiting(j)' => Waiting(j) /\ j # i
        /\ dedupe' = dedupe
        /\ PhasesAgree' /\ StackAgrees' /\ SlotsTaken'
        /\ timer' \subseteq Running' => PumpIsDue'
        /\ \A j \in Running : Request(j) = Nobody => \E f \in Rest : f.op = "settle" /\ f.item = j
        /\ (\A j \in Items \ {i} : Request(j)' = Request(j) /\ (j \in Running /\ Request(j) # Nobody
                                     /\ wire[Request(j)] # "open" => wire'[Request(j)] # "open"))
             => FramesAgree'
    BY <1>0, <1>1, Opens DEF batchVars
  <1>3. dedupe /\ keyOf[i] \in Keys /\ g = shared[keyOf[i]]
    BY <1>0, <1>1, <1>2, KeyInKeys DEF Joinable, BatchInv, Typed
  <1>4. g \in Items /\ wire[g] # "none" /\ aborted[g] # "cancel" /\ g # i
    <2>1. g \in Items
      BY <1>1, <1>3 DEF BatchInv, Typed
    <2> QED
      BY <1>1, <1>2, <1>3, <2>1 DEF BatchInv, Shares
  <1>5. /\ group \in [Items -> Items \cup {Nobody}] /\ watchers \in [Items -> Seq(Items)]
        /\ wire \in [Items -> {"none", "open", "resolved", "rejected"}]
        /\ jobs \in Seq(Reactions)
    BY DEF BatchInv, Typed
  <1>6. /\ group' \in [Items -> Items \cup {Nobody}] /\ group'[i] = g
        /\ \A j \in Items : j # i => group'[j] = group[j]
    BY <1>1, <1>2, <1>4, <1>5
  <1>7. /\ \A j \in Items \ {i} : Request(j)' = Request(j)
        /\ Request(i)' = g
        /\ Sharers(g)' = Sharers(g) \cup {i}
        /\ \A h \in Items : h # g => Sharers(h)' = Sharers(h)
    <2>1. \A h \in Items : h # Nobody
      BY DEF Items, Nobody
    <2> QED
      BY <1>2, <1>3, <1>4, <1>6, <2>1 DEF Request, Sharers
  <1>8. /\ watchers' \in [Items -> Seq(Items)]
        /\ \A h \in Items : h # g => watchers'[h] = watchers[h]
        /\ \A j \in ToSet(watchers'[g]) : j \in ToSet(watchers[g]) \/ j = i
    <2> DEFINE w == watchers[g]
    <2>1. w \in Seq(Items)
      BY <1>4, <1>5
    <2>2. Append(w, i) \in Seq(Items) /\ ToSet(Append(w, i)) = ToSet(w) \cup {i}
      <3> HIDE DEF w
      <3> QED
        BY <1>2, <2>1, ElementsOfAppend
    <2>3. watchers' = [watchers EXCEPT ![g] = IF wire[g] = "open" THEN Append(w, i) ELSE w]
      BY <1>1
    <2>4. watchers'[g] = IF wire[g] = "open" THEN Append(w, i) ELSE w
      BY <1>4, <1>5, <2>3
    <2> HIDE DEF w
    <2>5. \A j \in ToSet(watchers'[g]) : j \in ToSet(w) \/ j = i
      BY <2>2, <2>4
    <2> QED
      BY <1>4, <1>5, <2>1, <2>2, <2>3, <2>5 DEF w
  <1>9. /\ jobs' \in Seq(Reactions)
        /\ \A x \in ToSet(jobs') : x \in ToSet(jobs) \/ (x = <<g, i>> /\ wire[g] # "open")
    <2>1. PICK x : x = <<g, i>>
      OBVIOUS
    <2>2. x \in Reactions
      BY <1>2, <1>4, <2>1 DEF Reactions
    <2>3. Append(jobs, x) \in Seq(Reactions) /\ ToSet(Append(jobs, x)) = ToSet(jobs) \cup {x}
      BY <1>5, <2>2, ElementsOfAppend
    <2>4. jobs' = IF wire[g] = "open" THEN jobs ELSE Append(jobs, x)
      BY <1>1, <2>1
    <2>5. CASE wire[g] = "open"
      BY <1>5, <2>4, <2>5
    <2>6. CASE wire[g] # "open"
      BY <2>1, <2>3, <2>4, <2>6, Zenon
    <2> QED
      BY <2>5, <2>6
  <1>10. Typed'
    BY <1>1, <1>2, <1>6, <1>8, <1>9 DEF BatchInv, Typed, batchVars
  <1>11. FramesAgree'
    BY <1>1, <1>2, <1>7
  <1>12. Untouched'
    BY <1>1, <1>2, <1>6 DEF BatchInv, Untouched
  <1>13. PumpIsDue'
    BY <1>1, <1>2 DEF BatchInv, PumpIsDue
  <1>14. Shares'
    <2>1. (\A j \in Items : group[j] # Nobody => dedupe /\ j \in Running /\ wire[group[j]] # "none")'
      BY <1>1, <1>2, <1>3, <1>4, <1>6 DEF BatchInv, Shares
    <2>2. (\A j \in Running : Request(j) = Nobody => \E f \in Due : f.op = "settle" /\ f.item = j)'
      <3>1. SUFFICES ASSUME NEW j \in Running', Request(j)' = Nobody
                     PROVE  \E f \in Rest : f.op = "settle" /\ f.item = j
        BY <1>2
      <3>2. j # i
        BY <1>1, <1>7, <3>1 DEF Nobody
      <3>3. j \in Running
        BY <1>2, <3>1, <3>2
      <3>4. j \in Items
        BY <3>3, ElementsOf DEF BatchInv, Typed, Running
      <3> QED
        BY <1>2, <1>7, <3>1, <3>2, <3>3, <3>4
    <2>3. (\A k \in Keys : shared[k] # Nobody => dedupe /\ wire[shared[k]] # "none")'
      BY <1>1, <1>2 DEF BatchInv, Shares, batchVars
    <2>4. \A h \in Items : /\ wire'[h] = "open" /\ Sharers(h)' = {} => aborted'[h] # "no"
                           /\ aborted'[h] = "cancel" => Sharers(h)' = {} /\ \A k \in Keys : shared'[k] # h
      BY <1>1, <1>3, <1>4, <1>7 DEF BatchInv, Shares
    <2> QED
      BY <1>2, <1>3, <2>1, <2>2, <2>3, <2>4 DEF Shares
  <1>15. LeadIn'
    <2>1. SUFFICES ASSUME NEW h \in Items, wire[h] = "open", aborted[h] = "no"
                   PROVE  /\ leader[h] \in timer /\ leader[h] \in Running'
                          /\ Request(leader[h])' = h
      BY <1>1 DEF LeadIn
    <2>2. /\ leader[h] \in timer /\ leader[h] \in Running /\ Request(leader[h]) = h
          /\ leader[h] \in Items
      BY <2>1 DEF BatchInv, LeadIn, Typed
    <2>3. leader[h] \in Items \ {i} /\ leader[h] \in Running'
      BY <1>2, <2>2
    <2>4. Request(leader[h])' = Request(leader[h])
      <3>1. leader' = leader /\ group'[leader[h]] = group[leader[h]]
        BY <1>1, <1>6, <2>3
      <3> QED
        BY <1>2, <3>1 DEF Request
    <2> QED
      BY <2>2, <2>3, <2>4
  <1>16. ReactionsAgree'
    <2>1. ASSUME NEW h \in Items, NEW j \in Items, Reacts(h, j)'
          PROVE  Reacts(h, j) \/ (h = g /\ j = i)
      <3>1. CASE j \in ToSet(watchers'[h])
        BY <1>8, <3>1 DEF Reacts
      <3>2. CASE <<h, j>> \in ToSet(jobs')
        BY <1>9, <3>2 DEF Reacts
      <3> QED
        BY <2>1, <3>1, <3>2 DEF Reacts
    <2>2. ASSUME NEW h \in Items, NEW j \in Items, Reacts(h, j)'
          PROVE  Admitted(j)' /\ (j \in Running' => Request(j)' \in {h, Nobody})
      <3>1. CASE Reacts(h, j)
        <4>1. Admitted(j) /\ (j \in Running => Request(j) \in {h, Nobody})
          BY <3>1 DEF BatchInv, ReactionsAgree
        <4> QED
          BY <1>2, <1>7, <4>1
      <3>2. CASE h = g /\ j = i
        BY <1>2, <1>7, <3>2
      <3> QED
        BY <2>1, <2>2, <3>1, <3>2
    <2>3. ASSUME NEW h \in Items, NEW j \in Items \cup {Nobody}, <<h, j>> \in ToSet(jobs')
          PROVE  wire'[h] \in {"resolved", "rejected"}
      <3>1. CASE <<h, j>> \in ToSet(jobs)
        BY <1>1, <3>1 DEF BatchInv, ReactionsAgree
      <3>2. CASE <<h, j>> = <<g, i>> /\ wire[g] # "open"
        BY <1>1, <1>4, <1>5, <3>2
      <3> QED
        BY <1>9, <2>3, <3>1, <3>2
    <2> QED
      BY <2>2, <2>3 DEF ReactionsAgree
  <1> QED
    BY <1>2, <1>10, <1>11, <1>12, <1>13, <1>14, <1>15, <1>16 DEF BatchInv

LEMMA OpenKeeps ==
  ASSUME BatchInv, Open
  PROVE  BatchInv'
  <1>0. PICK i : i = Head(stack).item
    OBVIOUS
  <1>1. /\ Innermost("open") /\ Then(<<>>)
        /\ active' = Append(active, i)
        /\ wire' = [wire EXCEPT ![i] = "open"]
        /\ watchers' = [watchers EXCEPT ![i] = <<i>>]
        /\ timer' = timer \cup {i}
        /\ dedupe => /\ group' = [group EXCEPT ![i] = i]
                     /\ shared' = [shared EXCEPT ![keyOf[i]] = i]
        /\ ~dedupe => UNCHANGED <<group, shared>>
        /\ UNCHANGED <<queue, phase, result, cancelled, stalled,
                       leader, aborted, batchVars, jobs>>
    BY <1>0 DEF Open
  <1>2. /\ i \in Items /\ i \notin Running /\ ~Admitted(i)
        /\ group[i] = Nobody /\ wire[i] = "none" /\ aborted[i] = "no" /\ leader[i] = i
        /\ stack' \in Seq(Frames) /\ Due' = Rest
        /\ active' \in Seq(Items) /\ IsInjective(active') /\ Running' = Running \cup {i}
        /\ \A j \in Items : Admitted(j)' <=> Admitted(j) \/ j = i
        /\ \A j \in Items : Waiting(j)' => Waiting(j) /\ j # i
        /\ dedupe' = dedupe
        /\ PhasesAgree' /\ StackAgrees' /\ SlotsTaken'
        /\ timer' \subseteq Running' => PumpIsDue'
        /\ \A j \in Running : Request(j) = Nobody => \E f \in Rest : f.op = "settle" /\ f.item = j
        /\ (\A j \in Items \ {i} : Request(j)' = Request(j) /\ (j \in Running /\ Request(j) # Nobody
                                     /\ wire[Request(j)] # "open" => wire'[Request(j)] # "open"))
             => FramesAgree'
    BY <1>0, <1>1, Opens DEF batchVars
  <1>3. /\ group \in [Items -> Items \cup {Nobody}] /\ watchers \in [Items -> Seq(Items)]
        /\ shared \in [Keys -> Items \cup {Nobody}]
        /\ wire \in [Items -> {"none", "open", "resolved", "rejected"}]
        /\ i # Nobody
    BY <1>2 DEF BatchInv, Typed, Items, Nobody
  <1>4. /\ group' \in [Items -> Items \cup {Nobody}]
        /\ shared' \in [Keys -> Items \cup {Nobody}]
        /\ dedupe => group'[i] = i
        /\ \A j \in Items : j # i => group'[j] = group[j]
        /\ \A k \in Keys : shared'[k] = shared[k] \/ (shared'[k] = i /\ dedupe)
        /\ ~dedupe => group'[i] = Nobody
    <2>1. CASE dedupe
      BY <1>1, <1>2, <1>3, <2>1
    <2>2. CASE ~dedupe
      <3>1. group' = group /\ shared' = shared
        BY <1>1, <2>2
      <3> QED
        BY <1>2, <1>3, <2>2, <3>1
    <2> QED
      BY <2>1, <2>2
  <1>5. /\ wire' \in [Items -> {"none", "open", "resolved", "rejected"}]
        /\ wire'[i] = "open" /\ \A h \in Items : h # i => wire'[h] = wire[h]
    BY <1>1, <1>2, <1>3
  <1>6. /\ watchers' \in [Items -> Seq(Items)]
        /\ ToSet(watchers'[i]) = {i}
        /\ \A h \in Items : h # i => watchers'[h] = watchers[h]
    <2>1. <<i>> \in Seq(Items) /\ ToSet(<<i>>) = {i}
      BY <1>2, ElementsOfOne
    <2> QED
      BY <1>1, <1>2, <1>3, <2>1
  <1>7. /\ \A j \in Items \ {i} : Request(j)' = Request(j)
        /\ Request(i)' = i
        /\ dedupe => Sharers(i)' = Sharers(i) \cup {i}
        /\ \A h \in Items : h # i => Sharers(h)' = Sharers(h)
    <2>1. \A h \in Items : h # Nobody
      BY DEF Items, Nobody
    <2>2. /\ \A j \in Items \ {i} : Request(j)' = Request(j)
          /\ Request(i)' = i
      BY <1>2, <1>4 DEF Request
    <2>3. dedupe => Sharers(i)' = Sharers(i) \cup {i}
      BY <1>2, <1>4 DEF Sharers
    <2>4. \A h \in Items : h # i => Sharers(h)' = Sharers(h)
      BY <1>2, <1>4, <2>1 DEF Sharers
    <2> QED
      BY <2>2, <2>3, <2>4
  <1>8. /\ \A j \in Items : group[j] # Nobody => group[j] # i /\ group[j] \in Items
        /\ \A k \in Keys : shared[k] # Nobody => shared[k] # i /\ shared[k] \in Items
        /\ \A j \in Running : j \in Items /\ j # i /\ Request(j) # i
    <2>1. /\ \A j \in Items : group[j] # Nobody => group[j] # i /\ group[j] \in Items
          /\ \A k \in Keys : shared[k] # Nobody => shared[k] # i /\ shared[k] \in Items
      BY <1>2, <1>3 DEF BatchInv, Shares
    <2>2. \A j \in Running : j \in Items /\ j # i
      BY <1>2, ElementsOf DEF BatchInv, Typed, Running
    <2> QED
      BY <1>3, <2>1, <2>2 DEF Request
  <1>9. Typed'
    BY <1>1, <1>2, <1>4, <1>5, <1>6 DEF BatchInv, Typed, batchVars
  <1>10. FramesAgree'
    <2>1. ASSUME NEW j \in Items \ {i}, j \in Running, Request(j) # Nobody,
                 wire[Request(j)] # "open"
          PROVE  wire'[Request(j)] # "open"
      <3>1. Request(j) \in Items /\ Request(j) # i
        BY <1>3, <1>8, <2>1 DEF Request
      <3> QED
        BY <1>5, <2>1, <3>1
    <2> QED
      BY <1>2, <1>7, <2>1
  <1>11. Untouched'
    BY <1>1, <1>2, <1>4, <1>5 DEF BatchInv, Untouched
  <1>12. PumpIsDue'
    BY <1>1, <1>2 DEF BatchInv, PumpIsDue
  <1>13. Shares'
    <2>1. (\A j \in Items : group[j] # Nobody => dedupe /\ j \in Running /\ wire[group[j]] # "none")'
      <3>1. ASSUME NEW j \in Items, group'[j] # Nobody
            PROVE  dedupe /\ j \in Running' /\ wire'[group'[j]] # "none"
        <4>1. CASE j = i
          BY <1>2, <1>4, <1>5, <3>1, <4>1
        <4>2. CASE j # i
          BY <1>2, <1>4, <1>5, <1>8, <3>1, <4>2 DEF BatchInv, Shares
        <4> QED
          BY <4>1, <4>2
      <3> QED
        BY <1>2, <3>1
    <2>2. (\A j \in Running : Request(j) = Nobody => \E f \in Due : f.op = "settle" /\ f.item = j)'
      BY <1>2, <1>3, <1>7, <1>8
    <2>3. (\A k \in Keys : shared[k] # Nobody => dedupe /\ wire[shared[k]] # "none")'
      <3>1. ASSUME NEW k \in Keys, shared'[k] # Nobody
            PROVE  dedupe /\ wire'[shared'[k]] # "none"
        <4>1. CASE shared'[k] = i /\ dedupe
          BY <1>5, <4>1
        <4>2. CASE shared'[k] = shared[k]
          BY <1>5, <1>8, <3>1, <4>2 DEF BatchInv, Shares
        <4> QED
          BY <1>4, <4>1, <4>2
      <3>2. Keys' = Keys
        BY DEF Keys
      <3> QED
        BY <1>2, <3>1, <3>2
    <2>4. ASSUME dedupe, NEW h \in Items
          PROVE  /\ wire'[h] = "open" /\ Sharers(h)' = {} => aborted'[h] # "no"
                 /\ aborted'[h] = "cancel" => Sharers(h)' = {} /\ \A k \in Keys : shared'[k] # h
      <3>1. CASE h = i
        BY <1>1, <1>2, <1>7, <2>4, <3>1
      <3>2. CASE h # i
        BY <1>1, <1>4, <1>5, <1>7, <2>4, <3>2 DEF BatchInv, Shares
      <3> QED
        BY <3>1, <3>2
    <2>5. ASSUME ~dedupe, NEW h \in Items
          PROVE  /\ wire'[h] = "open" => h \in Running'
                 /\ aborted'[h] = "cancel" => h \in cancelled'
      BY <1>1, <1>2, <1>5, <2>5 DEF BatchInv, Shares
    <2> QED
      BY <1>2, <2>1, <2>2, <2>3, <2>4, <2>5 DEF Shares
  <1>14. LeadIn'
    <2>1. SUFFICES ASSUME NEW h \in Items, wire'[h] = "open", aborted[h] = "no"
                   PROVE  /\ leader[h] \in timer' /\ leader[h] \in Running'
                          /\ Request(leader[h])' = h
      BY <1>1 DEF LeadIn
    <2>2. CASE h = i
      BY <1>1, <1>2, <1>7, <2>2
    <2>3. CASE h # i
      <3>1. leader[h] \in timer /\ leader[h] \in Running /\ Request(leader[h]) = h
        BY <1>5, <2>1, <2>3 DEF BatchInv, LeadIn
      <3> QED
        BY <1>1, <1>2, <1>7, <1>8, <3>1
    <2> QED
      BY <2>2, <2>3
  <1>15. ReactionsAgree'
    <2>1. ASSUME NEW h \in Items, NEW j \in Items, Reacts(h, j)'
          PROVE  Admitted(j)' /\ (j \in Running' => Request(j)' \in {h, Nobody})
      <3>1. CASE h = i
        <4>1. <<i, j>> \notin ToSet(jobs)
          BY <1>2 DEF BatchInv, ReactionsAgree
        <4>2. j = i
          BY <1>1, <1>6, <2>1, <3>1, <4>1 DEF Reacts
        <4> QED
          BY <1>2, <1>7, <3>1, <4>2
      <3>2. CASE h # i
        <4>1. Reacts(h, j)
          BY <1>1, <1>6, <2>1, <3>2 DEF Reacts
        <4>2. Admitted(j) /\ (j \in Running => Request(j) \in {h, Nobody})
          BY <4>1 DEF BatchInv, ReactionsAgree
        <4> QED
          BY <1>2, <1>7, <4>2
      <3> QED
        BY <3>1, <3>2
    <2>2. ASSUME NEW h \in Items, NEW j \in Items \cup {Nobody}, <<h, j>> \in ToSet(jobs')
          PROVE  wire'[h] \in {"resolved", "rejected"}
      <3>1. wire[h] \in {"resolved", "rejected"}
        BY <1>1, <2>2 DEF BatchInv, ReactionsAgree
      <3> QED
        BY <1>2, <1>5, <3>1
    <2> QED
      BY <2>1, <2>2 DEF ReactionsAgree
  <1> QED
    BY <1>2, <1>9, <1>10, <1>11, <1>12, <1>13, <1>14, <1>15 DEF BatchInv

LEMMA DropSharedKeeps ==
  ASSUME BatchInv, DropShared
  PROVE  BatchInv'
  <1>0. PICK i, g, n, j :
          /\ i = Head(stack).item /\ g = group[i]
          /\ n = NextSharer(i)
          /\ j = active[n]
    OBVIOUS
  <1> DEFINE f1 == Settle(i, "cancelled")
  <1>1. /\ ~Quiet /\ Head(stack).op = "drop" /\ dedupe /\ g # Nobody
        /\ group' = [group EXCEPT ![i] = Nobody]
        /\ n = 0 => /\ shared' = [k \in Keys |-> IF shared[k] = g THEN Nobody ELSE shared[k]]
                    /\ aborted' = [aborted EXCEPT ![g] = IF @ = "no" THEN "cancel" ELSE @]
                    /\ UNCHANGED <<leader, timer>>
        /\ n # 0 => /\ UNCHANGED <<shared, aborted>>
                    /\ leader[g] = i => /\ leader' = [leader EXCEPT ![g] = j]
                                        /\ timer' = timer \cup {j}
                    /\ leader[g] # i => UNCHANGED <<leader, timer>>
        /\ stack' = <<f1>> \o Tail(stack)
        /\ UNCHANGED <<queue, active, phase, result, cancelled, stalled,
                       wire, watchers, batchVars, jobs>>
    BY <1>0 DEF DropShared, Innermost, Then, Unregister, Abort, PromoteLeader
  <1>2. /\ stack \in Seq(Frames) /\ StackAgrees
        /\ interrupted \subseteq Items /\ interrupted' = interrupted
        /\ active \in Seq(Items)
        /\ group \in [Items -> Items \cup {Nobody}]
        /\ shared \in [Keys -> Items \cup {Nobody}]
        /\ leader \in [Items -> Items]
        /\ aborted \in [Items -> {"no", "cancel", "stall"}]
        /\ timer \subseteq Running
    BY <1>1 DEF BatchInv, Typed, PumpIsDue, batchVars
  <1>3. /\ i \in Items
        /\ Due = {Head(stack)} \cup Rest
    <2>1. /\ Head(stack) \in Due /\ Head(stack) \in Frames
          /\ Due = {Head(stack)} \cup Rest
      BY <1>1, <1>2, StackParts
    <2> QED
      BY <1>0, <1>1, <2>1, FrameFields
  <1>4. g \in Items /\ i \in Running /\ Admitted(i) /\ wire[g] # "none" /\ aborted[g] # "cancel"
    <2>1. g \in Items
      BY <1>0, <1>1, <1>2, <1>3
    <2>2. i \in Sharers(g)
      BY <1>0, <1>3 DEF Sharers
    <2> QED
      BY <1>0, <1>1, <1>3, <2>1, <2>2 DEF BatchInv, Shares, Admitted
  <1>5. /\ f1 \in Frames /\ f1.op = "settle" /\ f1.item = i /\ f1.result = "cancelled"
        /\ <<f1>> \in Seq(Frames) /\ ToSet(<<f1>>) = {f1}
    <2>1. f1 \in Frames
      BY <1>3, NewFrames DEF Results
    <2> QED
      BY <2>1, ElementsOfOne DEF Settle
  <1> HIDE DEF f1
  <1>6. /\ stack' \in Seq(Frames) /\ Due' = {f1} \cup Rest
        /\ StackAgrees' /\ \A m : Opening(m)' <=> Opening(m)
    <2>1. Starting = {}
      BY <1>1, NobodyStarts DEF Innermost
    <2> QED
      BY <1>1, <1>2, <1>5, <2>1, GoesOn
  <1>7. /\ Running' = Running /\ dedupe' = dedupe
        /\ \A m : /\ Admitted(m)' <=> Admitted(m)
                  /\ Condemned(m)' <=> Condemned(m)
                  /\ Waiting(m)' <=> Waiting(m)
        /\ CanStart' <=> CanStart
    BY <1>1, <1>6 DEF Running, dedupe, Admitted, Condemned, Waiting, CanStart, HasRoom, batchVars
  <1>8. /\ group' \in [Items -> Items \cup {Nobody}]
        /\ group'[i] = Nobody
        /\ \A m \in Items : m # i => group'[m] = group[m]
    BY <1>1, <1>2, <1>3
  <1>9. /\ \A m \in Items : m # i => Request(m)' = Request(m)
        /\ Request(i)' = Nobody /\ Request(i) = g
        /\ \A h \in Items : h # g => Sharers(h)' = Sharers(h)
        /\ Sharers(g)' = Sharers(g) \ {i}
    <2>1. \A h \in Items : h # Nobody
      BY DEF Items, Nobody
    <2>2. /\ \A m \in Items : m # i => Request(m)' = Request(m)
          /\ Request(i)' = Nobody /\ Request(i) = g
      BY <1>0, <1>1, <1>7, <1>8 DEF Request
    <2>3. \A h \in Items : h # g => Sharers(h)' = Sharers(h)
      BY <1>0, <1>3, <1>8, <2>1 DEF Sharers
    <2>4. Sharers(g)' = Sharers(g) \ {i}
      BY <1>4, <1>8, <2>1 DEF Sharers
    <2> QED
      BY <2>2, <2>3, <2>4
  <1>10. /\ n = 0 => Sharers(g)' = {}
         /\ n # 0 => j \in Running /\ j \in Items /\ j # i /\ group[j] = g
    <2>1. \/ n = 0 /\ \A m \in Running : ~(m # i /\ group[m] = g)
          \/ n # 0 /\ active[n] \in Running /\ active[n] # i /\ group[active[n]] = g
      BY <1>0, <1>2, FirstSharer
    <2>2. n = 0 => Sharers(g)' = {}
      <3>1. SUFFICES ASSUME n = 0, NEW m \in Sharers(g), m # i
                     PROVE  FALSE
        BY <1>9
      <3>2. m \in Items /\ group[m] = g
        BY <3>1 DEF Sharers
      <3>3. m \in Running
        BY <1>1, <3>2 DEF BatchInv, Shares
      <3> QED
        BY <2>1, <3>1, <3>2, <3>3 DEF Running
    <2>3. \A m \in Running : m \in Items
      BY <1>2, ElementsOf DEF Running
    <2> QED
      BY <1>0, <2>1, <2>2, <2>3 DEF Running
  <1>11. /\ shared' \in [Keys -> Items \cup {Nobody}]
         /\ \A k \in Keys : shared'[k] # Nobody => shared'[k] = shared[k]
         /\ n = 0 => \A k \in Keys : shared'[k] # g
    <2>1. CASE n = 0
      BY <1>1, <1>2, <2>1
    <2>2. CASE n # 0
      BY <1>1, <1>2, <2>2
    <2> QED
      BY <2>1, <2>2
  <1>12. /\ aborted' \in [Items -> {"no", "cancel", "stall"}]
         /\ \A h \in Items : h # g => aborted'[h] = aborted[h]
         /\ n = 0 => aborted'[g] # "no"
         /\ n # 0 => aborted'[g] = aborted[g]
    <2>1. CASE n = 0
      <3>1. aborted' = [aborted EXCEPT ![g] = IF @ = "no" THEN "cancel" ELSE @]
        BY <1>1, <2>1
      <3> QED
        BY <1>2, <1>4, <2>1, <3>1
    <2>2. CASE n # 0
      BY <1>1, <1>2, <2>2
    <2> QED
      BY <2>1, <2>2
  <1>13. /\ leader' \in [Items -> Items]
         /\ \A h \in Items : h # g => leader'[h] = leader[h]
         /\ timer \subseteq timer' /\ timer' \subseteq Running
         /\ n # 0 => \/ leader'[g] = leader[g] /\ leader[g] # i
                     \/ leader'[g] = j /\ j \in timer'
    <2>1. CASE n # 0 /\ leader[g] = i
      BY <1>1, <1>2, <1>4, <1>10, <2>1
    <2>2. CASE ~(n # 0 /\ leader[g] = i)
      BY <1>1, <1>2, <2>2
    <2> QED
      BY <2>1, <2>2
  <1>14. Typed'
    BY <1>1, <1>6, <1>8, <1>11, <1>12, <1>13 DEF BatchInv, Typed, batchVars
  <1>15. PhasesAgree'
    <2>1. \A m \in Items : Condemned(m) => EndIsDue(m)'
      BY <1>1, <1>3, <1>6 DEF BatchInv, PhasesAgree, EndIsDue, Ends
    <2> QED
      BY <1>1, <1>6, <1>7, <2>1 DEF BatchInv, PhasesAgree
  <1>16. FramesAgree'
    <2>1. SUFFICES ASSUME NEW f \in Due'
                   PROVE  FrameAgrees(f)'
      BY DEF FramesAgree
    <2>2. CASE f = f1
      BY <1>4, <1>5, <1>7, <1>9, <2>2 DEF FrameAgrees
    <2>3. CASE f \in Rest
      <3>1. FrameAgrees(f) /\ f \in Frames
        BY <1>2, <1>3, <2>3, StackParts DEF BatchInv, FramesAgree
      <3>2. f.op = "settle" => f.item \in Items
        BY <3>1, FrameFields
      <3> QED
        BY <1>1, <1>6, <1>7, <1>9, <3>1, <3>2 DEF FrameAgrees
    <2> QED
      BY <1>6, <2>2, <2>3
  <1>17. Untouched'
    <2>1. SUFFICES ASSUME NEW m \in Items, Waiting(m)
                   PROVE  (group[m] = Nobody /\ wire[m] = "none" /\ aborted[m] = "no" /\ leader[m] = m)'
      BY <1>7 DEF Untouched
    <2>2. group[m] = Nobody /\ wire[m] = "none" /\ aborted[m] = "no" /\ leader[m] = m
      BY <2>1 DEF BatchInv, Untouched
    <2>3. m # g
      BY <1>4, <2>2
    <2> QED
      BY <1>1, <1>8, <1>12, <1>13, <2>2, <2>3
  <1>18. PumpIsDue'
    <2>1. CanStart' => \E f \in Due' : f.op = "pump"
      BY <1>1, <1>3, <1>6, <1>7 DEF BatchInv, PumpIsDue
    <2> QED
      BY <1>1, <1>6, <1>7, <1>13, <2>1 DEF BatchInv, PumpIsDue, NothingToCome, batchVars
  <1>19. Shares'
    <2>1. (\A m \in Items : group[m] # Nobody => dedupe /\ m \in Running /\ wire[group[m]] # "none")'
      BY <1>1, <1>7, <1>8 DEF BatchInv, Shares
    <2>2. (\A k \in Keys : shared[k] # Nobody => dedupe /\ wire[shared[k]] # "none")'
      BY <1>1, <1>7, <1>11 DEF BatchInv, Shares, batchVars
    <2>3. (\A m \in Running : Request(m) = Nobody => \E f \in Due : f.op = "settle" /\ f.item = m)'
      <3>1. SUFFICES ASSUME NEW m \in Running, Request(m)' = Nobody
                     PROVE  \E f \in Due' : f.op = "settle" /\ f.item = m
        BY <1>7
      <3>2. CASE m = i
        BY <1>5, <1>6, <3>2
      <3>3. CASE m # i
        <4>1. m \in Items
          BY <1>2, ElementsOf DEF Running
        <4>2. Request(m) = Nobody
          BY <1>9, <3>1, <3>3, <4>1
        <4>3. PICK f \in Due : f.op = "settle" /\ f.item = m
          BY <4>2 DEF BatchInv, Shares
        <4> QED
          BY <1>1, <1>3, <1>6, <4>3
      <3> QED
        BY <3>2, <3>3
    <2>4. ASSUME NEW h \in Items
          PROVE  /\ wire'[h] = "open" /\ Sharers(h)' = {} => aborted'[h] # "no"
                 /\ aborted'[h] = "cancel" => Sharers(h)' = {} /\ \A k \in Keys : shared'[k] # h
      <3>0. h # Nobody
        BY DEF Items, Nobody
      <3>1. CASE h # g
        BY <1>1, <1>9, <1>11, <1>12, <3>0, <3>1 DEF BatchInv, Shares
      <3>2. CASE h = g /\ n = 0
        BY <1>10, <1>11, <1>12, <3>2
      <3>3. CASE h = g /\ n # 0
        <4>1. j \in Sharers(g)'
          BY <1>8, <1>10, <3>3 DEF Sharers
        <4> QED
          BY <1>4, <1>12, <3>3, <4>1
      <3> QED
        BY <3>1, <3>2, <3>3
    <2> QED
      BY <1>1, <1>7, <2>1, <2>2, <2>3, <2>4 DEF Shares
  <1>20. LeadIn'
    <2>1. SUFFICES ASSUME NEW h \in Items, wire[h] = "open", aborted'[h] = "no"
                   PROVE  /\ leader'[h] \in timer' /\ leader'[h] \in Running'
                          /\ Request(leader[h])' = h
      BY <1>1 DEF LeadIn
    <2>2. \A m \in Items : m # i /\ Request(m) = h => (dedupe => group[m] = h) /\ group'[m] = group[m]
      BY <1>8 DEF Request
    <2>3. ASSUME leader'[h] = leader[h], leader[h] # i, aborted[h] = "no"
          PROVE  /\ leader'[h] \in timer' /\ leader'[h] \in Running'
                 /\ Request(leader[h])' = h
      <3>1. leader[h] \in timer /\ leader[h] \in Running /\ Request(leader[h]) = h
        BY <2>1, <2>3 DEF BatchInv, LeadIn
      <3>2. leader[h] \in Items
        BY <1>2
      <3>3. group'[leader[h]] = h
        BY <1>1, <1>8, <2>3, <3>1, <3>2 DEF Request
      <3>4. Request(leader[h])' = h
        BY <1>1, <1>7, <2>3, <3>3 DEF Request
      <3> QED
        BY <1>7, <1>13, <2>3, <3>1, <3>4
    <2>4. CASE h # g
      <3>1. leader'[h] = leader[h] /\ aborted[h] = "no"
        BY <1>12, <1>13, <2>1, <2>4
      <3>2. Request(leader[h]) = h
        BY <2>1, <3>1 DEF BatchInv, LeadIn
      <3>3. leader[h] # i
        BY <1>9, <2>4, <3>2
      <3> QED
        BY <2>3, <3>1, <3>3
    <2>5. CASE h = g
      <3>1. n # 0
        BY <1>12, <2>1, <2>5
      <3>2. CASE leader'[g] = leader[g] /\ leader[g] # i
        BY <1>12, <2>1, <2>3, <2>5, <3>1, <3>2
      <3>3. CASE leader'[g] = j /\ j \in timer'
        <4>1. group'[j] = g
          BY <1>8, <1>10, <3>1
        <4>2. Request(leader[g])' = g
          BY <1>1, <1>7, <3>3, <4>1 DEF Request
        <4> QED
          BY <1>7, <1>10, <2>5, <3>1, <3>3, <4>2
      <3> QED
        BY <1>13, <3>1, <3>2, <3>3
    <2> QED
      BY <2>4, <2>5
  <1>21. ReactionsAgree'
    BY <1>1, <1>7, <1>9 DEF BatchInv, ReactionsAgree, Reacts
  <1>22. SlotsTaken'
    BY <1>1, <1>2, <1>6, <1>7, SlotsStayTaken, ElementsOf DEF BatchInv, Running
  <1> QED
    BY <1>6, <1>22, <1>14, <1>15, <1>16, <1>17, <1>18, <1>19, <1>20, <1>21 DEF BatchInv

LEMMA SettlesKeeps ==
  ASSUME BatchInv, Settles
  PROVE  BatchInv'
  <1>0. PICK i, r : i = Head(stack).item /\ r = Head(stack).result
    OBVIOUS
  <1> DEFINE s == User("settled", i) \o <<Pump>>
  <1>1. /\ ~Quiet /\ Head(stack).op = "settle" /\ result[i] = "none"
        /\ result' = [result EXCEPT ![i] = r]
        /\ phase' = [phase EXCEPT ![i] = "settled"]
        /\ group' = [group EXCEPT ![i] = Nobody]
        /\ active' = RemoveFirst(active, i)
        /\ timer' = timer \ {i}
        /\ stack' = s \o Tail(stack)
        /\ UNCHANGED <<queue, cancelled, stalled, shared, leader, aborted, wire, watchers,
                       batchVars, jobs>>
    BY <1>0 DEF Settles, Innermost, Then, AfterSettling
  <1>2. /\ stack \in Seq(Frames) /\ StackAgrees
        /\ interrupted \subseteq Items /\ interrupted' = interrupted
        /\ active \in Seq(Items) /\ IsInjective(active)
        /\ phase \in [Items -> Phases] /\ result \in [Items -> Results]
        /\ group \in [Items -> Items \cup {Nobody}]
        /\ timer \subseteq Running
    BY <1>1 DEF BatchInv, Typed, PumpIsDue, batchVars
  <1>3. /\ i \in Items /\ r \in Results \ {"none"}
        /\ Due = {Head(stack)} \cup Rest
        /\ FrameAgrees(Head(stack))
    <2>1. /\ Head(stack) \in Due /\ Head(stack) \in Frames
          /\ Due = {Head(stack)} \cup Rest
      BY <1>1, <1>2, StackParts
    <2> QED
      BY <1>0, <1>1, <2>1, FrameFields DEF BatchInv, FramesAgree
  <1>4. /\ phase[i] # "settled" /\ r # "pulled"
        /\ i \in Running \/ Condemned(i)
        /\ i \in Running /\ Request(i) # Nobody => wire[Request(i)] # "open"
    <2>1. phase[i] # "settled"
      BY <1>1, <1>3 DEF BatchInv, PhasesAgree
    <2> QED
      BY <1>0, <1>1, <1>3, <2>1 DEF FrameAgrees, Admitted
  <1>5. i \notin ToSet(queue)
    BY <1>3, <1>4 DEF BatchInv, PhasesAgree, Condemned
  <1>6. /\ s \in Seq(Frames) /\ \A f \in ToSet(s) : f.op \in {"user", "pump"}
        /\ \E f \in ToSet(s) : f.op = "pump"
    <2> DEFINE u == User("settled", i)
               p == <<Pump>>
    <2>1. u \in Seq(Frames) /\ \A f \in ToSet(u) : f.op = "user"
      BY <1>3, NewFrames
    <2>2. p \in Seq(Frames) /\ ToSet(p) = {Pump}
      BY NewFrames, ElementsOfOne
    <2>3. Pump.op = "pump"
      BY DEF Pump
    <2> HIDE DEF u, p
    <2>4. u \o p \in Seq(Frames) /\ ToSet(u \o p) = ToSet(u) \cup ToSet(p)
      BY <2>1, <2>2, ElementsOfConcat
    <2>5. /\ u \o p \in Seq(Frames) /\ \A f \in ToSet(u \o p) : f.op \in {"user", "pump"}
          /\ \E f \in ToSet(u \o p) : f.op = "pump"
      BY <2>1, <2>2, <2>3, <2>4
    <2> QED
      BY <2>5 DEF u, p
  <1>7. PICK t : t = s
    OBVIOUS
  <1> HIDE DEF s
  <1>8. /\ stack' \in Seq(Frames) /\ Due' = ToSet(t) \cup Rest
        /\ StackAgrees' /\ \A m : Opening(m)' <=> Opening(m)
        /\ ~Opening(i)
    <2>1. Starting = {} /\ ~Opening(i)
      BY <1>1, <1>3, <1>4, NobodyStarts DEF Innermost, BatchInv, SlotsTaken, Condemned
    <2>2. t \in Seq(Frames) /\ \A f \in ToSet(t) : f.op # "open"
      BY <1>6, <1>7
    <2>3. stack' = t \o Tail(stack)
      BY <1>1, <1>7
    <2> QED
      BY <1>1, <1>2, <2>1, <2>2, <2>3, GoesOn
  <1>9. /\ active' \in Seq(Items) /\ IsInjective(active')
        /\ Running' = Running \ {i}
        /\ Len(active') <= Len(active) /\ Len(active') \in Nat /\ Len(active) \in Nat
    BY <1>1, <1>2, ElementsOfRemove, LenProperties DEF Running
  <1>10. /\ phase' \in [Items -> Phases] /\ phase'[i] = "settled"
         /\ \A m \in Items : m # i => phase'[m] = phase[m]
         /\ result' \in [Items -> Results] /\ result'[i] = r
         /\ \A m \in Items : m # i => result'[m] = result[m]
         /\ group' \in [Items -> Items \cup {Nobody}] /\ group'[i] = Nobody
         /\ \A m \in Items : m # i => group'[m] = group[m]
    BY <1>1, <1>2, <1>3 DEF Phases
  <1>11. /\ dedupe' = dedupe
         /\ \A m \in Items : m # i => Request(m)' = Request(m)
         /\ \A h \in Items : Sharers(h)' = Sharers(h) \ {i}
    <2>1. dedupe' = dedupe
      BY <1>1 DEF dedupe, batchVars
    <2>2. \A h \in Items : h # Nobody
      BY DEF Items, Nobody
    <2> QED
      BY <1>10, <2>1, <2>2 DEF Request, Sharers
  <1>12. /\ \A m \in Items : Admitted(m) => Admitted(m)'
         /\ Admitted(i)' /\ ~Condemned(i)'
         /\ \A m \in Items : m # i => (Condemned(m)' <=> Condemned(m))
         /\ \A m \in Items : Waiting(m)' => Waiting(m) /\ m # i
         /\ \A m \in Items : phase[m] = "settled" => phase'[m] = "settled"
    BY <1>1, <1>8, <1>9, <1>10 DEF Admitted, Condemned, Waiting
  <1>13. \A m \in Running : m \in Items
    BY <1>2, ElementsOf DEF Running
  <1>14. Typed'
    BY <1>1, <1>8, <1>9, <1>10 DEF BatchInv, Typed, batchVars
  <1>15. PhasesAgree'
    <2>1. ASSUME NEW m \in Items, Condemned(m)'
          PROVE  EndIsDue(m)'
      <3>1. m # i /\ Condemned(m)
        BY <1>12, <2>1
      <3>2. PICK f \in Due : Ends(f, m)
        BY <3>1 DEF BatchInv, PhasesAgree, EndIsDue
      <3>3. f \in Rest
        BY <1>0, <1>1, <1>3, <3>1, <3>2 DEF Ends
      <3> QED
        BY <1>8, <3>2, <3>3 DEF EndIsDue, Ends
    <2>2. \A m \in Items : /\ result'[m] # "none" <=> phase'[m] = "settled"
                           /\ result'[m] # "pulled"
      BY <1>3, <1>4, <1>10 DEF BatchInv, PhasesAgree
    <2>3. \A m \in Items : /\ m \in ToSet(queue') => phase'[m] = "queued"
                           /\ m \in Running' => phase'[m] = "active"
                           /\ phase'[m] = "active" => m \in Running' \/ Opening(m)'
      BY <1>1, <1>5, <1>8, <1>9, <1>10 DEF BatchInv, PhasesAgree
    <2> QED
      BY <2>1, <2>2, <2>3 DEF PhasesAgree
  <1>16. FramesAgree'
    <2>1. SUFFICES ASSUME NEW f \in Due'
                   PROVE  FrameAgrees(f)'
      BY DEF FramesAgree
    <2>2. CASE f \in ToSet(t)
      BY <1>6, <1>7, <2>2 DEF FrameAgrees
    <2>3. CASE f \in Rest
      <3>1. FrameAgrees(f) /\ f \in Frames
        BY <1>2, <1>3, <2>3, StackParts DEF BatchInv, FramesAgree
      <3>2. /\ f.op \in {"settle", "drop"} => f.item \in Items
            /\ f.op \in {"cancelQueued", "cancelActive"} => ToSet(f.items) \subseteq Items
        BY <3>1, FrameFields, ElementsOf
      <3>3. CASE f.op = "settle"
        <4>1. CASE f.item = i
          BY <1>9, <1>10, <1>12, <3>3, <4>1 DEF FrameAgrees
        <4>2. CASE f.item # i
          BY <1>1, <1>9, <1>11, <1>12, <3>1, <3>2, <3>3, <4>2 DEF FrameAgrees
        <4> QED
          BY <4>1, <4>2
      <3>4. CASE f.op # "settle"
        BY <1>1, <1>8, <1>10, <1>12, <3>1, <3>2, <3>4 DEF FrameAgrees
      <3> QED
        BY <3>3, <3>4
    <2> QED
      BY <1>8, <2>2, <2>3
  <1>17. Untouched'
    BY <1>1, <1>10, <1>12 DEF BatchInv, Untouched
  <1>18. PumpIsDue'
    <2>1. \E f \in Due' : f.op = "pump"
      BY <1>6, <1>7, <1>8
    <2>2. drained' => NothingToCome'
      BY <1>1, <1>2, <1>8, <1>9 DEF BatchInv, PumpIsDue, NothingToCome, batchVars
    <2>4. timer' \subseteq Running'
      BY <1>1, <1>2, <1>9
    <2>5. signalAborted' => queue' = <<>>
      BY <1>1 DEF BatchInv, PumpIsDue, batchVars
    <2> QED
      BY <2>1, <2>2, <2>4, <2>5 DEF PumpIsDue
  <1>19. Shares'
    <2>1. (\A m \in Items : group[m] # Nobody => dedupe /\ m \in Running /\ wire[group[m]] # "none")'
      <3>1. ASSUME NEW m \in Items, group'[m] # Nobody
            PROVE  dedupe /\ m \in Running' /\ wire[group'[m]] # "none"
        BY <1>9, <1>10, <3>1 DEF BatchInv, Shares
      <3> QED
        BY <1>1, <1>11, <3>1
    <2>2. (\A k \in Keys : shared[k] # Nobody => dedupe /\ wire[shared[k]] # "none")'
      BY <1>1, <1>11 DEF BatchInv, Shares, batchVars
    <2>3. (\A m \in Running : Request(m) = Nobody => \E f \in Due : f.op = "settle" /\ f.item = m)'
      <3>1. SUFFICES ASSUME NEW m \in Running', Request(m)' = Nobody
                     PROVE  \E f \in Due' : f.op = "settle" /\ f.item = m
        OBVIOUS
      <3>2. m \in Running /\ m # i /\ m \in Items
        BY <1>9, <1>13, <3>1
      <3>3. Request(m) = Nobody
        BY <1>11, <3>1, <3>2
      <3>4. PICK f \in Due : f.op = "settle" /\ f.item = m
        BY <3>2, <3>3 DEF BatchInv, Shares
      <3> QED
        BY <1>0, <1>3, <1>8, <3>2, <3>4
    <2>4. ASSUME dedupe, NEW h \in Items
          PROVE  /\ wire[h] = "open" /\ Sharers(h)' = {} => aborted[h] # "no"
                 /\ aborted[h] = "cancel" => Sharers(h)' = {} /\ \A k \in Keys : shared[k] # h
      <3>1. wire[h] = "open" => i \notin Sharers(h)
        <4>1. SUFFICES ASSUME group[i] = h, wire[h] = "open"
                       PROVE  FALSE
          BY DEF Sharers
        <4>2. h # Nobody
          BY DEF Items, Nobody
        <4>3. i \in Running
          BY <1>3, <4>1, <4>2 DEF BatchInv, Shares
        <4> QED
          BY <1>4, <2>4, <4>1, <4>2, <4>3 DEF Request
      <3> QED
        BY <1>11, <2>4, <3>1 DEF BatchInv, Shares
    <2>5. ASSUME ~dedupe, NEW h \in Items
          PROVE  /\ wire[h] = "open" => h \in Running'
                 /\ aborted[h] = "cancel" => h \in cancelled
      <3>1. i # Nobody
        BY <1>3 DEF Items, Nobody
      <3>2. wire[h] = "open" => h \in Running /\ h # i
        BY <1>4, <2>5, <3>1 DEF BatchInv, Shares, Request
      <3> QED
        BY <1>9, <2>5, <3>2 DEF BatchInv, Shares
    <2> QED
      BY <1>1, <1>11, <2>1, <2>2, <2>3, <2>4, <2>5 DEF Shares, batchVars
  <1>20. LeadIn'
    <2>1. SUFFICES ASSUME NEW h \in Items, wire[h] = "open", aborted[h] = "no"
                   PROVE  /\ leader[h] \in timer' /\ leader[h] \in Running'
                          /\ Request(leader[h])' = h
      BY <1>1 DEF LeadIn
    <2>2. leader[h] \in timer /\ leader[h] \in Running /\ Request(leader[h]) = h
      BY <2>1 DEF BatchInv, LeadIn
    <2>3. leader[h] # i
      <3>1. h # Nobody
        BY DEF Items, Nobody
      <3> QED
        BY <1>4, <2>1, <2>2, <3>1
    <2>4. leader[h] \in Items /\ leader'[h] = leader[h]
      BY <1>1, <1>13, <2>2
    <2>5. Request(leader[h])' = h
      <3>1. PICK l : l = leader[h]
        OBVIOUS
      <3>2. Request(l)' = h
        BY <1>11, <2>2, <2>3, <2>4, <3>1
      <3> QED
        BY <2>4, <3>1, <3>2
    <2> QED
      BY <1>1, <1>9, <2>2, <2>3, <2>5
  <1>21. ReactionsAgree'
    <2>1. ASSUME NEW h \in Items, NEW m \in Items, Reacts(h, m)'
          PROVE  Admitted(m)' /\ (m \in Running' => Request(m)' \in {h, Nobody})
      <3>1. Reacts(h, m)
        BY <1>1, <2>1 DEF Reacts
      <3> QED
        BY <1>9, <1>11, <1>12, <3>1 DEF BatchInv, ReactionsAgree
    <2> QED
      BY <1>1, <2>1 DEF BatchInv, ReactionsAgree
  <1>22. SlotsTaken'
    <2>1. \A m \in Items : Opening(m) => phase'[m] = phase[m]
      BY <1>8, <1>10
    <2> QED
      BY <1>2, <1>8, <1>9, <1>13, <2>1, SlotsStayTaken DEF BatchInv
  <1> QED
    BY <1>8, <1>22, <1>14, <1>15, <1>16, <1>17, <1>18, <1>19, <1>20, <1>21 DEF BatchInv

-------------------------------------------------------------------------------
LEMMA BatchInitInv == Init => BatchInv
  <1> SUFFICES ASSUME Init
               PROVE  BatchInv
    OBVIOUS
  <1>1. /\ ToSet(queue) = {} /\ Running = {} /\ ToSet(jobs) = {} /\ Due = {}
        /\ \A i \in Items : ToSet(watchers[i]) = {}
        /\ Len(active) = 0
    BY DEF Init, ToSet, Running, Due
  <1>2. Quiet /\ Rest = {} /\ \A i : ~Opening(i)
    BY <1>1 DEF Init, Quiet, Rest, Opening
  <1>3. Typed
    <2>1. IsInjective(<<>>)
      BY DEF IsInjective
    <2>2. /\ shared \in [Keys -> Items \cup {Nobody}]
          /\ group \in [Items -> Items \cup {Nobody}]
          /\ leader \in [Items -> Items] /\ phase \in [Items -> Phases]
          /\ result \in [Items -> Results] /\ watchers \in [Items -> Seq(Items)]
          /\ wire \in [Items -> {"none", "open", "resolved", "rejected"}]
          /\ aborted \in [Items -> {"no", "cancel", "stall"}]
      BY DEF Init, Phases, Results
    <2>3. /\ queue \in Seq(Items) /\ active \in Seq(Items)
          /\ jobs \in Seq(Reactions) /\ stack \in Seq(Frames)
      BY DEF Init
    <2> QED
      BY <2>1, <2>2, <2>3 DEF Init, Typed
  <1>4. PhasesAgree /\ StackAgrees /\ SlotsTaken /\ FramesAgree
    <2>1. Apart(stack)
      BY DEF Init, Apart
    <2>2. Cardinality(Occupied) = 0
      <3>1. Occupied = {}
        BY <1>1, <1>2 DEF Occupied
      <3> QED
        BY <3>1, FS_EmptySet
    <2> QED
      BY <1>1, <1>2, <2>1, <2>2, DownloadsAssumption
         DEF Init, PhasesAgree, StackAgrees, SlotsTaken, FramesAgree, Condemned
  <1>5. Untouched
    BY DEF Init, Untouched
  <1>6. PumpIsDue
    BY <1>1, <1>2, DownloadsAssumption DEF Init, PumpIsDue, CanStart
  <1>7. Shares
    BY <1>1 DEF Init, Shares
  <1>8. LeadIn /\ ReactionsAgree
    BY <1>1 DEF Init, LeadIn, ReactionsAgree, Reacts
  <1> QED
    BY <1>3, <1>4, <1>5, <1>6, <1>7, <1>8 DEF BatchInv

LEMMA BatchStutters ==
  ASSUME BatchInv, UNCHANGED vars
  PROVE  BatchInv'
  <1>1. UNCHANGED <<keyOf, queue, active, phase, result, cancelled, stalled, timer, signalAborted,
                    drained, interrupted, group, shared, leader, aborted, wire, watchers,
                    jobs, stack>>
    BY DEF vars, itemVars, requestVars, batchVars
  <1>2. Typed' /\ Untouched' /\ LeadIn'
    BY <1>1 DEF BatchInv, Typed, Untouched, LeadIn, Waiting, Opening, Due,
                Running, Request, dedupe
  <1>3. PhasesAgree' /\ StackAgrees' /\ SlotsTaken'
    BY <1>1 DEF BatchInv, PhasesAgree, StackAgrees, SlotsTaken, Running, Opening, Innermost,
                Quiet, Condemned, EndIsDue, Ends, Due, Rest, Starting, Occupied, Apart
  <1>4. FramesAgree'
    BY <1>1 DEF BatchInv, FramesAgree, FrameAgrees, Due, Admitted, Condemned, Opening, Running,
                Request, dedupe
  <1>5. PumpIsDue' /\ Shares'
    BY <1>1 DEF BatchInv, PumpIsDue, Shares, Due, CanStart, HasRoom, NothingToCome, Opening,
                Running, Request, Sharers, dedupe
  <1>6. ReactionsAgree'
    BY <1>1 DEF BatchInv, ReactionsAgree, Reacts, Admitted, Running, Request, dedupe
  <1> QED
    BY <1>2, <1>3, <1>4, <1>5, <1>6 DEF BatchInv

LEMMA BatchStep ==
  ASSUME BatchInv, [Next]_vars
  PROVE  BatchInv'
  <1>1. ASSUME NEW i \in Items, Add(i) \/ Cancel(i)
        PROVE  BatchInv'
    BY <1>1, AddKeeps, CancelKeeps
  <1>2. CASE CancelBatch
    BY <1>2, CancelAllKeeps DEF CancelBatch, BatchInv, Typed
  <1>3. CASE SignalAborts
    BY <1>3, CancelAllKeeps DEF SignalAborts
  <1>4. CASE UserReturns \/ PumpEnds \/ SettledAlready
    BY <1>4, UserReturnsKeeps, PumpEndsKeeps, SettledAlreadyKeeps
  <1>5. CASE PumpStarts \/ Join \/ Open
    BY <1>5, PumpStartsKeeps, JoinKeeps, OpenKeeps
  <1>6. CASE DropOwn \/ DropShared \/ Settles \/ CancelsNext
    BY <1>6, DropOwnKeeps, DropSharedKeeps, SettlesKeeps, CancelsNextKeeps
  <1>7. CASE Forget \/ React
    BY <1>7, ForgetKeeps, ReactKeeps
  <1>8. ASSUME NEW g \in Items, Chunk(g) \/ Expire(g) \/ Reply(g)
        PROVE  BatchInv'
    BY <1>8, ChunkKeeps, ExpireKeeps, ReplyKeeps
  <1>9. CASE UNCHANGED vars
    BY <1>9, BatchStutters
  <1> QED
    BY <1>1, <1>2, <1>3, <1>4, <1>5, <1>6, <1>7, <1>8, <1>9 DEF Next, UserCalls, MethodStep

\* A batch keeps the invariant, whichever callbacks call the manager back.
THEOREM BatchSafe == Spec => []BatchInv
  <1>1. BatchInv /\ [Next]_vars => BatchInv'
    BY BatchStep
  <1> QED
    BY <1>1, BatchInitInv, PTL DEF Spec

\* Between two tasks the queue and #active are what the phases say they are.
THEOREM BatchTyped == Spec => []TypeOK
  <1>1. BatchInv => TypeOK
    <2> SUFFICES ASSUME BatchInv
                 PROVE  TypeOK
      OBVIOUS
    <2>1. /\ ToSet(queue) \subseteq Items /\ IsInjective(queue)
          /\ Running \subseteq Items /\ IsInjective(active)
      BY ElementsOf DEF BatchInv, Typed, Running
    <2>2. ASSUME Quiet
          PROVE  /\ ToSet(queue) = {i \in Items : phase[i] = "queued"}
                 /\ Running = {i \in Items : phase[i] = "active"}
      <3>1. Due = {} /\ \A i : ~Opening(i)
        BY <2>2, StackParts DEF BatchInv, Typed, Opening
      <3>2. \A i \in Items : /\ phase[i] = "queued" => i \in ToSet(queue)
                             /\ phase[i] = "active" => i \in Running
        BY <3>1 DEF BatchInv, PhasesAgree, Condemned, EndIsDue
      <3>3. \A i \in Items : /\ i \in ToSet(queue) => phase[i] = "queued"
                             /\ i \in Running => phase[i] = "active"
        BY DEF BatchInv, PhasesAgree
      <3> QED
        BY <2>1, <3>2, <3>3
    <2>3. timer \subseteq Items
      BY <2>1 DEF BatchInv, PumpIsDue
    <2> QED
      BY <2>1, <2>2, <2>3 DEF TypeOK, BatchInv, Typed
  <1> QED
    BY <1>1, BatchSafe, PTL

\* The limit holds within every method, but for items whose start was interrupted, and
\* no slot stays free while an item is queued.
THEOREM BatchUsesItsRoom == Spec => []RoomIsUsed
  <1>1. BatchInv => RoomIsUsed
    <2> SUFFICES ASSUME BatchInv
                 PROVE  RoomIsUsed
      OBVIOUS
    <2>1. Cardinality(Running \ interrupted) <= Concurrency
      <3>1. Running \ interrupted \subseteq Occupied /\ Occupied \in SUBSET Items
        BY ElementsOf DEF Occupied, BatchInv, Typed, Running
      <3>2. /\ IsFiniteSet(Occupied) /\ Cardinality(Occupied) \in Nat
            /\ Cardinality(Running \ interrupted) \in Nat
        BY <3>1, SlotsAreFinite
      <3>3. Cardinality(Running \ interrupted) <= Cardinality(Occupied)
        BY <3>1, <3>2, FS_Subset
      <3> QED
        BY <3>2, <3>3, DownloadsAssumption DEF BatchInv, SlotsTaken
    <2>2. ASSUME Quiet, queue # <<>>
          PROVE  Len(active) >= Concurrency /\ ~signalAborted
      <3>1. Due = {}
        BY <2>2, StackParts DEF BatchInv, Typed
      <3>2. ~CanStart /\ ~signalAborted
        BY <2>2, <3>1 DEF BatchInv, PumpIsDue
      <3>3. ~(Len(active) < Concurrency)
        BY <2>2, <3>2 DEF CanStart, HasRoom
      <3> QED
        BY <3>2, <3>3, LenProperties, DownloadsAssumption DEF BatchInv, Typed
    <2> QED
      BY <2>1, <2>2 DEF RoomIsUsed
  <1> QED
    BY <1>1, BatchSafe, PTL

\* Whether a shared request lives is decided by those who share it, and by nobody else.
THEOREM BatchCountsItsSharers == Spec => []RefCounted
  <1>1. BatchInv => RefCounted
    BY DEF BatchInv, Shares, PhasesAgree, RefCounted
  <1> QED
    BY <1>1, BatchSafe, PTL

\* A request somebody waits for has its watchdog, through every change of leader.
THEOREM BatchWatchesItsRequests == Spec => []WatchdogFollows
  <1>1. BatchInv => WatchdogFollows
    <2> SUFFICES ASSUME BatchInv, Quiet, NEW i \in Running,
                        wire[Request(i)] = "open", aborted[Request(i)] = "no"
                 PROVE  /\ leader[Request(i)] \in timer /\ leader[Request(i)] \in Running
                        /\ Request(leader[Request(i)]) = Request(i)
      BY DEF WatchdogFollows
    <2>1. i \in Items
      BY ElementsOf DEF BatchInv, Typed, Running
    <2>2. Due = {}
      BY StackParts DEF BatchInv, Typed
    <2>3. Request(i) \in Items
      BY <2>1, <2>2 DEF BatchInv, Shares, Typed, Request
    <2> QED
      BY <2>3 DEF BatchInv, LeadIn
  <1> QED
    BY <1>1, BatchSafe, PTL

\* Who is told that the batch is done is told the truth, but for items whose start was
\* interrupted.
THEOREM BatchIsDoneWhenDrained == Spec => []DrainedIsDone
  <1>1. BatchInv => DrainedIsDone
    <2> SUFFICES ASSUME BatchInv, Quiet, drained, NEW i \in Items
                 PROVE  phase[i] \in {"new", "settled"} \/ i \in interrupted
      BY DEF DrainedIsDone
    <2>1. Due = {} /\ ~Opening(i)
      BY StackParts DEF BatchInv, Typed, Opening
    <2>2. i \notin ToSet(queue) /\ (i \in Running => i \in interrupted)
      BY DEF BatchInv, PumpIsDue, NothingToCome, ToSet
    <2>3. phase[i] # "queued" /\ (phase[i] = "active" => i \in interrupted)
      BY <2>1, <2>2 DEF BatchInv, PhasesAgree, Condemned, EndIsDue
    <2> QED
      BY <2>3 DEF BatchInv, Typed, Phases
  <1> QED
    BY <1>1, BatchSafe, PTL
===============================================================================
