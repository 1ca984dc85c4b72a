---------------------------- MODULE ThrottleProofs ----------------------------
(***************************************************************************)
(* The limiter's invariant, for every set of callers and every limit, and  *)
(* the refinement of the abstract semaphore.  The lemmas are stated per    *)
(* operation of createThrottle so that EngineProofs can cite them for the  *)
(* same operations called by the engine.                                   *)
(***************************************************************************)
EXTENDS Throttle, FiniteSetTheorems, SequenceTheorems, TLAPS

\* The abstract specification's Cardinality is the module's.
LEMMA SameCardinality == \A S : Sem!Cardinality(S) = Cardinality(S)
  BY DEF Sem!Cardinality, Cardinality

\* The owners are a finite set.
LEMMA OwnersFinite == IsFiniteSet(Owners) /\ Cardinality(Owners) \in Nat
  <1>1. Owners \subseteq Calls
    BY DEF Owners
  <1>2. IsFiniteSet(Owners)
    BY <1>1, FS_Subset, ThrottleAssumption
  <1> QED
    BY <1>2, FS_CardinalityType

\* The invariant holds when the limiter is created.
LEMMA InitInv == ThrottleInit => ThrottleInv
  <1> SUFFICES ASSUME ThrottleInit
               PROVE  ThrottleInv
    OBVIOUS
  <1> USE ThrottleAssumption DEF ThrottleInit
  <1>1. ThrottleTypeOK
    BY DEF ThrottleTypeOK, AcqStates
  <1>2. SlotsCounted
    <2>1. Owners = {}
      BY DEF Owners
    <2> QED
      BY <2>1, FS_EmptySet DEF SlotsCounted
  <1>3. QueueExact
    BY DEF QueueExact
  <1>4. NoIdleSlot
    BY DEF NoIdleSlot
  <1> QED
    BY <1>1, <1>2, <1>3, <1>4 DEF ThrottleInv

(***************************************************************************)
(* What each operation does to the queue and to the slots.  These facts do *)
(* not need the count to be exact: they hold for a limiter that was        *)
(* released too often as well.                                             *)
(***************************************************************************)
QueueInv == ThrottleTypeOK /\ QueueExact /\ NoIdleSlot

\* acquire counts a slot for its caller, or queues it when the limit is reached.
LEMMA AcquireOnSlots ==
  ASSUME QueueInv, NEW c \in Calls, Acquire(c)
  PROVE  /\ QueueInv'
         /\ c \notin Owners
         /\ \/ /\ inFlight < Limit /\ inFlight' = inFlight + 1
               /\ Owners' = Owners \cup {c} /\ waiters' = waiters
            \/ /\ inFlight = Limit /\ inFlight' = inFlight
               /\ Owners' = Owners /\ waiters' = Append(waiters, c)
  <1> USE ThrottleAssumption DEF QueueInv, AcqStates
  <1>1. ThrottleTypeOK
    OBVIOUS
  <1>2. CASE inFlight < Limit
    <2>1. waiters = <<>>
      BY <1>2 DEF NoIdleSlot
    <2>2. ThrottleTypeOK'
      <3>1. waited' \in [Calls -> BOOLEAN]
        BY <1>2, <1>1, Zenon DEF Acquire, ThrottleTypeOK
      <3>2. inFlight' \in 0..Limit /\ acq' \in [Calls -> AcqStates] /\ waiters' = waiters
        BY <1>2, <1>1 DEF Acquire, ThrottleTypeOK
      <3> QED
        BY <1>1, <3>1, <3>2 DEF ThrottleTypeOK
    <2>3. Owners' = Owners \cup {c} /\ c \notin Owners
      BY <1>2, <1>1 DEF Acquire, ThrottleTypeOK, Owners
    <2>4. inFlight' = inFlight + 1 /\ waiters' = waiters
      BY <1>2 DEF Acquire
    <2>5. QueueExact'
      BY <1>2, <1>1, <2>1 DEF Acquire, QueueExact, ThrottleTypeOK
    <2>6. NoIdleSlot'
      BY <1>2, <2>1 DEF Acquire, NoIdleSlot
    <2> QED
      BY <1>2, <2>2, <2>3, <2>4, <2>5, <2>6
  <1>3. CASE ~(inFlight < Limit)
    <2>1. c \in Calls \ RateOnly /\ waiters \in Seq(Calls \ RateOnly)
      BY <1>1 DEF Acquire, ThrottleTypeOK
    <2>2. waiters' = Append(waiters, c)
      BY <1>3 DEF Acquire
    <2>3. /\ waiters' \in Seq(Calls \ RateOnly)
          /\ Len(waiters') = Len(waiters) + 1
          /\ \A i \in 1..Len(waiters) : waiters'[i] = waiters[i]
          /\ waiters'[Len(waiters) + 1] = c
          /\ Len(waiters) \in Nat
      BY <2>1, <2>2, AppendProperties, LenProperties
    <2>4. ThrottleTypeOK'
      BY <1>3, <1>1, <2>3 DEF Acquire, ThrottleTypeOK
    <2>5. Owners' = Owners /\ c \notin Owners
      BY <1>3, <1>1 DEF Acquire, ThrottleTypeOK, Owners
    <2>6. inFlight = Limit /\ inFlight' = inFlight
      BY <1>3, <1>1 DEF Acquire, ThrottleTypeOK
    <2>7. acq[c] = "none" /\ acq' = [acq EXCEPT ![c] = "queued"]
      BY <1>3 DEF Acquire
    <2>8. \A i \in 1..Len(waiters) : waiters[i] # c
      BY <2>7 DEF QueueExact
    <2>9. QueueExact'
      <3>1. ASSUME NEW e \in Calls
            PROVE  acq'[e] = "queued" <=> \E i \in 1..Len(waiters') : waiters'[i] = e
        <4>1. CASE e = c
          BY <4>1, <2>3, <2>7, <1>1 DEF ThrottleTypeOK
        <4>2. CASE e # c
          <5>1. acq'[e] = acq[e]
            BY <4>2, <2>7, <1>1 DEF ThrottleTypeOK
          <5>2. acq[e] = "queued" <=> \E i \in 1..Len(waiters) : waiters[i] = e
            BY DEF QueueExact
          <5> QED
            BY <4>2, <5>1, <5>2, <2>3
        <4> QED
          BY <4>1, <4>2
      <3>2. \A i, j \in 1..Len(waiters') : waiters'[i] = waiters'[j] => i = j
        BY <2>3, <2>8 DEF QueueExact
      <3> QED
        BY <3>1, <3>2 DEF QueueExact
    <2>10. NoIdleSlot'
      BY <1>3, <1>1 DEF Acquire, NoIdleSlot, ThrottleTypeOK
    <2> QED
      BY <2>2, <2>4, <2>5, <2>6, <2>9, <2>10
  <1> QED
    BY <1>2, <1>3

\* A rate-only acquire leaves the slots alone.
LEMMA RateOnlyOnSlots ==
  ASSUME QueueInv, NEW c \in Calls, AcquireRateOnly(c)
  PROVE  QueueInv' /\ Owners' = Owners /\ UNCHANGED <<waiters, inFlight>>
  <1> USE ThrottleAssumption DEF QueueInv, AcqStates
  <1>1. /\ c \in RateOnly /\ acq[c] = "none"
        /\ acq' = [acq EXCEPT ![c] = "resolved"] \/ acq' = [acq EXCEPT ![c] = "pacing"]
        /\ inFlight' = inFlight /\ waiters' = waiters
    BY DEF AcquireRateOnly
  <1>2. waited' \in [Calls -> BOOLEAN]
    BY Zenon DEF AcquireRateOnly, ThrottleTypeOK
  <1>3. ThrottleTypeOK'
    BY <1>1, <1>2 DEF ThrottleTypeOK
  <1>4. Owners' = Owners
    BY <1>1 DEF ThrottleTypeOK, Owners
  <1>5. NoIdleSlot'
    BY <1>1, <1>4 DEF NoIdleSlot
  <1>6. QueueExact'
    BY <1>1 DEF QueueExact, ThrottleTypeOK
  <1> QED
    BY <1>1, <1>3, <1>4, <1>5, <1>6

\* The continuations of an acquire keep its slot, or its freedom from one.
LEMMA ContinuationOnSlots ==
  ASSUME QueueInv, NEW c \in Calls, Slotted(c) \/ Paced(c)
  PROVE  QueueInv' /\ Owners' = Owners /\ UNCHANGED <<waiters, inFlight>>
  <1> USE ThrottleAssumption DEF QueueInv, AcqStates
  <1>1. /\ acq[c] \in {"slotted", "pacing"}
        /\ acq' = [acq EXCEPT ![c] = "resolved"] \/ acq' = [acq EXCEPT ![c] = "pacing"]
        /\ inFlight' = inFlight /\ waiters' = waiters
    BY DEF Slotted, Paced, Pace
  <1>2. waited' \in [Calls -> BOOLEAN]
    BY Zenon DEF Slotted, Paced, Pace, ThrottleTypeOK
  <1>3. ThrottleTypeOK'
    BY <1>1, <1>2 DEF ThrottleTypeOK
  <1>4. Owners' = Owners
    BY <1>1 DEF ThrottleTypeOK, Owners
  <1>5. NoIdleSlot'
    BY <1>1, <1>4 DEF NoIdleSlot
  <1>6. QueueExact'
    BY <1>1 DEF QueueExact, ThrottleTypeOK
  <1> QED
    BY <1>1, <1>3, <1>4, <1>5, <1>6

\* Dropping a rate-only grant leaves the slots alone.
LEMMA DropOnSlots ==
  ASSUME QueueInv, NEW c \in RateOnly, acq[c] = "resolved",
         acq' = WithoutGrant(c), UNCHANGED <<inFlight, waiters, waited>>
  PROVE  QueueInv' /\ Owners' = Owners /\ UNCHANGED <<waiters, inFlight>>
  <1> USE ThrottleAssumption DEF QueueInv, AcqStates, WithoutGrant
  <1>1. ThrottleTypeOK'
    BY DEF ThrottleTypeOK
  <1>2. Owners' = Owners
    BY DEF ThrottleTypeOK, Owners
  <1>3. NoIdleSlot'
    BY <1>2 DEF NoIdleSlot
  <1>4. QueueExact'
    BY DEF QueueExact, ThrottleTypeOK
  <1> QED
    BY <1>1, <1>2, <1>3, <1>4

(***************************************************************************)
(* release takes its caller's slot, if it holds one, and gives a slot to   *)
(* the first waiter or counts down.  A caller that holds none makes a      *)
(* release too many.                                                       *)
(***************************************************************************)
LEMMA ReleaseOnSlots ==
  ASSUME QueueInv, NEW c \in Calls \ RateOnly, acq[c] \in {"resolved", "none"},
         Release(WithoutGrant(c))
  PROVE  /\ QueueInv'
         /\ waiters = <<>> => /\ Owners' = Owners \ {c} /\ waiters' = <<>>
                              /\ inFlight' = IF inFlight > 0 THEN inFlight - 1 ELSE 0
         /\ waiters # <<>> => /\ Owners' = (Owners \ {c}) \cup {Head(waiters)}
                              /\ Head(waiters) \in Calls \ (Owners \cup {c})
                              /\ waiters' = Tail(waiters)
                              /\ inFlight' = inFlight
  <1> USE ThrottleAssumption DEF QueueInv, AcqStates, WithoutGrant
  <1>2. waited' = waited
    BY DEF Release
  <1>3. CASE waiters = <<>>
    <2>1. acq' = [acq EXCEPT ![c] = "none"] /\ waiters' = waiters
      BY <1>3 DEF Release
    <2>2. Owners' = Owners \ {c}
      BY <2>1 DEF Owners, ThrottleTypeOK
    <2>4. inFlight' = IF inFlight > 0 THEN inFlight - 1 ELSE 0
      BY <1>3 DEF Release
    <2>6. ThrottleTypeOK'
      BY <1>2, <2>1, <2>4 DEF ThrottleTypeOK
    <2>7. QueueExact' /\ NoIdleSlot'
      BY <1>3, <2>1 DEF QueueExact, NoIdleSlot, ThrottleTypeOK
    <2> QED
      BY <1>3, <2>1, <2>2, <2>4, <2>6, <2>7
  <1>4. CASE waiters # <<>>
    <2> DEFINE h == Head(waiters)
    <2>1. /\ acq' = [[acq EXCEPT ![c] = "none"] EXCEPT ![h] = "slotted"]
          /\ waiters' = Tail(waiters)
          /\ inFlight' = inFlight
      BY <1>4 DEF Release
    <2>2. /\ waiters \in Seq(Calls \ RateOnly)
          /\ Len(waiters) \in Nat \ {0}
          /\ h \in Calls \ RateOnly
          /\ h = waiters[1]
          /\ waiters' \in Seq(Calls \ RateOnly)
          /\ Len(waiters') = Len(waiters) - 1
          /\ \A i \in 1..Len(waiters') : waiters'[i] = waiters[i + 1]
      BY <1>4, <2>1, HeadTailProperties, EmptySeq DEF ThrottleTypeOK
    <2>3. acq[h] = "queued" /\ h # c
      BY <2>2 DEF QueueExact
    <2>4. Owners' = (Owners \ {c}) \cup {h} /\ h \in Calls \ (Owners \cup {c})
      BY <2>1, <2>2, <2>3 DEF Owners, ThrottleTypeOK
    <2>6. ThrottleTypeOK'
      BY <1>2, <2>1, <2>2 DEF ThrottleTypeOK
    <2>7. QueueExact'
      <3>1. ASSUME NEW e \in Calls
            PROVE  acq'[e] = "queued" <=> \E i \in 1..Len(waiters') : waiters'[i] = e
        <4>1. acq'[e] = "queued" <=> acq[e] = "queued" /\ e # h
          BY <2>1, <2>2, <2>3 DEF ThrottleTypeOK
        <4>2. acq[e] = "queued" <=> \E i \in 1..Len(waiters) : waiters[i] = e
          BY DEF QueueExact
        <4>3. \A i \in 1..Len(waiters) : waiters[i] = h => i = 1
          BY <2>2 DEF QueueExact
        <4>4. ASSUME NEW i \in 1..Len(waiters), waiters[i] = e, e # h
              PROVE  \E j \in 1..Len(waiters') : waiters'[j] = e
          <5>1. i - 1 \in 1..Len(waiters')
            BY <2>2, <4>4
          <5>2. waiters'[i - 1] = e
            BY <2>2, <4>4, <5>1
          <5> QED
            BY <5>1, <5>2
        <4>5. ASSUME NEW j \in 1..Len(waiters'), waiters'[j] = e
              PROVE  e # h /\ \E i \in 1..Len(waiters) : waiters[i] = e
          <5>1. j + 1 \in 1..Len(waiters) /\ waiters[j + 1] = e /\ j + 1 # 1
            BY <2>2, <4>5
          <5> QED
            BY <4>3, <5>1
        <4> QED
          BY <4>1, <4>2, <4>4, <4>5
      <3>2. ASSUME NEW i \in 1..Len(waiters'), NEW j \in 1..Len(waiters'),
                   waiters'[i] = waiters'[j]
            PROVE  i = j
        <4>1. i + 1 \in 1..Len(waiters) /\ j + 1 \in 1..Len(waiters)
          BY <2>2
        <4>2. waiters[i + 1] = waiters[j + 1]
          BY <2>2, <3>2
        <4>3. i + 1 = j + 1
          BY <4>1, <4>2 DEF QueueExact
        <4> QED
          BY <4>3
      <3> QED
        BY <3>1, <3>2 DEF QueueExact
    <2>8. NoIdleSlot'
      BY <1>4, <2>1 DEF NoIdleSlot
    <2> QED
      BY <1>4, <2>1, <2>4, <2>6, <2>7, <2>8
  <1> QED
    BY <1>3, <1>4

-------------------------------------------------------------------------------
\* acquire keeps the invariant, whether takeSlot counts the slot or queues.
LEMMA AcquireKeepsInv ==
  ASSUME ThrottleInv, NEW c \in Calls, Acquire(c)
  PROVE  ThrottleInv'
  <1>1. /\ QueueInv' /\ c \notin Owners
        /\ \/ inFlight' = inFlight + 1 /\ Owners' = Owners \cup {c}
           \/ inFlight' = inFlight /\ Owners' = Owners
    BY AcquireOnSlots DEF ThrottleInv, QueueInv
  <1>2. SlotsCounted'
    <2>1. Cardinality(Owners \cup {c}) = Cardinality(Owners) + 1
      BY <1>1, OwnersFinite, FS_AddElement
    <2> QED
      BY <1>1, <2>1 DEF ThrottleInv, SlotsCounted
  <1> QED
    BY <1>1, <1>2 DEF ThrottleInv, QueueInv

\* A rate-only acquire leaves the slots alone.
LEMMA RateOnlyKeepsInv ==
  ASSUME ThrottleInv, NEW c \in Calls, AcquireRateOnly(c)
  PROVE  ThrottleInv' /\ Owners' = Owners /\ waiters' = waiters
  BY RateOnlyOnSlots DEF ThrottleInv, QueueInv, SlotsCounted

\* The continuations of an acquire keep its slot, or its freedom from one.
LEMMA ContinuationKeepsInv ==
  ASSUME ThrottleInv, NEW c \in Calls, Slotted(c) \/ Paced(c)
  PROVE  ThrottleInv' /\ Owners' = Owners /\ waiters' = waiters
  BY ContinuationOnSlots DEF ThrottleInv, QueueInv, SlotsCounted

\* Dropping a rate-only grant leaves the slots alone.
LEMMA DropKeepsInv ==
  ASSUME ThrottleInv, NEW c \in RateOnly, acq[c] = "resolved",
         acq' = WithoutGrant(c), UNCHANGED <<inFlight, waiters, waited>>
  PROVE  ThrottleInv' /\ Owners' = Owners
  BY DropOnSlots DEF ThrottleInv, QueueInv, SlotsCounted

\* A release by an owner moves its slot to the first waiter or frees it.
LEMMA ReleaseMovesSlot ==
  ASSUME ThrottleInv, NEW c \in Calls \ RateOnly, acq[c] = "resolved",
         Release(WithoutGrant(c))
  PROVE  /\ ThrottleInv'
         /\ c \in Owners
         /\ waiters = <<>> => Owners' = Owners \ {c} /\ waiters' = <<>>
         /\ waiters # <<>> => /\ Owners' = (Owners \ {c}) \cup {Head(waiters)}
                             /\ waiters' = Tail(waiters)
  <1>1. c \in Owners
    BY DEF Owners
  <1>2. /\ QueueInv'
        /\ waiters = <<>> => /\ Owners' = Owners \ {c} /\ waiters' = <<>>
                             /\ inFlight' = IF inFlight > 0 THEN inFlight - 1 ELSE 0
        /\ waiters # <<>> => /\ Owners' = (Owners \ {c}) \cup {Head(waiters)}
                             /\ Head(waiters) \in Calls \ (Owners \cup {c})
                             /\ waiters' = Tail(waiters)
                             /\ inFlight' = inFlight
    BY ReleaseOnSlots DEF ThrottleInv, QueueInv
  <1>3. /\ IsFiniteSet(Owners \ {c})
        /\ Cardinality(Owners \ {c}) = Cardinality(Owners) - 1
        /\ Cardinality(Owners) # 0
    BY <1>1, OwnersFinite, FS_RemoveElement, FS_EmptySet
  <1>4. SlotsCounted'
    <2>1. CASE waiters = <<>>
      <3>1. inFlight = Cardinality(Owners) /\ inFlight > 0
        BY <1>3, OwnersFinite DEF ThrottleInv, SlotsCounted
      <3>2. inFlight' = inFlight - 1 /\ Owners' = Owners \ {c}
        BY <1>2, <2>1, <3>1
      <3> QED
        BY <1>3, <3>1, <3>2 DEF SlotsCounted
    <2>2. CASE waiters # <<>>
      <3>1. Cardinality(Owners') = Cardinality(Owners \ {c}) + 1
        BY <1>2, <1>3, <2>2, FS_AddElement
      <3> QED
        BY <1>2, <1>3, <2>2, <3>1, OwnersFinite DEF ThrottleInv, SlotsCounted
    <2> QED
      BY <2>1, <2>2
  <1> QED
    BY <1>1, <1>2, <1>4 DEF ThrottleInv, QueueInv

-------------------------------------------------------------------------------
\* One step of the limiter under paired releases keeps the invariant.
LEMMA StepKeepsInv == ThrottleInv /\ [ThrottleNext]_throttleVars => ThrottleInv'
  <1> SUFFICES ASSUME ThrottleInv, [ThrottleNext]_throttleVars
               PROVE  ThrottleInv'
    OBVIOUS
  <1>1. ASSUME NEW c \in Calls, Acquire(c)
        PROVE  ThrottleInv'
    BY <1>1, AcquireKeepsInv
  <1>2. ASSUME NEW c \in Calls, AcquireRateOnly(c)
        PROVE  ThrottleInv'
    BY <1>2, RateOnlyKeepsInv
  <1>3. ASSUME NEW c \in Calls, Slotted(c) \/ Paced(c)
        PROVE  ThrottleInv'
    BY <1>3, ContinuationKeepsInv
  <1>4. ASSUME NEW c \in Calls, PairedRelease(c)
        PROVE  ThrottleInv'
    <2>1. CASE c \in RateOnly
      BY <1>4, <2>1, DropKeepsInv DEF PairedRelease
    <2>2. CASE c \notin RateOnly
      BY <1>4, <2>2, ReleaseMovesSlot DEF PairedRelease
    <2> QED
      BY <2>1, <2>2
  <1>5. CASE UNCHANGED throttleVars
    BY <1>5 DEF throttleVars, ThrottleInv, ThrottleTypeOK, SlotsCounted, QueueExact,
                NoIdleSlot, Owners
  <1> QED
    BY <1>1, <1>2, <1>3, <1>4, <1>5 DEF ThrottleNext

(***************************************************************************)
(* For every set of callers and every limit: inFlight is the number of     *)
(* acquires that own a slot and never exceeds the limit, the queue holds   *)
(* exactly the blocked acquires, and no slot is idle while one waits.      *)
(***************************************************************************)
THEOREM ThrottleSafe == ThrottleSpec => []ThrottleInv
  <1> QED
    BY InitInv, StepKeepsInv, PTL DEF ThrottleSpec

\* No acquire is queued while a slot is free: release hands over before it counts
\* down.
THEOREM ThrottleWastesNoSlot == ThrottleSpec => []NoIdleSlot
  <1>1. ThrottleInv => NoIdleSlot
    BY DEF ThrottleInv
  <1> QED
    BY <1>1, ThrottleSafe, PTL

\* The resolvers queued are those of the blocked acquires, each once.
THEOREM ThrottleQueueIsExact == ThrottleSpec => []QueueExact
  <1>1. ThrottleInv => QueueExact
    BY DEF ThrottleInv
  <1> QED
    BY <1>1, ThrottleSafe, PTL

\* An acquire that takes a slot enters the abstract semaphore or joins its line.
LEMMA AcquireIsEntry ==
  ASSUME ThrottleInv, NEW c \in Calls, Acquire(c)
  PROVE  Sem!Enter(c) \/ Sem!Wait(c)
  <1>1. c \notin Owners /\ ~Sem!Waits(c)
    BY DEF Acquire, Owners, Sem!Waits, ThrottleInv, QueueExact
  <1>2. CASE inFlight < Limit
    <2>1. Owners' = Owners \cup {c} /\ waiters' = waiters
      BY <1>2 DEF Acquire, Owners, ThrottleInv, ThrottleTypeOK
    <2> QED
      BY <1>1, <1>2, <2>1, SameCardinality DEF Sem!Enter, ThrottleInv, SlotsCounted
  <1>3. CASE ~(inFlight < Limit)
    <2>1. Owners' = Owners /\ waiters' = Append(waiters, c)
      BY <1>3 DEF Acquire, Owners, ThrottleInv, ThrottleTypeOK
    <2>2. Cardinality(Owners) = Limit
      BY <1>3, ThrottleAssumption DEF ThrottleInv, SlotsCounted, ThrottleTypeOK
    <2> QED
      BY <1>1, <2>1, <2>2, SameCardinality DEF Sem!Wait
  <1> QED
    BY <1>2, <1>3

\* An owner's release is a Leave: the longest waiter takes its place.
LEMMA ReleaseIsLeave ==
  ASSUME ThrottleInv, NEW c \in Calls \ RateOnly, acq[c] = "resolved",
         Release(WithoutGrant(c))
  PROVE  Sem!Leave(c)
  BY ReleaseMovesSlot DEF Sem!Leave

(***************************************************************************)
(* The limiter implements the abstract semaphore: every step of it is an   *)
(* Enter, a Wait, a Leave that admits the longest waiter, or a stutter.    *)
(***************************************************************************)
THEOREM ThrottleRefines == ThrottleSpec => ImplementsSemaphore
  <1>1. ThrottleInit => Sem!Init
    BY DEF ThrottleInit, Sem!Init, Owners
  <1>2. ThrottleInv /\ [ThrottleNext]_throttleVars => [Sem!Next]_(Sem!vars)
    <2> SUFFICES ASSUME ThrottleInv, [ThrottleNext]_throttleVars
                 PROVE  Sem!Next \/ UNCHANGED Sem!vars
      BY DEF Sem!vars
    <2>1. ASSUME NEW c \in Calls, Acquire(c)
          PROVE  Sem!Enter(c) \/ Sem!Wait(c)
      BY <2>1, AcquireIsEntry
    <2>2. ASSUME NEW c \in Calls, AcquireRateOnly(c) \/ Slotted(c) \/ Paced(c)
          PROVE  UNCHANGED Sem!vars
      BY <2>2, RateOnlyKeepsInv, ContinuationKeepsInv DEF Sem!vars
    <2>3. ASSUME NEW c \in Calls, PairedRelease(c)
          PROVE  Sem!Leave(c) \/ UNCHANGED Sem!vars
      <3>1. CASE c \in RateOnly
        BY <2>3, <3>1, DropKeepsInv DEF PairedRelease, Sem!vars
      <3>2. CASE c \notin RateOnly
        BY <2>3, <3>2, ReleaseIsLeave DEF PairedRelease
      <3> QED
        BY <3>1, <3>2
    <2>4. CASE UNCHANGED throttleVars
      BY <2>4 DEF throttleVars, Sem!vars, Owners
    <2> QED
      BY <2>1, <2>2, <2>3, <2>4 DEF ThrottleNext, Sem!Next
  <1> QED
    BY <1>1, <1>2, ThrottleSafe, PTL DEF ThrottleSpec, ImplementsSemaphore, Sem!Spec
===============================================================================
