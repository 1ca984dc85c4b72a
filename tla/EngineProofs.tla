----------------------------- MODULE EngineProofs -----------------------------
(***************************************************************************)
(* The engine pairs every grant with one release, for every set of calls,  *)
(* signals, budgets, limit and number of attempts, but for one release too *)
(* many per abort that lands in the gap, and what such an abort costs.     *)
(***************************************************************************)
EXTENDS EngineSlots, ThrottleProofs

\* A call that a step of another leaves alone, but for a slot handed to it,
\* stays consistent, and becomes neither overdue nor anything but that.
LEMMA OthersStayConsistent ==
  ASSUME NEW e \in Calls, CallConsistent(e),
         pc'[e] = pc[e], handBacks'[e] = handBacks[e], aborted'[e] = aborted[e],
         \/ acq'[e] = acq[e]
         \/ acq[e] = "queued" /\ acq'[e] = "slotted"
  PROVE  CallConsistent(e)' /\ (e \in Overdue' <=> e \in Overdue)
  <1>1. CallConsistent(e)'
    BY DEF CallConsistent, GoesOn, StandsDown
  <1>2. e \in Overdue' <=> e \in Overdue
    BY DEF Overdue, ReleasesToCome
  <1> QED
    BY <1>1, <1>2

\* Sets of calls are finite, and their sizes are numbers.
LEMMA CallSets ==
  \A S \in SUBSET Calls : IsFiniteSet(S) /\ Cardinality(S) \in Nat
  BY FS_Subset, FS_CardinalityType, ThrottleAssumption

\* A part of a set of calls is no larger.
LEMMA CallSubsets ==
  \A T \in SUBSET Calls : \A S \in SUBSET T : Cardinality(S) <= Cardinality(T)
  BY CallSets, FS_Subset

\* One caller more, one caller less.
LEMMA CallCounts ==
  ASSUME NEW S \in SUBSET Calls, NEW c \in Calls
  PROVE  /\ c \notin S => Cardinality(S \cup {c}) = Cardinality(S) + 1
         /\ c \in S => Cardinality(S \ {c}) = Cardinality(S) - 1 /\ Cardinality(S) >= 1
         /\ Cardinality(S \cup {c}) <= Cardinality(S) + 1
  <1>1. IsFiniteSet(S) /\ Cardinality(S) \in Nat
    BY CallSets
  <1>2. c \notin S => Cardinality(S \cup {c}) = Cardinality(S) + 1
    BY <1>1, FS_AddElement
  <1>3. ASSUME c \in S
        PROVE  Cardinality(S \ {c}) = Cardinality(S) - 1 /\ Cardinality(S) >= 1
    <2>1. Cardinality(S \ {c}) = Cardinality(S) - 1
      BY <1>1, <1>3, FS_RemoveElement
    <2>2. Cardinality(S) # 0
      BY <1>1, <1>3, FS_EmptySet
    <2> QED
      BY <1>1, <2>1, <2>2
  <1>4. c \in S => S \cup {c} = S
    OBVIOUS
  <1> QED
    BY <1>1, <1>2, <1>3, <1>4

LEMMA SetsOfCalls ==
  /\ Owners \in SUBSET Calls /\ Overdue \in SUBSET Calls /\ Admitted \in SUBSET Calls
  /\ Owners' \in SUBSET Calls /\ Overdue' \in SUBSET Calls /\ Admitted' \in SUBSET Calls
  BY DEF Owners, Overdue, Admitted

\* The sizes the invariant compares are numbers.
LEMMA Sizes ==
  /\ Cardinality(Owners) \in Nat /\ Cardinality(Overdue) \in Nat
  /\ Cardinality(Owners') \in Nat /\ Cardinality(Overdue') \in Nat
  /\ Limit \in Nat \ {0}
  /\ EngineInv => inFlight \in 0..Limit /\ gaps \in Nat
  BY CallSets, SetsOfCalls, ThrottleAssumption, EngineSlotsAssumption
     DEF EngineInv, TypeOK, ThrottleTypeOK, EngineTypeOK

\* What release does to the acquires.
LEMMA ReleaseOnAcq ==
  ASSUME QueueInv, NEW c \in Calls \ RateOnly, acq[c] \in {"resolved", "none"},
         Release(WithoutGrant(c))
  PROVE  /\ acq'[c] = "none"
         /\ \A e \in Calls \ {c} : \/ acq'[e] = acq[e]
                                   \/ acq[e] = "queued" /\ acq'[e] = "slotted"
  <1> USE DEF QueueInv
  <1>1. acq \in [Calls -> AcqStates]
    BY DEF ThrottleTypeOK
  <1>2. CASE waiters = <<>>
    BY <1>1, <1>2 DEF Release, WithoutGrant
  <1>3. CASE waiters # <<>>
    <2>1. Head(waiters) = waiters[1] /\ 1 \in 1..Len(waiters) /\ Head(waiters) \in Calls
      BY <1>3, HeadTailProperties, EmptySeq DEF ThrottleTypeOK
    <2>2. acq[Head(waiters)] = "queued"
      BY <2>1 DEF QueueExact
    <2> QED
      BY <1>1, <1>3, <2>1, <2>2 DEF Release, WithoutGrant
  <1> QED
    BY <1>2, <1>3

\* Before the first call the invariant holds.
LEMMA EngineInitInv == Init => EngineInv
  <1> SUFFICES ASSUME Init
               PROVE  EngineInv
    OBVIOUS
  <1>1. ThrottleInv
    BY InitInv DEF Init
  <1>2. EngineTypeOK
    BY EngineSlotsAssumption DEF Init, EngineTypeOK, PCs
  <1>3. \A c \in Calls : CallConsistent(c)
    BY DEF Init, ThrottleInit, CallConsistent, StandsDown
  <1>4. CountedUpToGaps
    <2>1. Owners = {} /\ Overdue = {} /\ inFlight = 0 /\ gaps = 0
      BY DEF Init, ThrottleInit, Owners, Overdue, ReleasesToCome
    <2> QED
      BY <2>1, FS_EmptySet DEF CountedUpToGaps
  <1> QED
    BY <1>1, <1>2, <1>3, <1>4 DEF EngineInv, TypeOK, ThrottleInv

\* A call's locals keep their types when it ends.
LEMMA EndCallTypes ==
  ASSUME EngineTypeOK, NEW c \in Calls, EndCall(c)
  PROVE  /\ pc' \in [Calls -> PCs] /\ pc' = [pc EXCEPT ![c] = "idle"]
         /\ attempt' \in [Calls -> 0..MaxAttempts]
         /\ refreshed' \in [Calls -> BOOLEAN]
         /\ aborted' \in [Calls -> BOOLEAN]
         /\ \A e \in Calls \ {c} : aborted'[e] = aborted[e]
  <1>1. /\ refreshed' \in [Calls -> BOOLEAN] /\ aborted' \in [Calls -> BOOLEAN]
        /\ \A e \in Calls \ {c} : aborted'[e] = aborted[e]
    BY Zenon DEF EngineTypeOK, EndCall
  <1>2. /\ pc' \in [Calls -> PCs] /\ pc' = [pc EXCEPT ![c] = "idle"]
        /\ attempt' \in [Calls -> 0..MaxAttempts]
    BY EngineSlotsAssumption DEF EngineTypeOK, EndCall, Goto, PCs
  <1> QED
    BY <1>1, <1>2

-------------------------------------------------------------------------------
(***************************************************************************)
(* The steps that do not touch the limiter: its invariant is kept, the     *)
(* other calls are left alone, and what remains is the call's own          *)
(* consistency.                                                            *)
(***************************************************************************)
LEMMA LocalStep ==
  ASSUME EngineInv, NEW c \in Calls, UNCHANGED throttleVars,
         EngineTypeOK',
         \A e \in Calls \ {c} : /\ pc'[e] = pc[e] /\ handBacks'[e] = handBacks[e]
                                /\ aborted'[e] = aborted[e],
         CallConsistent(c)',
         \/ gaps' = gaps /\ (c \in Overdue' => c \in Overdue)
         \/ gaps' = gaps + 1
  PROVE  EngineInv'
  <1>1. /\ \A e \in Calls : CallConsistent(e)'
        /\ \A e \in Calls \ {c} : e \in Overdue' <=> e \in Overdue
    BY OthersStayConsistent DEF EngineInv, throttleVars
  <1>2. ThrottleTypeOK' /\ QueueExact' /\ NoIdleSlot' /\ Owners' = Owners
    BY DEF EngineInv, TypeOK, throttleVars, ThrottleTypeOK, QueueExact, NoIdleSlot, Owners
  <1>3. CountedUpToGaps'
    <2>1. inFlight' = inFlight /\ inFlight \in Nat /\ gaps \in Nat
      BY Sizes DEF throttleVars
    <2>2. CASE gaps' = gaps /\ (c \in Overdue' => c \in Overdue)
      <3>1. Overdue' \in SUBSET Overdue
        BY <1>1, <2>2, SetsOfCalls
      <3>2. Cardinality(Overdue') <= Cardinality(Overdue)
        BY <3>1, CallSubsets, SetsOfCalls
      <3> QED
        BY <1>2, <2>1, <2>2, <3>2, Sizes DEF EngineInv, CountedUpToGaps
    <2>3. CASE gaps' = gaps + 1
      <3>1. Overdue' \in SUBSET (Overdue \cup {c}) /\ Overdue \cup {c} \in SUBSET Calls
        BY <1>1, SetsOfCalls
      <3>2. Cardinality(Overdue') <= Cardinality(Overdue \cup {c})
        BY <3>1, CallSubsets
      <3>3. /\ Cardinality(Overdue \cup {c}) <= Cardinality(Overdue) + 1
            /\ Cardinality(Overdue \cup {c}) \in Nat
        BY <3>1, CallCounts, CallSets, SetsOfCalls
      <3> QED
        BY <1>2, <2>1, <2>3, <3>2, <3>3, Sizes DEF EngineInv, CountedUpToGaps
    <2> QED
      BY <2>2, <2>3
  <1> QED
    BY <1>1, <1>2, <1>3 DEF EngineInv, TypeOK

\* Begin: a call without an acquire enters the loop.
LEMMA BeginKeepsInv ==
  ASSUME EngineInv, NEW c \in Calls, Begin(c)
  PROVE  EngineInv'
  <1> USE EngineSlotsAssumption DEF EngineInv, TypeOK
  <1>1. /\ aborted' \in [Calls -> BOOLEAN] /\ refreshed' \in [Calls -> BOOLEAN]
        /\ \A e \in Calls \ {c} : aborted'[e] = aborted[e]
    BY Zenon DEF Begin, EngineTypeOK
  <1>2. /\ pc' = [pc EXCEPT ![c] = "top"] /\ attempt' = [attempt EXCEPT ![c] = 1]
        /\ UNCHANGED handBacks /\ UNCHANGED gaps /\ UNCHANGED throttleVars
        /\ acq[c] = "none" /\ handBacks[c] = 0
    BY DEF Begin, Goto
  <1>3. EngineTypeOK'
    BY <1>1, <1>2 DEF EngineTypeOK, PCs
  <1>4. CallConsistent(c)' /\ c \notin Overdue'
    BY <1>2 DEF CallConsistent, Overdue, ReleasesToCome, EngineTypeOK, throttleVars
  <1>5. \A e \in Calls \ {c} : pc'[e] = pc[e] /\ handBacks'[e] = handBacks[e]
    BY <1>2 DEF EngineTypeOK
  <1> QED
    BY <1>1, <1>2, <1>3, <1>4, <1>5, LocalStep

\* A call that ends without touching the limiter.
LEMMA EndingKeepsInv ==
  ASSUME EngineInv, NEW c \in Calls, Refuse(c) \/ Abandon(c) \/ (RaceFinally(c) /\ pc[c] = "lost")
  PROVE  EngineInv'
  <1> USE EngineSlotsAssumption DEF EngineInv, TypeOK
  <1>1. /\ EndCall(c) /\ UNCHANGED handBacks /\ UNCHANGED gaps /\ UNCHANGED throttleVars
        /\ pc[c] \in {"top", "lost"} \/ (pc[c] = "granted" /\ c \in Abandoning)
    BY DEF Refuse, Abandon, RaceFinally
  <1>2. /\ EngineTypeOK' /\ pc' = [pc EXCEPT ![c] = "idle"]
        /\ \A e \in Calls \ {c} : aborted'[e] = aborted[e]
    BY <1>1, EndCallTypes DEF EngineTypeOK
  <1>3. CallConsistent(c)'
    <2>1. pc'[c] = "idle" /\ acq' = acq /\ handBacks' = handBacks /\ handBacks[c] \in 0..2
      BY <1>1, <1>2 DEF EngineTypeOK, throttleVars
    <2>2. c \notin RateOnly => StandsDown(c)
      BY <1>1, <2>1 DEF CallConsistent, GoesOn, StandsDown
    <2> QED
      BY <2>1, <2>2 DEF CallConsistent, StandsDown
  <1>4. \A e \in Calls \ {c} : pc'[e] = pc[e] /\ handBacks'[e] = handBacks[e]
    BY <1>1, <1>2 DEF EngineTypeOK
  <1>5. c \in Overdue' => c \in Overdue
    BY <1>1, <1>2 DEF Overdue, ReleasesToCome, EngineTypeOK, throttleVars
  <1> QED
    BY <1>1, <1>2, <1>3, <1>4, <1>5, LocalStep

\* A call that goes on with its grant.
LEMMA GoingOnKeepsInv ==
  ASSUME EngineInv, NEW c \in Calls,
         GrantWins(c) \/ EnterTry(c) \/ (RaceFinally(c) /\ pc[c] = "won")
  PROVE  EngineInv'
  <1> USE EngineSlotsAssumption DEF EngineInv, TypeOK
  <1>1. /\ \E l \in {"won", "granted", "trying"} : pc' = [pc EXCEPT ![c] = l]
        /\ pc'[c] = "won" => pc[c] = "racing"
        /\ UNCHANGED <<attempt, refreshed, aborted, handBacks, gaps>>
        /\ UNCHANGED throttleVars
        /\ pc[c] \in {"racing", "won", "granted"}
        /\ pc[c] = "racing" => acq[c] = "resolved"
    BY DEF GrantWins, EnterTry, RaceFinally, Goto, EngineTypeOK
  <1>2. EngineTypeOK'
    BY <1>1 DEF EngineTypeOK, PCs
  <1>3. CallConsistent(c)'
    BY <1>1 DEF CallConsistent, GoesOn, EngineTypeOK, throttleVars
  <1>4. \A e \in Calls \ {c} : /\ pc'[e] = pc[e] /\ handBacks'[e] = handBacks[e]
                                /\ aborted'[e] = aborted[e]
    BY <1>1 DEF EngineTypeOK
  <1>5. c \in Overdue' => c \in Overdue
    BY <1>1 DEF CallConsistent, Overdue, ReleasesToCome, EngineTypeOK, throttleVars
  <1> QED
    BY <1>1, <1>2, <1>3, <1>4, <1>5, LocalStep

\* The budget's timer fires while the grant is on its way, never between a grant
\* and the continuations that wait for it.
LEMMA BudgetTimerKeepsInv ==
  ASSUME EngineInv, NEW c \in Calls, BudgetTimer(c)
  PROVE  EngineInv'
  <1> USE EngineSlotsAssumption DEF EngineInv, TypeOK
  <1>1. /\ acq[c] \notin {"none", "resolved"} /\ handBacks[c] = 0 /\ pc[c] = "racing"
        /\ UNCHANGED throttleVars /\ UNCHANGED <<attempt, refreshed, aborted, gaps>>
    BY DEF BudgetTimer, Quiescent, Settled, CallConsistent
  <1>2. /\ pc' = [pc EXCEPT ![c] = "lost"]
        /\ handBacks' = [handBacks EXCEPT ![c] = IF c \in RateOnly THEN 0 ELSE 1]
    BY <1>1 DEF BudgetTimer, ArmHandBack, Goto, EngineTypeOK
  <1>3. EngineTypeOK'
    BY <1>1, <1>2 DEF EngineTypeOK, PCs
  <1>4. CallConsistent(c)' /\ c \notin Overdue'
    BY <1>1, <1>2 DEF CallConsistent, StandsDown, Overdue, ReleasesToCome, EngineTypeOK,
                      throttleVars
  <1>5. \A e \in Calls \ {c} : /\ pc'[e] = pc[e] /\ handBacks'[e] = handBacks[e]
                                /\ aborted'[e] = aborted[e]
    BY <1>1, <1>2 DEF EngineTypeOK
  <1> QED
    BY <1>1, <1>3, <1>4, <1>5, LocalStep

(***************************************************************************)
(* An abort: outside a wait it only marks the call, during one the         *)
(* hand-back it arms is the call's only release, and in the gap it is one  *)
(* release too many, which gaps counts.                                    *)
(***************************************************************************)
LEMMA AbortKeepsInv ==
  ASSUME EngineInv, NEW c \in Calls, Abort(c)
  PROVE  EngineInv'
  <1> USE EngineSlotsAssumption DEF EngineInv, TypeOK
  <1>1. /\ UNCHANGED throttleVars /\ UNCHANGED <<attempt, refreshed>> /\ pc[c] # "idle"
    BY DEF Abort
  <1>2. /\ aborted' \in [Calls -> BOOLEAN] /\ aborted'[c] = TRUE
        /\ \A e \in Calls \ {c} : aborted'[e] = aborted[e]
    BY Zenon DEF Abort, EngineTypeOK
  <1>3. ~aborted[c] /\ acq' = acq
    BY DEF Abort, throttleVars
  <1>4. gaps \in 0..MaxGaps
    BY DEF EngineTypeOK
  <1>5. CASE pc[c] \notin {"racing", "won", "lost"}
    <2>1. UNCHANGED <<pc, handBacks, gaps>>
      BY <1>5 DEF Abort, InGap
    <2>2. EngineTypeOK'
      BY <1>1, <1>2, <2>1 DEF EngineTypeOK
    <2>3. CallConsistent(c)' /\ (c \in Overdue' => c \in Overdue)
      BY <1>1, <1>2, <1>3, <1>5, <2>1 DEF CallConsistent, GoesOn, Overdue, ReleasesToCome
    <2> QED
      BY <1>1, <1>2, <2>1, <2>2, <2>3, LocalStep
  <1>6. CASE pc[c] = "racing" /\ acq[c] # "resolved"
    <2>1. /\ pc' = [pc EXCEPT ![c] = "lost"] /\ gaps' = gaps
          /\ handBacks' = [handBacks EXCEPT ![c] = IF c \in RateOnly THEN @ ELSE @ + 1]
      BY <1>6 DEF Abort, InGap, ArmHandBack
    <2>2. acq[c] # "none" /\ handBacks[c] = 0
      BY <1>6 DEF CallConsistent
    <2>3. EngineTypeOK'
      BY <1>1, <1>2, <2>1, <2>2 DEF EngineTypeOK, PCs
    <2>4. CallConsistent(c)' /\ c \notin Overdue'
      BY <1>2, <1>3, <2>1, <2>2
         DEF CallConsistent, StandsDown, Overdue, ReleasesToCome, EngineTypeOK
    <2>5. \A e \in Calls \ {c} : pc'[e] = pc[e] /\ handBacks'[e] = handBacks[e]
      BY <2>1 DEF EngineTypeOK
    <2> QED
      BY <1>1, <1>2, <2>1, <2>3, <2>4, <2>5, LocalStep
  <1>7. CASE InGap(c)
    <2>1. /\ pc' = [pc EXCEPT ![c] = IF pc[c] = "racing" THEN "won" ELSE pc[c]]
          /\ handBacks' = [handBacks EXCEPT ![c] = IF c \in RateOnly THEN @ ELSE @ + 1]
          /\ IF c \in RateOnly THEN gaps' = gaps ELSE gaps < MaxGaps /\ gaps' = gaps + 1
      BY <1>7 DEF Abort, InGap, ArmHandBack, EngineTypeOK
    <2>2. /\ pc[c] \in {"racing", "won"} => acq[c] = "resolved" /\ handBacks[c] = 0
          /\ pc[c] = "lost" /\ c \notin RateOnly =>
                handBacks[c] = (IF acq[c] = "none" THEN 0 ELSE 1)
          /\ c \in RateOnly => handBacks[c] = 0
          /\ pc[c] \in {"racing", "won", "lost"}
      BY <1>3, <1>7 DEF CallConsistent, InGap
    <2>3. EngineTypeOK'
      BY <1>1, <1>2, <1>4, <2>1, <2>2 DEF EngineTypeOK, PCs
    <2>4. /\ pc'[c] = IF pc[c] = "racing" THEN "won" ELSE pc[c]
          /\ handBacks'[c] = IF c \in RateOnly THEN 0 ELSE handBacks[c] + 1
          /\ handBacks[c] \in 0..1
      BY <2>1, <2>2 DEF EngineTypeOK
    <2>5. CallConsistent(c)'
      BY <1>2, <1>3, <2>2, <2>4 DEF CallConsistent, GoesOn, StandsDown
    <2>6. \A e \in Calls \ {c} : pc'[e] = pc[e] /\ handBacks'[e] = handBacks[e]
      BY <2>1 DEF EngineTypeOK
    <2>7. (gaps' = gaps /\ c \notin Overdue') \/ gaps' = gaps + 1
      BY <2>1 DEF Overdue
    <2> QED
      BY <1>1, <1>2, <2>3, <2>5, <2>6, <2>7, LocalStep
  <1> QED
    BY <1>1, <1>5, <1>6, <1>7 DEF InGap

-------------------------------------------------------------------------------
(***************************************************************************)
(* The steps that call the limiter: if they keep its queue and its count   *)
(* and move nobody else's acquire but by a hand-off, what remains is the   *)
(* call's own consistency.                                                 *)
(***************************************************************************)
LEMMA LimiterStep ==
  ASSUME EngineInv, NEW c \in Calls, QueueInv', CountedUpToGaps',
         EngineTypeOK',
         \A e \in Calls \ {c} :
            /\ pc'[e] = pc[e] /\ handBacks'[e] = handBacks[e] /\ aborted'[e] = aborted[e]
            /\ acq'[e] = acq[e] \/ (acq[e] = "queued" /\ acq'[e] = "slotted"),
         CallConsistent(c)'
  PROVE  EngineInv'
  <1>1. \A e \in Calls \ {c} : CallConsistent(e)'
    BY OthersStayConsistent DEF EngineInv
  <1> QED
    BY <1>1 DEF EngineInv, TypeOK, QueueInv

\* A step that moves no slot and makes nobody overdue keeps the count.
LEMMA SameCount ==
  ASSUME EngineInv, NEW c \in Calls,
         \A e \in Calls \ {c} :
            /\ pc'[e] = pc[e] /\ handBacks'[e] = handBacks[e] /\ aborted'[e] = aborted[e]
            /\ acq'[e] = acq[e],
         c \in Overdue' => c \in Overdue,
         Owners' = Owners, inFlight' = inFlight, gaps' = gaps
  PROVE  CountedUpToGaps'
  <1>1. Overdue' \in SUBSET Overdue
    BY OthersStayConsistent, SetsOfCalls DEF EngineInv
  <1>2. Cardinality(Overdue') <= Cardinality(Overdue)
    BY <1>1, CallSubsets, SetsOfCalls
  <1> QED
    BY <1>2, Sizes DEF EngineInv, CountedUpToGaps

\* Ask: the call is outside the limiter and enters it.
LEMMA AskKeepsInv ==
  ASSUME EngineInv, NEW c \in Calls, Ask(c)
  PROVE  EngineInv'
  <1> USE DEF EngineInv, TypeOK
  <1>1. /\ pc[c] = "top" /\ pc' = [pc EXCEPT ![c] = "racing"]
        /\ UNCHANGED <<attempt, refreshed, aborted, handBacks, gaps>>
    BY DEF Ask, Goto
  <1>2. /\ c \in RateOnly => \E q \in {"pacing", "resolved"} : acq' = [acq EXCEPT ![c] = q]
        /\ c \notin RateOnly => \E q \in {"slotted", "queued"} : acq' = [acq EXCEPT ![c] = q]
    BY DEF Ask, Acquire, AcquireRateOnly
  <1>3. acq \in [Calls -> AcqStates]
    BY DEF ThrottleTypeOK
  <1>4. EngineTypeOK'
    BY <1>1 DEF EngineTypeOK, PCs
  <1>5. CallConsistent(c)' /\ c \notin Overdue'
    <2>1. pc'[c] = "racing" /\ handBacks'[c] = 0
      BY <1>1 DEF EngineTypeOK, CallConsistent
    <2>2. acq'[c] # "none" /\ (c \in RateOnly => acq'[c] \in {"pacing", "resolved"})
      BY <1>2, <1>3
    <2>3. CallConsistent(c)'
      BY <2>1, <2>2 DEF CallConsistent
    <2>4. c \notin Overdue'
      BY <2>1, <2>2 DEF Overdue, ReleasesToCome
    <2> QED
      BY <2>3, <2>4
  <1>6. \A e \in Calls \ {c} : /\ pc'[e] = pc[e] /\ handBacks'[e] = handBacks[e]
                                /\ aborted'[e] = aborted[e] /\ acq'[e] = acq[e]
    BY <1>1, <1>2, <1>3 DEF EngineTypeOK
  <1>7. QueueInv' /\ CountedUpToGaps'
    <2>1. CASE AcquireRateOnly(c)
      <3>1. QueueInv' /\ Owners' = Owners /\ inFlight' = inFlight
        BY <2>1, RateOnlyOnSlots DEF QueueInv
      <3> QED
        BY <1>1, <1>5, <1>6, <3>1, SameCount
    <2>2. CASE Acquire(c)
      <3>1. /\ QueueInv' /\ c \notin Owners
            /\ \/ inFlight' = inFlight + 1 /\ Owners' = Owners \cup {c}
               \/ inFlight' = inFlight /\ Owners' = Owners
        BY <2>2, AcquireOnSlots DEF QueueInv
      <3>2. CASE inFlight' = inFlight + 1 /\ Owners' = Owners \cup {c}
        <4>1. Cardinality(Owners') = Cardinality(Owners) + 1
          BY <3>1, <3>2, CallCounts, SetsOfCalls
        <4>2. Overdue' \in SUBSET Overdue
          BY <1>5, <1>6, OthersStayConsistent, SetsOfCalls
        <4>3. Cardinality(Overdue') <= Cardinality(Overdue)
          BY <4>2, CallSubsets, SetsOfCalls
        <4>4. CountedUpToGaps'
          BY <1>1, <3>2, <4>1, <4>3, Sizes DEF CountedUpToGaps
        <4> QED
          BY <3>1, <4>4
      <3>3. CASE inFlight' = inFlight /\ Owners' = Owners
        BY <1>1, <1>5, <1>6, <3>1, <3>3, SameCount
      <3> QED
        BY <3>1, <3>2, <3>3
    <2> QED
      BY <2>1, <2>2 DEF Ask
  <1> QED
    BY <1>4, <1>5, <1>6, <1>7, LimiterStep

\* AcquireProceeds: the acquire moves on inside the limiter.
LEMMA AcquireProceedsKeepsInv ==
  ASSUME EngineInv, NEW c \in Calls, AcquireProceeds(c)
  PROVE  EngineInv'
  <1> USE DEF EngineInv, TypeOK
  <1>1. QueueInv' /\ Owners' = Owners /\ inFlight' = inFlight
    BY ContinuationOnSlots DEF AcquireProceeds, QueueInv
  <1>2. UNCHANGED <<pc, attempt, refreshed, aborted, handBacks, gaps>>
    BY DEF AcquireProceeds, engineVars
  <1>3. /\ acq[c] \in {"slotted", "pacing"}
        /\ \E q \in {"pacing", "resolved"} : acq' = [acq EXCEPT ![c] = q]
    BY DEF AcquireProceeds, Slotted, Paced, Pace
  <1>4. acq \in [Calls -> AcqStates]
    BY DEF ThrottleTypeOK
  <1>5. EngineTypeOK'
    BY <1>2 DEF EngineTypeOK
  <1>6. CallConsistent(c)' /\ (c \in Overdue' => c \in Overdue)
    BY <1>2, <1>3, <1>4 DEF CallConsistent, GoesOn, StandsDown, Overdue, ReleasesToCome
  <1>7. \A e \in Calls \ {c} : /\ pc'[e] = pc[e] /\ handBacks'[e] = handBacks[e]
                                /\ aborted'[e] = aborted[e] /\ acq'[e] = acq[e]
    BY <1>2, <1>3, <1>4
  <1>8. CountedUpToGaps'
    BY <1>1, <1>2, <1>6, <1>7, SameCount
  <1> QED
    BY <1>1, <1>5, <1>6, <1>7, <1>8, LimiterStep

(***************************************************************************)
(* What a release does to the count.  The caller's slot goes to a waiter   *)
(* or off the count; if the caller holds none the release is the surplus   *)
(* one that made it overdue.                                               *)
(***************************************************************************)
LEMMA ReleaseKeepsCount ==
  ASSUME EngineInv, NEW c \in Calls \ RateOnly, acq[c] \in {"resolved", "none"},
         Release(WithoutGrant(c)), gaps' = gaps,
         Overdue' \in SUBSET Overdue,
         acq[c] = "none" => c \in Overdue /\ c \notin Overdue'
  PROVE  QueueInv' /\ CountedUpToGaps'
  <1>1. /\ QueueInv'
        /\ waiters = <<>> => /\ Owners' = Owners \ {c}
                             /\ inFlight' = IF inFlight > 0 THEN inFlight - 1 ELSE 0
        /\ waiters # <<>> => /\ Owners' = (Owners \ {c}) \cup {Head(waiters)}
                             /\ Head(waiters) \in Calls \ (Owners \cup {c})
                             /\ inFlight' = inFlight
    BY ReleaseOnSlots DEF EngineInv, TypeOK, QueueInv
  <1>2. waiters # <<>> => Cardinality(Owners') = Cardinality(Owners \ {c}) + 1
    <2>1. Owners \ {c} \in SUBSET Calls
      BY SetsOfCalls
    <2> QED
      BY <1>1, <2>1, CallCounts
  <1>3. CountedUpToGaps'
    <2>1. CASE acq[c] = "resolved"
      <3>1. c \in Owners
        BY <2>1 DEF Owners
      <3>2. Cardinality(Owners \ {c}) = Cardinality(Owners) - 1 /\ Cardinality(Owners) >= 1
        BY <3>1, CallCounts, SetsOfCalls
      <3>3. Cardinality(Overdue') <= Cardinality(Overdue)
        BY CallSubsets, SetsOfCalls
      <3>4. CASE waiters = <<>>
        <4>1. /\ Cardinality(Owners') = Cardinality(Owners) - 1
              /\ inFlight' = IF inFlight > 0 THEN inFlight - 1 ELSE 0
          BY <1>1, <3>2, <3>4
        <4> QED
          BY <3>2, <3>3, <4>1, Sizes DEF EngineInv, CountedUpToGaps
      <3>5. CASE waiters # <<>>
        BY <1>1, <1>2, <3>2, <3>3, <3>5, Sizes DEF EngineInv, CountedUpToGaps
      <3> QED
        BY <3>4, <3>5
    <2>2. CASE acq[c] = "none"
      <3>1. Owners \ {c} = Owners
        BY <2>2 DEF Owners
      <3>2. Cardinality(Overdue \ {c}) = Cardinality(Overdue) - 1
        BY <2>2, CallCounts, SetsOfCalls
      <3>3. Overdue' \in SUBSET (Overdue \ {c}) /\ Overdue \ {c} \in SUBSET Calls
        BY <2>2, SetsOfCalls
      <3>4. Cardinality(Overdue') <= Cardinality(Overdue) - 1
        BY <3>2, <3>3, CallSubsets
      <3>5. CASE waiters = <<>>
        <4>1. /\ Cardinality(Owners') = Cardinality(Owners)
              /\ inFlight' = IF inFlight > 0 THEN inFlight - 1 ELSE 0
          BY <1>1, <3>1, <3>5
        <4>2. /\ inFlight <= Cardinality(Owners)
              /\ Cardinality(Owners) + Cardinality(Overdue) <= inFlight + gaps
          BY DEF EngineInv, CountedUpToGaps
        <4> QED
          BY <3>4, <4>1, <4>2, Sizes DEF CountedUpToGaps
      <3>6. CASE waiters # <<>>
        <4>1. Cardinality(Owners') = Cardinality(Owners) + 1 /\ inFlight' = inFlight
          BY <1>1, <1>2, <3>1, <3>6
        <4>2. /\ inFlight <= Cardinality(Owners)
              /\ Cardinality(Owners) + Cardinality(Overdue) <= inFlight + gaps
          BY DEF EngineInv, CountedUpToGaps
        <4> QED
          BY <3>4, <4>1, <4>2, Sizes DEF CountedUpToGaps
      <3> QED
        BY <3>5, <3>6
    <2> QED
      BY <2>1, <2>2
  <1> QED
    BY <1>1, <1>3

\* A release keeps the invariant if what is still to come of its caller is right.
LEMMA ReleaseStep ==
  ASSUME EngineInv, NEW c \in Calls \ RateOnly, acq[c] \in {"resolved", "none"},
         Release(WithoutGrant(c)), gaps' = gaps, EngineTypeOK',
         \A e \in Calls \ {c} : /\ pc'[e] = pc[e] /\ handBacks'[e] = handBacks[e]
                                /\ aborted'[e] = aborted[e],
         acq'[c] = "none" => CallConsistent(c)',
         acq'[c] = "none" /\ c \in Overdue' => c \in Overdue /\ acq[c] = "resolved",
         acq[c] = "none" => c \in Overdue
  PROVE  EngineInv'
  <1>1. /\ acq'[c] = "none"
        /\ \A e \in Calls \ {c} : \/ acq'[e] = acq[e]
                                  \/ acq[e] = "queued" /\ acq'[e] = "slotted"
    BY ReleaseOnAcq DEF EngineInv, TypeOK, QueueInv
  <1>2. \A e \in Calls \ {c} : e \in Overdue' <=> e \in Overdue
    BY <1>1, OthersStayConsistent DEF EngineInv
  <1>3. Overdue' \in SUBSET Overdue
    BY <1>1, <1>2, SetsOfCalls
  <1>4. acq[c] = "none" => c \notin Overdue'
    BY <1>1
  <1>5. QueueInv' /\ CountedUpToGaps'
    BY <1>3, <1>4, ReleaseKeepsCount
  <1> QED
    BY <1>1, <1>5, LimiterStep

\* HandBack: the release due for a grant nobody waits for, or one too many.
LEMMA HandBackKeepsInv ==
  ASSUME EngineInv, NEW c \in Calls, HandBack(c)
  PROVE  EngineInv'
  <1> USE DEF EngineInv, TypeOK
  <1>1. /\ handBacks[c] \in 1..2 /\ acq[c] \in {"resolved", "none"}
        /\ c \in Calls \ RateOnly /\ pc[c] \in PCs /\ CallConsistent(c)
        /\ Release(WithoutGrant(c))
    BY DEF HandBack, Settled, CallConsistent, EngineTypeOK
  <1>2. /\ handBacks' = [handBacks EXCEPT ![c] = @ - 1]
        /\ UNCHANGED <<pc, attempt, refreshed, aborted, gaps>>
    BY DEF HandBack
  <1>3. EngineTypeOK' /\ handBacks'[c] = handBacks[c] - 1
    BY <1>1, <1>2 DEF EngineTypeOK
  <1>4. /\ acq[c] = "none" => pc[c] \in {"idle", "lost"} /\ handBacks[c] = 1
        /\ pc[c] \in {"won", "granted", "trying"} => handBacks[c] = 1
        /\ pc[c] = "won" => aborted[c]
        /\ pc[c] = "lost" /\ ~aborted[c] => handBacks[c] = 1
        /\ pc[c] \notin {"top", "racing"}
    BY <1>1 DEF CallConsistent, GoesOn, StandsDown, PCs
  <1>5. acq'[c] = "none" => CallConsistent(c)'
    BY <1>1, <1>2, <1>3, <1>4 DEF CallConsistent, GoesOn, StandsDown
  <1>6. acq'[c] = "none" /\ c \in Overdue' => c \in Overdue /\ acq[c] = "resolved"
    BY <1>1, <1>2, <1>3, <1>4 DEF Overdue, ReleasesToCome
  <1>7. acq[c] = "none" => c \in Overdue
    BY <1>1 DEF Overdue, ReleasesToCome
  <1>8. \A e \in Calls \ {c} : /\ pc'[e] = pc[e] /\ handBacks'[e] = handBacks[e]
                                /\ aborted'[e] = aborted[e]
    BY <1>2 DEF EngineTypeOK
  <1> QED
    BY <1>1, <1>2, <1>3, <1>5, <1>6, <1>7, <1>8, ReleaseStep

\* A stream's grant is dropped: by Forget, or at the end of its attempt.
LEMMA DropStep ==
  ASSUME EngineInv, NEW c \in RateOnly, c \in Calls, acq[c] = "resolved",
         acq' = WithoutGrant(c), UNCHANGED <<inFlight, waiters, waited, gaps>>,
         EngineTypeOK', handBacks' = handBacks, pc'[c] \in {"idle", "top"},
         \A e \in Calls \ {c} : pc'[e] = pc[e] /\ aborted'[e] = aborted[e]
  PROVE  EngineInv'
  <1> USE DEF EngineInv, TypeOK
  <1>1. QueueInv' /\ Owners' = Owners /\ inFlight' = inFlight
    BY DropOnSlots DEF QueueInv
  <1>2. acq'[c] = "none" /\ \A e \in Calls \ {c} : acq'[e] = acq[e]
    BY DEF ThrottleTypeOK, WithoutGrant
  <1>3. CallConsistent(c)' /\ c \notin Overdue'
    BY <1>2 DEF CallConsistent, Overdue
  <1>4. CountedUpToGaps'
    BY <1>1, <1>2, <1>3, SameCount
  <1> QED
    BY <1>1, <1>2, <1>3, <1>4, LimiterStep

\* Forget: a stream's late grant is dropped.
LEMMA ForgetKeepsInv ==
  ASSUME EngineInv, NEW c \in Calls, Forget(c)
  PROVE  EngineInv'
  <1>1. /\ c \in RateOnly /\ pc[c] = "idle" /\ acq[c] = "resolved" /\ acq' = WithoutGrant(c)
        /\ UNCHANGED <<pc, attempt, refreshed, aborted, handBacks, gaps>>
        /\ UNCHANGED <<inFlight, waiters, waited>>
    BY DEF Forget, engineVars
  <1>2. EngineTypeOK'
    BY <1>1 DEF EngineInv, TypeOK, EngineTypeOK
  <1> QED
    BY <1>1, <1>2, DropStep

\* EndAttempt: the finally of the attempt loop releases what the attempt was granted,
\* unless a hand-back has done so already.
LEMMA EndAttemptKeepsInv ==
  ASSUME EngineInv, NEW c \in Calls, EndAttempt(c)
  PROVE  EngineInv'
  <1> USE EngineSlotsAssumption DEF EngineInv, TypeOK
  <1>1. /\ handBacks[c] = 0 /\ UNCHANGED <<handBacks, gaps>> /\ pc[c] = "trying"
        /\ acq[c] \in {"resolved", "none"}
        /\ c \in RateOnly => acq[c] = "resolved"
    BY DEF EndAttempt, CallConsistent, GoesOn
  <1>2. /\ EngineTypeOK'
        /\ \E l \in {"top", "idle"} : pc' = [pc EXCEPT ![c] = l]
        /\ \A e \in Calls \ {c} : aborted'[e] = aborted[e]
    <2>1. CASE EndCall(c)
      BY <1>1, <2>1, EndCallTypes DEF EngineTypeOK
    <2>2. CASE ~EndCall(c)
      <3>1. refreshed' \in [Calls -> BOOLEAN] /\ aborted' = aborted
        BY <2>2, Zenon DEF EndAttempt, Outcome, EngineTypeOK
      <3>2. /\ attempt' = attempt \/ (attempt[c] < MaxAttempts /\ attempt' = [attempt EXCEPT ![c] = @ + 1])
            /\ pc' = [pc EXCEPT ![c] = "top"]
        BY <2>2 DEF EndAttempt, Outcome, Goto
      <3>3. attempt' \in [Calls -> 0..MaxAttempts]
        BY <3>2 DEF EngineTypeOK
      <3>4. pc' \in [Calls -> PCs]
        BY <3>2 DEF EngineTypeOK, PCs
      <3> QED
        BY <1>1, <3>1, <3>2, <3>3, <3>4 DEF EngineTypeOK
    <2> QED
      BY <2>1, <2>2
  <1>3. /\ pc'[c] \in {"top", "idle"}
        /\ \A e \in Calls \ {c} : pc'[e] = pc[e] /\ handBacks'[e] = handBacks[e]
    BY <1>1, <1>2 DEF EngineTypeOK
  <1>4. CASE c \in RateOnly
    <2>1. acq' = WithoutGrant(c) /\ UNCHANGED <<inFlight, waiters, waited>>
      BY <1>4 DEF EndAttempt
    <2> QED
      BY <1>1, <1>2, <1>3, <1>4, <2>1, DropStep
  <1>5. CASE c \notin RateOnly
    <2>1. Release(WithoutGrant(c))
      BY <1>5 DEF EndAttempt
    <2>2. acq'[c] = "none" => CallConsistent(c)' /\ c \notin Overdue'
      BY <1>1, <1>3, <1>5 DEF CallConsistent, StandsDown, Overdue, ReleasesToCome
    <2>3. acq[c] = "none" => c \in Overdue
      BY <1>1, <1>5 DEF Overdue, ReleasesToCome
    <2> QED
      BY <1>1, <1>2, <1>3, <1>5, <2>1, <2>2, <2>3, ReleaseStep
  <1> QED
    BY <1>4, <1>5

-------------------------------------------------------------------------------
\* Every step of the engine keeps the invariant.
LEMMA EngineStepKeepsInv ==
  ASSUME EngineInv, [Next]_vars
  PROVE  EngineInv'
  <1>1. ASSUME NEW c \in Calls, Begin(c)
        PROVE  EngineInv'
    BY <1>1, BeginKeepsInv
  <1>2. ASSUME NEW c \in Calls, Refuse(c) \/ Abandon(c)
        PROVE  EngineInv'
    BY <1>2, EndingKeepsInv
  <1>3. ASSUME NEW c \in Calls, RaceFinally(c)
        PROVE  EngineInv'
    BY <1>3, EndingKeepsInv, GoingOnKeepsInv DEF RaceFinally
  <1>4. ASSUME NEW c \in Calls, GrantWins(c) \/ EnterTry(c)
        PROVE  EngineInv'
    BY <1>4, GoingOnKeepsInv
  <1>5. ASSUME NEW c \in Calls, BudgetTimer(c) \/ Abort(c)
        PROVE  EngineInv'
    BY <1>5, BudgetTimerKeepsInv, AbortKeepsInv
  <1>6. ASSUME NEW c \in Calls, Ask(c)
        PROVE  EngineInv'
    BY <1>6, AskKeepsInv
  <1>7. ASSUME NEW c \in Calls, AcquireProceeds(c)
        PROVE  EngineInv'
    BY <1>7, AcquireProceedsKeepsInv
  <1>8. ASSUME NEW c \in Calls, HandBack(c)
        PROVE  EngineInv'
    BY <1>8, HandBackKeepsInv
  <1>9. ASSUME NEW c \in Calls, Forget(c)
        PROVE  EngineInv'
    BY <1>9, ForgetKeepsInv
  <1>10. ASSUME NEW c \in Calls, EndAttempt(c)
         PROVE  EngineInv'
    BY <1>10, EndAttemptKeepsInv
  <1>11. CASE UNCHANGED vars
    <2>1. /\ QueueExact' /\ NoIdleSlot' /\ Owners' = Owners /\ Overdue' = Overdue
          /\ inFlight' = inFlight /\ gaps' = gaps
      BY <1>11 DEF vars, throttleVars, engineVars, EngineInv, QueueExact, NoIdleSlot, Owners,
                   Overdue, ReleasesToCome
    <2>2. CountedUpToGaps'
      BY <2>1 DEF EngineInv, CountedUpToGaps
    <2> QED
      BY <1>11, <2>1, <2>2 DEF vars, throttleVars, engineVars, EngineInv, TypeOK,
                         ThrottleTypeOK, EngineTypeOK, CallConsistent, GoesOn, StandsDown
  <1> QED
    BY <1>1, <1>2, <1>3, <1>4, <1>5, <1>6, <1>7, <1>8, <1>9, <1>10, <1>11 DEF Next

\* The invariant of the engine's slot discipline: where a call stands in the attempt
\* loop, where its acquire stands and how many hand-backs are due agree, and the
\* limiter's count is out by no more than the aborts in the gap.
THEOREM EngineInvariant == Spec => []EngineInv
  <1> QED
    BY EngineInitInv, EngineStepKeepsInv, PTL DEF Spec

\* Under the engine too the limiter's state has its types: no call arms a third
\* hand-back or goes past its attempts.
THEOREM EngineTypes == Spec => []TypeOK
  <1>1. EngineInv => TypeOK
    BY DEF EngineInv
  <1> QED
    BY <1>1, EngineInvariant, PTL

(***************************************************************************)
(* inFlight never counts a slot nobody was given, and misses no more of    *)
(* them than there were aborts in the gap, whatever interrupts the calls.  *)
(***************************************************************************)
THEOREM EngineCountsSlots == Spec => []CountedUpToGaps
  <1>1. EngineInv => CountedUpToGaps
    BY DEF EngineInv
  <1> QED
    BY <1>1, EngineInvariant, PTL

(***************************************************************************)
(* A grant is released once: by the finally of the attempt it was used     *)
(* for, or by the one hand-back of the wait that was cut short.  There are *)
(* never more releases too many than aborts in the gap.                    *)
(***************************************************************************)
THEOREM EngineReleasesOnce == Spec => []OneRelease
  <1>1. EngineInv => OneRelease
    BY Sizes DEF EngineInv, CountedUpToGaps, OneRelease
  <1> QED
    BY <1>1, EngineInvariant, PTL

\* A call that goes on with its grant owns the slot, or gave it back and is overdue.
LEMMA AdmittedOwn == EngineInv => Admitted \subseteq Owners \cup Overdue
  <1> SUFFICES ASSUME EngineInv, NEW c \in Admitted, c \notin Owners
               PROVE  c \in Overdue
    OBVIOUS
  <1>1. /\ c \in Calls \ RateOnly /\ pc[c] \in {"won", "granted", "trying"}
        /\ acq[c] = "none" /\ handBacks[c] = 0
    BY DEF Admitted, Owners, EngineInv, CallConsistent, GoesOn
  <1> QED
    BY <1>1 DEF Overdue, ReleasesToCome

\* So the callers inside are few.
LEMMA InsideCounts ==
  EngineInv => /\ Inside \in SUBSET Calls /\ Cardinality(Inside) \in Nat
               /\ Cardinality(Inside) <= inFlight + gaps
               /\ inFlight <= Cardinality(Inside)
  <1> SUFFICES ASSUME EngineInv
               PROVE  /\ Inside \in SUBSET Calls /\ Cardinality(Inside) \in Nat
                      /\ Cardinality(Inside) <= inFlight + gaps
                      /\ inFlight <= Cardinality(Inside)
    OBVIOUS
  <1>1. Inside \in SUBSET (Owners \cup Overdue) /\ Owners \cup Overdue \in SUBSET Calls
    BY AdmittedOwn, SetsOfCalls DEF Inside
  <1>2. IsFiniteSet(Owners) /\ IsFiniteSet(Overdue)
    BY CallSets, SetsOfCalls
  <1>3. Cardinality(Owners \cup Overdue) <= Cardinality(Owners) + Cardinality(Overdue)
    <2>1. Owners \cap Overdue \in SUBSET Calls
      BY SetsOfCalls
    <2>2. Cardinality(Owners \cap Overdue) \in Nat
      BY <2>1, CallSets
    <2>3. Cardinality(Owners \cup Overdue) =
            Cardinality(Owners) + Cardinality(Overdue) - Cardinality(Owners \cap Overdue)
      BY <1>2, FS_Union
    <2> QED
      BY <2>2, <2>3, Sizes
  <1>4. /\ Cardinality(Inside) <= Cardinality(Owners \cup Overdue)
        /\ Inside \in SUBSET Calls
    BY <1>1, CallSubsets
  <1>5. Cardinality(Owners) <= Cardinality(Inside)
    <2>1. Owners \in SUBSET Inside
      BY DEF Inside
    <2> QED
      BY <1>4, <2>1, CallSubsets
  <1>6. Cardinality(Inside) \in Nat /\ Cardinality(Owners \cup Overdue) \in Nat
    BY <1>1, <1>4, CallSets
  <1> QED
    BY <1>3, <1>4, <1>5, <1>6, Sizes DEF EngineInv, CountedUpToGaps

InsideFits == Cardinality(Inside) <= Limit + gaps
LEMMA InsideFit == EngineInv => InsideFits
  BY InsideCounts, Sizes DEF InsideFits

(***************************************************************************)
(* However calls are aborted, time out or retry, no more of them than      *)
(* `concurrency` are past the gate, and one for each abort in the gap.     *)
(***************************************************************************)
THEOREM EngineAdmission == Spec => []Admission
  <1>1. EngineInv => Admission
    <2> SUFFICES ASSUME EngineInv
                 PROVE  Admission
      OBVIOUS
    <2>1. Admitted \in SUBSET Inside /\ Cardinality(Admitted) \in Nat
      BY SetsOfCalls, CallSets DEF Inside
    <2>2. Cardinality(Admitted) <= Cardinality(Inside)
      BY <2>1, InsideCounts, CallSubsets
    <2> QED
      BY <2>1, <2>2, InsideCounts, Sizes DEF Admission
  <1> QED
    BY <1>1, EngineInvariant, PTL

(***************************************************************************)
(* No slot is lost but to a consumer that stops at a `throttled` event:    *)
(* every other counted slot has a running call or a hand-back that will    *)
(* release it.                                                             *)
(***************************************************************************)
THEOREM EngineLosesNoSlot == Spec => []SlotHasOwner
  <1>1. EngineInv => SlotHasOwner
    <2> SUFFICES ASSUME EngineInv, NEW c \in Owners \ Abandoning,
                        pc[c] \notin {"racing", "won", "granted", "trying"}
                 PROVE  handBacks[c] > 0
      BY DEF SlotHasOwner
    <2>1. /\ c \in Calls \ RateOnly /\ acq[c] # "none"
          /\ pc[c] \in {"idle", "top", "lost"} /\ CallConsistent(c)
      BY DEF Owners, EngineInv, TypeOK, EngineTypeOK, PCs
    <2> QED
      BY <2>1 DEF CallConsistent, StandsDown
  <1> QED
    BY <1>1, EngineInvariant, PTL

-------------------------------------------------------------------------------
(***************************************************************************)
(* The refinements.  Over the owners of the slots: acquire is Enter or     *)
(* Wait, an owner's release is Leave, one too many is Stray or nothing,    *)
(* and an abort in the gap is Slip.                                        *)
(***************************************************************************)
LEMMA SlotSizes == \A S : SlotSem!Cardinality(S) = Cardinality(S)
  BY DEF SlotSem!Cardinality, Cardinality

LEMMA CallSizes == \A S : CallSem!Cardinality(S) = Cardinality(S)
  BY DEF CallSem!Cardinality, Cardinality

\* A release, seen on the slots.
LEMMA ReleaseOnSemaphore ==
  ASSUME EngineInv, NEW c \in Calls \ RateOnly, acq[c] \in {"resolved", "none"},
         Release(WithoutGrant(c)), gaps' = gaps, acq[c] = "none" => c \in Overdue
  PROVE  SlotSem!Next \/ UNCHANGED SlotSem!vars
  <1>1. /\ waiters = <<>> => Owners' = Owners \ {c} /\ waiters' = <<>>
        /\ waiters # <<>> => /\ Owners' = (Owners \ {c}) \cup {Head(waiters)}
                             /\ waiters' = Tail(waiters)
    BY ReleaseOnSlots DEF EngineInv, TypeOK, QueueInv
  <1>2. CASE acq[c] = "resolved"
    <2>1. c \in Owners
      BY <1>2 DEF Owners
    <2> QED
      BY <1>1, <2>1 DEF SlotSem!Next, SlotSem!Leave
  <1>3. CASE acq[c] = "none"
    <2>1. Owners \ {c} = Owners
      BY <1>3 DEF Owners
    <2>2. CASE waiters = <<>>
      BY <1>1, <2>1, <2>2 DEF SlotSem!vars
    <2>3. CASE waiters # <<>>
      <3>1. Cardinality(Overdue) >= 1
        BY <1>3, CallCounts, SetsOfCalls
      <3>2. Cardinality(Owners) < Limit + gaps
        BY <3>1, Sizes DEF EngineInv, CountedUpToGaps
      <3> QED
        BY <1>1, <2>1, <2>3, <3>2, SlotSizes DEF SlotSem!Next, SlotSem!Stray
    <2> QED
      BY <2>2, <2>3
  <1> QED
    BY <1>2, <1>3

\* The releases the engine makes: by HandBack and by EndAttempt.
LEMMA EngineReleases ==
  ASSUME EngineInv, NEW c \in Calls, HandBack(c) \/ (EndAttempt(c) /\ c \notin RateOnly)
  PROVE  /\ c \in Calls \ RateOnly /\ acq[c] \in {"resolved", "none"}
         /\ Release(WithoutGrant(c)) /\ gaps' = gaps
         /\ acq[c] = "none" => c \in Overdue
  <1>1. CASE HandBack(c)
    BY <1>1 DEF HandBack, Settled, EngineInv, CallConsistent, TypeOK, EngineTypeOK, Overdue,
                ReleasesToCome
  <1>2. CASE EndAttempt(c) /\ c \notin RateOnly
    BY <1>2 DEF EndAttempt, EngineInv, CallConsistent, GoesOn, Overdue, ReleasesToCome
  <1> QED
    BY <1>1, <1>2

\* Every step of the engine is one of the semaphore, over the slots.
LEMMA SlotSteps ==
  ASSUME EngineInv, [Next]_vars
  PROVE  SlotSem!Next \/ UNCHANGED SlotSem!vars
  <1>1. ASSUME NEW c \in Calls, Ask(c)
        PROVE  SlotSem!Next \/ UNCHANGED SlotSem!vars
    <2>1. gaps' = gaps
      BY <1>1 DEF Ask
    <2>2. CASE AcquireRateOnly(c)
      BY <2>1, <2>2, RateOnlyOnSlots DEF EngineInv, TypeOK, QueueInv, SlotSem!vars
    <2>3. CASE Acquire(c)
      <3>1. /\ c \notin Owners
            /\ \/ /\ inFlight < Limit /\ Owners' = Owners \cup {c} /\ waiters' = waiters
               \/ /\ inFlight = Limit /\ Owners' = Owners /\ waiters' = Append(waiters, c)
        BY <2>3, AcquireOnSlots DEF EngineInv, TypeOK, QueueInv
      <3>2. ~SlotSem!Waits(c)
        BY <2>3 DEF Acquire, SlotSem!Waits, EngineInv, QueueExact
      <3>3. /\ inFlight < Limit => Cardinality(Owners) < Limit + gaps
            /\ inFlight = Limit => Cardinality(Owners) >= Limit
        BY Sizes DEF EngineInv, CountedUpToGaps
      <3> QED
        BY <2>1, <3>1, <3>2, <3>3, SlotSizes DEF SlotSem!Next, SlotSem!Enter, SlotSem!Wait
    <2> QED
      BY <1>1, <2>2, <2>3 DEF Ask
  <1>2. ASSUME NEW c \in Calls, AcquireProceeds(c)
        PROVE  UNCHANGED SlotSem!vars
    BY <1>2, ContinuationOnSlots
       DEF AcquireProceeds, engineVars, EngineInv, TypeOK, QueueInv, SlotSem!vars
  <1>3. ASSUME NEW c \in Calls, HandBack(c) \/ (EndAttempt(c) /\ c \notin RateOnly)
        PROVE  SlotSem!Next \/ UNCHANGED SlotSem!vars
    BY <1>3, EngineReleases, ReleaseOnSemaphore
  <1>4. ASSUME NEW c \in Calls, Forget(c) \/ (EndAttempt(c) /\ c \in RateOnly)
        PROVE  UNCHANGED SlotSem!vars
    <2>1. /\ c \in RateOnly /\ acq[c] = "resolved" /\ acq' = WithoutGrant(c)
          /\ UNCHANGED <<inFlight, waiters, waited, gaps>>
      BY <1>4 DEF Forget, EndAttempt, EngineInv, CallConsistent, engineVars
    <2> QED
      BY <2>1, DropOnSlots DEF EngineInv, TypeOK, QueueInv, SlotSem!vars
  <1>5. ASSUME NEW c \in Calls,
               \/ Begin(c) \/ Refuse(c) \/ GrantWins(c) \/ RaceFinally(c)
               \/ BudgetTimer(c) \/ Abort(c) \/ EnterTry(c) \/ Abandon(c)
        PROVE  SlotSem!Next \/ UNCHANGED SlotSem!vars
    <2>1. UNCHANGED throttleVars /\ (gaps' = gaps \/ gaps' = gaps + 1)
      BY <1>5 DEF Begin, Refuse, GrantWins, RaceFinally, BudgetTimer, Abort, EnterTry, Abandon
    <2>2. Owners' = Owners /\ waiters' = waiters
      BY <2>1 DEF throttleVars, Owners
    <2> QED
      BY <2>1, <2>2 DEF SlotSem!Next, SlotSem!Slip, SlotSem!vars
  <1>6. CASE UNCHANGED vars
    BY <1>6 DEF vars, throttleVars, engineVars, Owners, SlotSem!vars
  <1> QED
    BY <1>1, <1>2, <1>3, <1>4, <1>5, <1>6 DEF Next

(***************************************************************************)
(* Whatever interrupts its callers, the limiter under the engine hands its *)
(* slots out in order of arrival and makes nobody wait below the limit; an *)
(* abort in the gap widens the limit by one place and does no other harm.  *)
(***************************************************************************)
THEOREM EngineRunsSemaphore == Spec => SlotsFollowSemaphore
  <1>1. Init => SlotSem!Init
    BY DEF Init, ThrottleInit, SlotSem!Init, Owners
  <1>2. EngineInv /\ [Next]_vars => [SlotSem!Next]_(SlotSem!vars)
    BY SlotSteps
  <1> QED
    BY <1>1, <1>2, EngineInvariant, PTL DEF Spec, SlotsFollowSemaphore, SlotSem!Spec

-------------------------------------------------------------------------------
\* Whether a call is inside changes only with its own steps, or when a slot is
\* handed to it.
LEMMA OthersInside ==
  ASSUME NEW e \in Calls, pc'[e] = pc[e], acq'[e] = acq[e]
  PROVE  e \in Inside' <=> e \in Inside
  BY DEF Inside, Owners, Admitted

LEMMA InsideIsCalls == Inside \in SUBSET Calls /\ Inside' \in SUBSET Calls
  BY SetsOfCalls DEF Inside

\* A step of one call that leaves it inside, or outside, leaves the callers inside.
LEMMA SameInside ==
  ASSUME NEW c \in Calls,
         \A e \in Calls \ {c} : pc'[e] = pc[e] /\ acq'[e] = acq[e],
         c \in Inside' <=> c \in Inside
  PROVE  Inside' = Inside
  <1>1. \A e \in Calls : e \in Inside' <=> e \in Inside
    BY OthersInside
  <1> QED
    BY <1>1, InsideIsCalls

\* A release, seen on the callers: c leaves, or a stray one admits the first waiter.
LEMMA ReleaseOnInside ==
  ASSUME EngineInv, EngineInv', NEW c \in Calls \ RateOnly, acq[c] \in {"resolved", "none"},
         Release(WithoutGrant(c)), gaps' = gaps,
         \A e \in Calls \ {c} : pc'[e] = pc[e],
         c \in Inside' => c \in Inside
  PROVE  CallSem!Next \/ UNCHANGED CallSem!vars
  <1>1. /\ waiters = <<>> => waiters' = <<>>
        /\ waiters # <<>> => waiters' = Tail(waiters)
        /\ acq'[c] = "none"
        /\ acq \in [Calls -> AcqStates]
    BY ReleaseOnSlots, ReleaseOnAcq DEF EngineInv, TypeOK, QueueInv, ThrottleTypeOK
  <1>2. CASE waiters = <<>>
    <2>1. \A e \in Calls \ {c} : acq'[e] = acq[e]
      BY <1>1, <1>2 DEF Release, WithoutGrant
    <2>2. \A e \in Calls \ {c} : e \in Inside' <=> e \in Inside
      BY <2>1, OthersInside
    <2>3. Inside' = IF c \in Inside' THEN Inside ELSE Inside \ {c}
      BY <2>2, InsideIsCalls
    <2> QED
      BY <1>1, <1>2, <2>3 DEF CallSem!Next, CallSem!Leave, CallSem!vars
  <1>3. CASE waiters # <<>>
    <2> DEFINE h == Head(waiters)
    <2>1. h \in Calls /\ h \notin RateOnly /\ h # c /\ acq[h] = "queued"
      <3>1. h = waiters[1] /\ 1 \in 1..Len(waiters) /\ h \in Calls \ RateOnly
        BY <1>3, HeadTailProperties, EmptySeq DEF EngineInv, TypeOK, ThrottleTypeOK
      <3>2. acq[h] = "queued"
        BY <3>1 DEF EngineInv, QueueExact
      <3> QED
        BY <3>1, <3>2
    <2>2. acq' = [[acq EXCEPT ![c] = "none"] EXCEPT ![h] = "slotted"]
      BY <1>3 DEF Release, WithoutGrant
    <2>3. acq'[h] = "slotted" /\ \A e \in Calls \ {c, h} : acq'[e] = acq[e]
      BY <1>1, <2>1, <2>2
    <2>4. h \in Inside' /\ h \notin Inside
      <3>1. h \in Inside'
        BY <2>1, <2>3 DEF Inside, Owners
      <3>2. h \notin Inside
        BY <2>1 DEF Inside, Owners, Admitted, EngineInv, CallConsistent, GoesOn
      <3> QED
        BY <3>1, <3>2
    <2>5. \A e \in Calls \ {c, h} : e \in Inside' <=> e \in Inside
      BY <2>3, OthersInside
    <2>6. CASE c \in Inside /\ c \notin Inside'
      <3>1. Inside' = (Inside \ {c}) \cup {h}
        BY <2>1, <2>4, <2>5, <2>6, InsideIsCalls
      <3> QED
        BY <1>1, <1>3, <2>6, <3>1 DEF CallSem!Next, CallSem!Leave
    <2>7. CASE c \in Inside <=> c \in Inside'
      <3>1. Inside' = Inside \cup {h}
        BY <2>1, <2>4, <2>5, <2>7, InsideIsCalls
      <3>2. Cardinality(Inside') = Cardinality(Inside) + 1
        BY <2>1, <2>4, <3>1, InsideIsCalls, CallCounts
      <3>3. Cardinality(Inside') <= Limit + gaps
        <4>1. InsideFits'
          BY InsideFit, PTL
        <4> QED
          BY <4>1 DEF InsideFits
      <3>4. Cardinality(Inside) < Limit + gaps
        BY <3>2, <3>3, InsideCounts, Sizes
      <3> QED
        BY <1>1, <1>3, <3>1, <3>4, CallSizes DEF CallSem!Next, CallSem!Stray
    <2> QED
      BY <2>6, <2>7
  <1> QED
    BY <1>2, <1>3

\* A call that stops at its `throttled` event keeps its slot, or has given it back.
LEMMA AbandonOnInside ==
  ASSUME EngineInv, NEW c \in Calls, Abandon(c)
  PROVE  CallSem!Next \/ UNCHANGED CallSem!vars
  <1>1. /\ UNCHANGED throttleVars /\ UNCHANGED gaps /\ pc[c] = "granted"
        /\ pc' = [pc EXCEPT ![c] = "idle"] /\ pc \in [Calls -> PCs]
    BY DEF Abandon, EndCall, Goto, EngineInv, TypeOK, EngineTypeOK
  <1>2. \A e \in Calls \ {c} : pc'[e] = pc[e] /\ acq'[e] = acq[e]
    BY <1>1 DEF throttleVars
  <1>3. waiters' = waiters /\ Owners' = Owners
    BY <1>1 DEF throttleVars, Owners
  <1>4. CASE c \in Inside' <=> c \in Inside
    BY <1>1, <1>2, <1>3, <1>4, SameInside DEF CallSem!vars
  <1>5. CASE ~(c \in Inside' <=> c \in Inside)
    <2>1. c \in Inside /\ c \notin Inside' /\ c \notin Owners
      BY <1>1, <1>3, <1>5 DEF Inside, Admitted
    <2>2. Inside' = Inside \ {c}
      <3>1. \A e \in Calls \ {c} : e \in Inside' <=> e \in Inside
        BY <1>2, OthersInside
      <3> QED
        BY <2>1, <3>1, InsideIsCalls
    <2>3. CASE waiters = <<>>
      BY <1>1, <1>3, <2>1, <2>2, <2>3 DEF CallSem!Next, CallSem!Leave
    <2>4. CASE waiters # <<>>
      <3>1. Cardinality(Owners) >= Limit
        BY <2>4, Sizes DEF EngineInv, NoIdleSlot, CountedUpToGaps
      <3>2. Owners \in SUBSET (Inside \ {c}) /\ Inside \ {c} \in SUBSET Calls
        BY <2>1, InsideIsCalls DEF Inside
      <3>3. Cardinality(Owners) <= Cardinality(Inside \ {c})
        BY <3>2, CallSubsets
      <3>4. Cardinality(Inside \ {c}) = Cardinality(Inside) - 1
        BY <2>1, InsideIsCalls, CallCounts
      <3>5. Cardinality(Inside) > Limit
        BY <3>1, <3>3, <3>4, InsideCounts, Sizes
      <3> QED
        BY <1>1, <1>3, <2>1, <2>2, <3>5, CallSizes DEF CallSem!Next, CallSem!Quit
    <2> QED
      BY <2>3, <2>4
  <1> QED
    BY <1>4, <1>5

\* Every step of the engine is one of the semaphore, over the callers inside.
LEMMA CallSteps ==
  ASSUME EngineInv, EngineInv', [Next]_vars
  PROVE  CallSem!Next \/ UNCHANGED CallSem!vars
  <1> USE DEF EngineInv, TypeOK
  <1>1. ASSUME NEW c \in Calls, Ask(c)
        PROVE  CallSem!Next \/ UNCHANGED CallSem!vars
    <2>1. gaps' = gaps /\ pc[c] = "top" /\ pc' = [pc EXCEPT ![c] = "racing"]
      BY <1>1 DEF Ask, Goto
    <2>2. /\ acq[c] = "none"
          /\ \/ AcquireRateOnly(c) /\ c \in RateOnly
             \/ Acquire(c) /\ c \notin RateOnly
      BY <1>1 DEF Ask, AcquireRateOnly, Acquire
    <2>3. \A e \in Calls \ {c} : pc'[e] = pc[e] /\ acq'[e] = acq[e]
      BY <1>1, <2>1 DEF Ask, AcquireRateOnly, Acquire, EngineTypeOK, ThrottleTypeOK
    <2>4. c \notin Inside /\ pc'[c] = "racing" /\ c \notin Admitted'
      BY <2>1, <2>2 DEF Inside, Owners, Admitted, EngineTypeOK
    <2>5. CASE AcquireRateOnly(c) /\ c \in RateOnly
      <3>1. waiters' = waiters /\ c \notin Inside'
        BY <2>5 DEF AcquireRateOnly, Inside, Owners, Admitted
      <3> QED
        BY <2>1, <2>3, <2>4, <3>1, SameInside DEF CallSem!vars
    <2>6. CASE Acquire(c) /\ c \notin RateOnly
      <3>1. \/ /\ inFlight < Limit /\ Owners' = Owners \cup {c} /\ waiters' = waiters
            \/ /\ inFlight = Limit /\ Owners' = Owners /\ waiters' = Append(waiters, c)
        BY <2>6, AcquireOnSlots DEF QueueInv
      <3>2. ~CallSem!Waits(c) /\ c \notin Owners
        BY <2>2 DEF CallSem!Waits, QueueExact, Owners
      <3>3. /\ inFlight < Limit => Cardinality(Inside) < Limit + gaps
            /\ inFlight = Limit => Cardinality(Inside) >= Limit
        BY InsideCounts, Sizes
      <3>4. \A e \in Calls \ {c} : e \in Inside' <=> e \in Inside
        BY <2>3, OthersInside
      <3>5. c \in Inside' <=> c \in Owners'
        BY <2>4 DEF Inside
      <3>6. CASE inFlight < Limit /\ Owners' = Owners \cup {c} /\ waiters' = waiters
        <4>1. Inside' = Inside \cup {c}
          BY <3>4, <3>5, <3>6, InsideIsCalls
        <4> QED
          BY <2>1, <2>4, <3>2, <3>3, <3>6, <4>1, CallSizes DEF CallSem!Next, CallSem!Enter
      <3>7. CASE inFlight = Limit /\ Owners' = Owners /\ waiters' = Append(waiters, c)
        <4>1. c \notin Inside'
          BY <3>2, <3>5, <3>7
        <4>2. Inside' = Inside
          BY <2>3, <2>4, <4>1, SameInside
        <4> QED
          BY <2>1, <2>4, <3>2, <3>3, <3>7, <4>2, CallSizes DEF CallSem!Next, CallSem!Wait
      <3> QED
        BY <3>1, <3>6, <3>7
    <2> QED
      BY <2>2, <2>5, <2>6
  <1>2. ASSUME NEW c \in Calls, AcquireProceeds(c)
        PROVE  UNCHANGED CallSem!vars
    <2>1. Owners' = Owners /\ waiters' = waiters /\ pc' = pc /\ gaps' = gaps
      BY <1>2, ContinuationOnSlots DEF AcquireProceeds, engineVars, QueueInv
    <2> QED
      BY <2>1 DEF Inside, Admitted, CallSem!vars
  <1>3. ASSUME NEW c \in Calls, HandBack(c)
        PROVE  CallSem!Next \/ UNCHANGED CallSem!vars
    <2>1. /\ c \in Calls \ RateOnly /\ acq[c] \in {"resolved", "none"}
          /\ Release(WithoutGrant(c)) /\ gaps' = gaps /\ pc' = pc
      BY <1>3, EngineReleases DEF HandBack
    <2>2. c \in Inside' => c \in Inside
      <3>1. acq'[c] = "none"
        BY <2>1, ReleaseOnAcq DEF QueueInv
      <3> QED
        BY <2>1, <3>1 DEF Inside, Owners, Admitted
    <2> QED
      BY <2>1, <2>2, ReleaseOnInside
  <1>4. ASSUME NEW c \in Calls, EndAttempt(c)
        PROVE  CallSem!Next \/ UNCHANGED CallSem!vars
    <2>1. /\ pc[c] = "trying" /\ \E l \in {"top", "idle"} : pc' = [pc EXCEPT ![c] = l]
          /\ gaps' = gaps
      BY <1>4 DEF EndAttempt, Outcome, EndCall, Goto
    <2>2. /\ \A e \in Calls \ {c} : pc'[e] = pc[e]
          /\ pc'[c] \in {"top", "idle"}
      BY <2>1 DEF EngineTypeOK
    <2>3. CASE c \in RateOnly
      <3>1. acq' = WithoutGrant(c) /\ waiters' = waiters
        BY <1>4, <2>3 DEF EndAttempt
      <3>2. \A e \in Calls \ {c} : acq'[e] = acq[e]
        BY <3>1 DEF WithoutGrant, ThrottleTypeOK
      <3>3. c \notin Inside /\ c \notin Inside'
        BY <2>3 DEF Inside, Owners, Admitted
      <3> QED
        BY <2>1, <2>2, <3>1, <3>2, <3>3, SameInside DEF CallSem!vars
    <2>4. CASE c \notin RateOnly
      <3>1. /\ acq[c] \in {"resolved", "none"} /\ Release(WithoutGrant(c))
        BY <1>4, <2>4, EngineReleases
      <3>2. c \in Inside
        BY <2>1, <2>4 DEF Inside, Admitted
      <3> QED
        BY <2>1, <2>2, <2>4, <3>1, <3>2, ReleaseOnInside
    <2> QED
      BY <2>3, <2>4
  <1>5. ASSUME NEW c \in Calls, Forget(c)
        PROVE  UNCHANGED CallSem!vars
    <2>1. /\ c \in RateOnly /\ acq' = WithoutGrant(c) /\ UNCHANGED <<waiters, pc, gaps>>
      BY <1>5 DEF Forget, engineVars
    <2>2. \A e \in Calls \ {c} : acq'[e] = acq[e]
      BY <2>1 DEF WithoutGrant, ThrottleTypeOK
    <2>3. c \notin Inside /\ c \notin Inside'
      BY <2>1 DEF Inside, Owners, Admitted
    <2> QED
      BY <2>1, <2>2, <2>3, SameInside DEF CallSem!vars
  <1>6. ASSUME NEW c \in Calls, Abandon(c)
        PROVE  CallSem!Next \/ UNCHANGED CallSem!vars
    BY <1>6, AbandonOnInside
  <1>7. ASSUME NEW c \in Calls,
               \/ Begin(c) \/ Refuse(c) \/ GrantWins(c) \/ RaceFinally(c)
               \/ BudgetTimer(c) \/ Abort(c) \/ EnterTry(c)
        PROVE  CallSem!Next \/ UNCHANGED CallSem!vars
    <2>1. /\ UNCHANGED throttleVars /\ (gaps' = gaps \/ gaps' = gaps + 1)
          /\ \E l \in PCs : /\ pc' = [pc EXCEPT ![c] = l]
                            /\ \/ l = pc[c]
                               \/ {l, pc[c]} \subseteq {"idle", "top", "racing", "lost"}
                               \/ {l, pc[c]} \subseteq {"won", "granted", "trying"}
                               \/ pc[c] = "racing" /\ acq[c] = "resolved"
      <3>1. pc \in [Calls -> PCs]
        BY DEF EngineTypeOK
      <3>2. CASE Begin(c)
        BY <3>1, <3>2 DEF Begin, Goto, PCs
      <3>3. CASE Refuse(c)
        BY <3>1, <3>3 DEF Refuse, EndCall, Goto, PCs
      <3>4. CASE GrantWins(c) \/ RaceFinally(c) \/ EnterTry(c)
        BY <3>1, <3>4 DEF GrantWins, RaceFinally, EnterTry, EndCall, Goto, PCs
      <3>5. CASE BudgetTimer(c)
        BY <3>1, <3>5 DEF BudgetTimer, Goto, PCs
      <3>6. CASE Abort(c)
        BY <3>1, <3>6 DEF Abort, InGap, PCs
      <3> QED
        BY <1>7, <3>2, <3>3, <3>4, <3>5, <3>6
    <2>2. Owners' = Owners /\ waiters' = waiters
      BY <2>1 DEF throttleVars, Owners
    <2>3. \A e \in Calls \ {c} : pc'[e] = pc[e] /\ acq'[e] = acq[e]
      BY <2>1 DEF throttleVars, EngineTypeOK
    <2>4. c \in Inside' <=> c \in Inside
      BY <2>1, <2>2 DEF Inside, Owners, Admitted, EngineTypeOK
    <2>5. Inside' = Inside
      BY <2>3, <2>4, SameInside
    <2> QED
      BY <2>1, <2>2, <2>5 DEF CallSem!Next, CallSem!Slip, CallSem!vars
  <1>8. CASE UNCHANGED vars
    BY <1>8 DEF vars, throttleVars, engineVars, Inside, Admitted, Owners, CallSem!vars
  <1> QED
    BY <1>1, <1>2, <1>3, <1>4, <1>5, <1>6, <1>7, <1>8 DEF Next

(***************************************************************************)
(* Seen from its callers the engine is that semaphore too: waits that are  *)
(* cut short neither let anyone overtake nor cost anyone a turn.           *)
(***************************************************************************)
THEOREM EngineRefines == Spec => CallsFollowSemaphore
  <1>1. Init => CallSem!Init
    BY DEF Init, ThrottleInit, CallSem!Init, Inside, Owners, Admitted
  <1>2. EngineInv /\ EngineInv' /\ [Next]_vars => [CallSem!Next]_(CallSem!vars)
    BY CallSteps
  <1> QED
    BY <1>1, <1>2, EngineInvariant, PTL DEF Spec, CallsFollowSemaphore, CallSem!Spec

-------------------------------------------------------------------------------
(***************************************************************************)
(* Until an abort lands in the gap, the engine keeps the contract the      *)
(* limiter's doc comment puts on its callers: acquire "MUST be paired with *)
(* release".  Whatever is retried, refreshed, aborted outside the gap,     *)
(* timed out or abandoned, every release is that of an acquire which has   *)
(* resolved and was not released before.                                   *)
(***************************************************************************)
THEOREM EngineKeepsContract == Spec => KeepsContract
  <1>1. Init => ThrottleInit
    BY DEF Init
  <1>2. ASSUME EngineInv, [Next]_vars, gaps' = 0
        PROVE  [ThrottleNext]_throttleVars
    <2>1. gaps = 0
      <3>1. gaps' = gaps \/ gaps' = gaps + 1
        BY <1>2 DEF Next, vars, engineVars, Begin, Refuse, Ask, AcquireProceeds, GrantWins,
                    RaceFinally, BudgetTimer, Abort, HandBack, Forget, EnterTry, Abandon,
                    EndAttempt
      <3> QED
        BY <1>2, <3>1, Sizes
    <2>2. \A c \in Calls : c \notin Overdue
      <3>1. Cardinality(Overdue) = 0
        BY <1>2, <2>1, Sizes DEF EngineInv, CountedUpToGaps
      <3>2. \A c \in Calls : c \in Overdue => Cardinality(Overdue) >= 1
        BY CallCounts, SetsOfCalls
      <3> QED
        BY <3>1, <3>2
    <2>3. ASSUME NEW c \in Calls, Ask(c) \/ AcquireProceeds(c)
          PROVE  ThrottleNext
      BY <2>3 DEF Ask, AcquireProceeds, ThrottleNext
    <2>4. ASSUME NEW c \in Calls, HandBack(c) \/ (EndAttempt(c) /\ c \notin RateOnly)
          PROVE  PairedRelease(c)
      BY <1>2, <2>2, <2>4, EngineReleases DEF PairedRelease
    <2>5. ASSUME NEW c \in Calls, (EndAttempt(c) /\ c \in RateOnly) \/ Forget(c)
          PROVE  PairedRelease(c)
      BY <1>2, <2>5 DEF EndAttempt, Forget, EngineInv, CallConsistent, PairedRelease
    <2>6. ASSUME NEW c \in Calls,
                 \/ Begin(c) \/ Refuse(c) \/ GrantWins(c) \/ RaceFinally(c)
                 \/ BudgetTimer(c) \/ Abort(c) \/ EnterTry(c) \/ Abandon(c)
          PROVE  UNCHANGED throttleVars
      BY <2>6 DEF Begin, Refuse, GrantWins, RaceFinally, BudgetTimer, Abort, EnterTry, Abandon
    <2>7. CASE UNCHANGED vars
      BY <2>7 DEF vars
    <2> QED
      BY <1>2, <2>3, <2>4, <2>5, <2>6, <2>7 DEF Next, ThrottleNext
  <1>3. EngineInv /\ [Next]_vars => [gaps' = 0 => ThrottleNext]_throttleVars
    BY <1>2
  <1> QED
    BY <1>1, <1>3, EngineInvariant, PTL DEF Spec, KeepsContract
===============================================================================
