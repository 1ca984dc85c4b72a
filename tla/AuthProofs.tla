----------------------------- MODULE AuthProofs -----------------------------
(***************************************************************************)
(* The strategies' single flight, for every set of calls, every limit and  *)
(* however many tokens are minted.  The operations of the limiter keep its *)
(* invariant by the lemmas of ThrottleProofs.                              *)
(***************************************************************************)
EXTENDS AuthFlight, ThrottleProofs

\* A call holds a slot from the grant to its finally.
HasSlot(c) ==
  /\ pc[c] \in {"idle", "retry"} => acq[c] = "none"
  /\ pc[c] \notin {"idle", "retry", "asking"} => acq[c] = "resolved"
  /\ acq[c] = "queued" => pc[c] = "asking"

\* So does the pooled login, from its flight's start to its answer.
LoginHasSlot ==
  /\ acq[Login] # "none" => strategy = "pooled" /\ flight \in {"asking", "posting"}
  /\ flight = "asking" => strategy = "pooled"
  /\ strategy = "pooled" /\ flight = "posting" => acq[Login] = "resolved"

Awaits(c) == pc[c] \in {"waiting", "renewing"}
Awaited ==
  /\ \A c \in Users : Awaits(c) => flight # "none"
  /\ flight # "none" => \E c \in Users : Awaits(c)

AuthTypeOK ==
  /\ strategy \in Strategies
  /\ vault \in Tokens /\ minted \in Tokens /\ fetched \in Tokens
  /\ valid \subseteq 1..minted
  /\ flight \in FlightStates
  /\ pc \in [Users -> PCs]
  /\ carried \in [Users -> Tokens]
  /\ refreshed \in [Users -> BOOLEAN]
  /\ rejected \in [Users -> Tokens]
  /\ owed \in [Users -> BOOLEAN]

LEMMA Types == TypeOK <=> ThrottleTypeOK /\ AuthTypeOK
BY DEF TypeOK, AuthTypeOK

\* Whatever anybody has was minted, and a flight has a token only once it was answered.
Minted ==
  /\ vault <= minted /\ fetched <= minted
  /\ \A c \in Users : carried[c] <= minted /\ rejected[c] <= minted
  /\ \A c \in Users : pc[c] = "idle" => rejected[c] = 0
  /\ flight \in {"none", "asking", "posting", "failing"} => fetched = 0

(***************************************************************************)
(* Tokens are numbered in the order they are minted: what the flight       *)
(* brings, and what the vault holds once it has stored it, is above the    *)
(* token that was refused before the flight was answered.                  *)
(***************************************************************************)
Above(t, c) == t = 0 \/ t > rejected[c]
Past == {"renewed", "retry", "asking", "reading", "missed", "waiting", "rereading"}
Renewed(c) ==
  owed[c] /\ rejected[c] # 0 =>
    /\ pc[c] = "renewing" /\ flight \in {"storing", "settling", "failing"} => Above(fetched, c)
    /\ pc[c] = "renewing" /\ flight = "settling" /\ fetched # 0 => Above(vault, c)
    /\ pc[c] \in Past => Above(vault, c) /\ Above(fetched, c)
    /\ pc[c] = "sending" => Above(carried[c], c)

Slots == ThrottleInv /\ LoginHasSlot /\ \A c \in Users : HasSlot(c)
Facts == AuthTypeOK /\ Minted /\ \A c \in Users : Renewed(c)
AuthInv == Slots /\ Awaited /\ Facts

LEMMA Numbers ==
  /\ MaxMint \in Nat /\ Login \in Calls /\ Users \subseteq Calls /\ Login \notin Users
  /\ Calls \ RateOnly = Calls
BY AuthFlightAssumption DEF Users

LEMMA BooleanUpdate ==
  \A S : \A f \in [S -> BOOLEAN], x \in S, b \in BOOLEAN :
    [f EXCEPT ![x] = b] \in [S -> BOOLEAN]
OBVIOUS

LEMMA AuthInitInv == Init => AuthInv
<1> SUFFICES ASSUME Init PROVE AuthInv
  OBVIOUS
<1>1. ThrottleInv
  BY InitInv DEF Init
<1>2. LoginHasSlot /\ \A c \in Users : HasSlot(c)
  BY Numbers DEF Init, ThrottleInit, LoginHasSlot, HasSlot
<1>3. Awaited
  BY DEF Init, Awaited, Awaits
<1>4. AuthTypeOK
  <2>1. refreshed \in [Users -> BOOLEAN] /\ owed \in [Users -> BOOLEAN]
    BY Zenon DEF Init
  <2>2. 0 \in Tokens
    BY Numbers DEF Tokens
  <2> QED BY <2>1, <2>2 DEF Init, AuthTypeOK, FlightStates, PCs
<1>5. Minted
  BY DEF Init, Minted
<1>6. \A c \in Users : Renewed(c)
  BY DEF Init, Renewed
<1> QED BY <1>1, <1>2, <1>3, <1>4, <1>5, <1>6 DEF AuthInv, Slots, Facts

-------------------------------------------------------------------------------
\* What a release does to the acquires: its own goes, one that was queued may get on.
LEMMA ReleaseOthers ==
  ASSUME ThrottleInv, NEW c \in Calls, acq[c] = "resolved", Release(WithoutGrant(c))
  PROVE  /\ ThrottleInv'
         /\ acq'[c] = "none"
         /\ \A e \in Calls \ {c} : \/ acq'[e] = acq[e]
                                  \/ (acq[e] = "queued" /\ acq'[e] = "slotted")
<1>1. ThrottleInv'
  BY ReleaseMovesSlot, Numbers
<1>2. CASE waiters = <<>>
  BY <1>1, <1>2 DEF Release, WithoutGrant, ThrottleInv, ThrottleTypeOK
<1>3. CASE waiters # <<>>
  <2> DEFINE h == Head(waiters)
  <2>1. acq' = [[acq EXCEPT ![c] = "none"] EXCEPT ![h] = "slotted"]
    BY <1>3 DEF Release, WithoutGrant
  <2>2. h \in Calls /\ h = waiters[1] /\ 1 \in 1..Len(waiters)
    BY <1>3 DEF ThrottleInv, ThrottleTypeOK
  <2>3. acq[h] = "queued"
    BY <2>2 DEF ThrottleInv, QueueExact
  <2> HIDE DEF h
  <2> QED BY <1>1, <2>1, <2>2, <2>3 DEF ThrottleInv, ThrottleTypeOK
<1> QED BY <1>2, <1>3

LEMMA SlotsKeep ==
  ASSUME Slots, UNCHANGED throttleVars,
         LoginHasSlot', \A c \in Users : HasSlot(c)'
  PROVE  Slots'
BY DEF Slots, throttleVars, ThrottleInv, ThrottleTypeOK, SlotsCounted, QueueExact, NoIdleSlot,
       Owners

\* A user's step that leaves the limiter and the flight alone, and neither enters nor
\* leaves the wait for it.
LEMMA UserMoves ==
  ASSUME AuthInv, NEW c \in Users, NEW next \in PCs,
         pc' = [pc EXCEPT ![c] = next], UNCHANGED <<throttleVars, strategy, flight>>,
         pc[c] \notin {"idle", "retry", "waiting", "renewing"},
         pc[c] = "asking" => acq[c] = "resolved",
         next \notin {"idle", "retry", "asking", "waiting", "renewing"}
  PROVE  Slots' /\ Awaited'
<1>1. LoginHasSlot' /\ \A e \in Users : HasSlot(e)'
  BY DEF AuthInv, Slots, LoginHasSlot, HasSlot, Facts, AuthTypeOK, throttleVars
<1>2. Awaited'
  BY DEF AuthInv, Awaited, Awaits, Facts, AuthTypeOK
<1> QED BY <1>1, <1>2, SlotsKeep DEF AuthInv

LEMMA ApplyKeeps ==
  ASSUME AuthInv, NEW c \in Users, Apply(c) \/ Miss(c)
  PROVE  AuthInv'
<1>1. PICK next \in {"reading", "missed"} :
        /\ pc' = [pc EXCEPT ![c] = next] /\ pc[c] \in {"asking", "reading"}
        /\ pc[c] = "asking" => acq[c] = "resolved"
        /\ UNCHANGED <<throttleVars, serverVars, flightVars, localVars>>
  BY DEF Apply, Miss, Goto
<1>2. Slots' /\ Awaited'
  BY <1>1, UserMoves DEF flightVars, PCs
<1>3. Facts'
  BY <1>1 DEF AuthInv, Facts, AuthTypeOK, Minted, Renewed, Above, Past, PCs,
              serverVars, flightVars, localVars
<1> QED BY <1>2, <1>3 DEF AuthInv

LEMMA HitKeeps ==
  ASSUME AuthInv, NEW c \in Users, Hit(c) \/ Reread(c)
  PROVE  AuthInv'
<1>1. /\ pc' = [pc EXCEPT ![c] = "sending"] /\ pc[c] \in {"reading", "rereading"}
      /\ carried' = [carried EXCEPT ![c] = vault]
      /\ UNCHANGED <<throttleVars, serverVars, flightVars, refreshed, rejected, owed>>
  BY DEF Hit, Reread, Goto
<1>2. Slots' /\ Awaited'
  BY <1>1, UserMoves DEF flightVars, PCs
<1>3. AuthTypeOK' /\ Minted'
  BY <1>1 DEF AuthInv, Facts, AuthTypeOK, Minted, PCs, serverVars, flightVars
<1>4. ASSUME NEW e \in Users PROVE Renewed(e)'
  BY <1>1 DEF AuthInv, Facts, AuthTypeOK, Renewed, Above, Past, serverVars, flightVars
<1> QED BY <1>2, <1>3, <1>4 DEF AuthInv, Facts

LEMMA ServeKeeps ==
  ASSUME AuthInv, NEW c \in Users, Serve(c)
  PROVE  AuthInv'
<1>1. PICK next \in {"ending", "walled"} :
        /\ pc' = [pc EXCEPT ![c] = next] /\ pc[c] = "sending"
        /\ UNCHANGED <<throttleVars, serverVars, flightVars, localVars>>
  BY DEF Serve, Goto
<1>2. Slots' /\ Awaited'
  BY <1>1, UserMoves DEF flightVars, PCs
<1>3. Facts'
  BY <1>1 DEF AuthInv, Facts, AuthTypeOK, Minted, Renewed, Above, Past, PCs,
              serverVars, flightVars, localVars
<1> QED BY <1>2, <1>3 DEF AuthInv

\* The flight is there once it was joined, and brings what it would have brought.
LEMMA JoinKeeps ==
  ASSUME AuthInv, NEW c \in Users, NEW next \in {"waiting", "renewing"},
         pc[c] \in {"missed", "walled"}, pc' = [pc EXCEPT ![c] = next],
         JoinFlight, UNCHANGED throttleVars
  PROVE  /\ Slots' /\ Awaited'
         /\ flight' \in FlightStates /\ fetched' = fetched /\ strategy' = strategy
         /\ flight' \in {"none", "asking", "posting", "failing"} => fetched' = 0
         /\ Unanswered => flight' \in {"asking", "posting"}
         /\ flight # "none" => flight' = flight
<1>1. /\ fetched' = fetched /\ strategy' = strategy
      /\ flight' = IF flight # "none" THEN flight
                   ELSE IF strategy = "pooled" THEN "asking" ELSE "posting"
  BY DEF JoinFlight
<1>2. flight' # "none" /\ flight' \in FlightStates
  BY <1>1 DEF FlightStates, AuthInv, Facts, AuthTypeOK
<1>3. Awaited'
  BY <1>2 DEF AuthInv, Awaited, Awaits, Facts, AuthTypeOK
<1>4. LoginHasSlot'
  BY <1>1 DEF AuthInv, Slots, LoginHasSlot, throttleVars
<1>5. \A e \in Users : HasSlot(e)'
  BY DEF AuthInv, Slots, HasSlot, Facts, AuthTypeOK, throttleVars
<1>6. Slots'
  BY <1>4, <1>5, SlotsKeep DEF AuthInv
<1> QED BY <1>1, <1>2, <1>3, <1>6 DEF Unanswered, AuthInv, Facts, Minted

LEMMA ApplyJoinsKeeps ==
  ASSUME AuthInv, NEW c \in Users, ApplyJoins(c)
  PROVE  AuthInv'
<1>1. /\ pc[c] = "missed" /\ pc' = [pc EXCEPT ![c] = "waiting"] /\ JoinFlight
      /\ UNCHANGED <<throttleVars, serverVars, localVars>>
  BY DEF ApplyJoins, Goto
<1>2. /\ Slots' /\ Awaited'
      /\ flight' \in FlightStates /\ fetched' = fetched /\ strategy' = strategy
      /\ flight' \in {"none", "asking", "posting", "failing"} => fetched' = 0
      /\ flight # "none" => flight' = flight
  BY <1>1, JoinKeeps
<1>3. AuthTypeOK' /\ Minted'
  BY <1>1, <1>2 DEF AuthInv, Facts, AuthTypeOK, Minted, PCs, serverVars, localVars
<1>4. ASSUME NEW e \in Users PROVE Renewed(e)'
  <2>1. e # c => pc'[e] = pc[e] /\ (pc[e] = "renewing" => flight' = flight)
    BY <1>1, <1>2 DEF AuthInv, Facts, AuthTypeOK, Awaited, Awaits
  <2>2. pc'[c] = "waiting"
    BY <1>1 DEF AuthInv, Facts, AuthTypeOK
  <2> QED BY <1>1, <1>2, <2>1, <2>2 DEF AuthInv, Facts, Renewed, Above, Past, serverVars,
                                        localVars
<1> QED BY <1>2, <1>3, <1>4 DEF AuthInv, Facts

LEMMA WallKeeps ==
  ASSUME AuthInv, NEW c \in Users, Wall(c)
  PROVE  AuthInv'
<1>1. CASE refreshed[c]
  <2>1. /\ pc[c] = "walled" /\ pc' = [pc EXCEPT ![c] = "ending"]
        /\ UNCHANGED <<throttleVars, serverVars, flightVars, carried, refreshed, rejected, owed>>
    BY <1>1 DEF Wall, Goto
  <2>2. Slots' /\ Awaited'
    BY <2>1, UserMoves DEF flightVars, PCs
  <2>3. Facts'
    BY <2>1 DEF AuthInv, Facts, AuthTypeOK, Minted, Renewed, Above, Past, PCs,
                serverVars, flightVars
  <2> QED BY <2>2, <2>3 DEF AuthInv
<1>2. CASE ~refreshed[c]
  <2>1. /\ pc[c] = "walled" /\ pc' = [pc EXCEPT ![c] = "renewing"] /\ JoinFlight
        /\ rejected' = [rejected EXCEPT ![c] = carried[c]]
        /\ owed' = [owed EXCEPT ![c] = Unanswered]
        /\ UNCHANGED <<throttleVars, serverVars, carried>>
    BY <1>2 DEF Wall, Goto
  <2>2. /\ Slots' /\ Awaited'
        /\ flight' \in FlightStates /\ fetched' = fetched /\ strategy' = strategy
        /\ flight' \in {"none", "asking", "posting", "failing"} => fetched' = 0
        /\ Unanswered => flight' \in {"asking", "posting"}
        /\ flight # "none" => flight' = flight
    BY <2>1, JoinKeeps
  <2>3. refreshed' \in [Users -> BOOLEAN] /\ owed' \in [Users -> BOOLEAN]
    <3>1. Unanswered \in BOOLEAN /\ TRUE \in BOOLEAN
      BY DEF Unanswered
    <3>2. refreshed \in [Users -> BOOLEAN] /\ owed \in [Users -> BOOLEAN]
      BY DEF AuthInv, Facts, AuthTypeOK
    <3>3. refreshed' = [refreshed EXCEPT ![c] = TRUE]
      BY <1>2 DEF Wall
    <3> QED BY <2>1, <3>1, <3>2, <3>3, BooleanUpdate
  <2>4. AuthTypeOK'
    BY <2>1, <2>2, <2>3 DEF AuthInv, Facts, AuthTypeOK, PCs, serverVars
  <2>5. Minted'
    BY <2>1, <2>2 DEF AuthInv, Facts, AuthTypeOK, Minted, serverVars
  <2>6. ASSUME NEW e \in Users PROVE Renewed(e)'
    <3>1. CASE e = c
      <4>1. pc'[c] = "renewing" /\ (owed'[c] => flight' \in {"asking", "posting"})
        BY <2>1, <2>2 DEF AuthInv, Facts, AuthTypeOK
      <4> QED BY <3>1, <4>1 DEF Renewed, Past
    <3>2. CASE e # c
      <4>1. pc'[e] = pc[e] /\ owed'[e] = owed[e] /\ rejected'[e] = rejected[e]
            /\ (pc[e] = "renewing" => flight' = flight)
        BY <2>1, <2>2, <3>2 DEF AuthInv, Facts, AuthTypeOK, Awaited, Awaits
      <4> QED BY <2>1, <2>2, <4>1 DEF AuthInv, Facts, Renewed, Above, serverVars
    <3> QED BY <3>1, <3>2
  <2> QED BY <2>2, <2>4, <2>5, <2>6 DEF AuthInv, Facts
<1> QED BY <1>1, <1>2

-------------------------------------------------------------------------------
\* What an acquire does to the acquires.
LEMMA AcquireOthers ==
  ASSUME ThrottleInv, NEW c \in Calls, Acquire(c)
  PROVE  /\ ThrottleInv'
         /\ acq[c] = "none" /\ acq'[c] \in {"slotted", "queued"}
         /\ \A e \in Calls \ {c} : acq'[e] = acq[e]
<1>1. ThrottleInv'
  BY AcquireKeepsInv
<1>2. acq[c] = "none"
      /\ (acq' = [acq EXCEPT ![c] = "slotted"] \/ acq' = [acq EXCEPT ![c] = "queued"])
  BY DEF Acquire
<1> QED BY <1>1, <1>2 DEF ThrottleInv, ThrottleTypeOK

LEMMA AskKeeps ==
  ASSUME AuthInv, NEW c \in Users, Ask(c)
  PROVE  AuthInv'
<1>1. /\ pc[c] \in {"idle", "retry"} /\ Acquire(c) /\ pc' = [pc EXCEPT ![c] = "asking"]
      /\ UNCHANGED <<serverVars, flightVars, localVars>>
  BY DEF Ask, Goto
<1>2. /\ ThrottleInv'
      /\ acq[c] = "none" /\ acq'[c] \in {"slotted", "queued"}
      /\ \A e \in Calls \ {c} : acq'[e] = acq[e]
  BY <1>1, AcquireOthers, Numbers DEF AuthInv, Slots
<1>3. LoginHasSlot' /\ \A e \in Users : HasSlot(e)'
  BY <1>1, <1>2, Numbers DEF AuthInv, Slots, LoginHasSlot, HasSlot, Facts, AuthTypeOK, flightVars
<1>4. Awaited'
  BY <1>1 DEF AuthInv, Awaited, Awaits, Facts, AuthTypeOK, flightVars
<1>5. Facts'
  <2>1. AuthTypeOK' /\ Minted'
    BY <1>1 DEF AuthInv, Facts, AuthTypeOK, Minted, PCs, serverVars, flightVars, localVars
  <2>2. ASSUME NEW e \in Users PROVE Renewed(e)'
    <3>1. CASE pc[c] = "retry"
      BY <1>1, <3>1 DEF AuthInv, Facts, AuthTypeOK, Renewed, Above, Past, serverVars,
                        flightVars, localVars
    <3>2. CASE pc[c] = "idle" /\ e # c
      BY <1>1, <3>2 DEF AuthInv, Facts, AuthTypeOK, Renewed, Above, Past, serverVars,
                        flightVars, localVars
    <3>3. CASE pc[c] = "idle" /\ e = c
      BY <1>1, <3>3 DEF AuthInv, Facts, Minted, Renewed, localVars
    <3> QED BY <1>1, <3>1, <3>2, <3>3
  <2> QED BY <2>1, <2>2 DEF Facts
<1> QED BY <1>2, <1>3, <1>4, <1>5 DEF AuthInv, Slots

LEMMA ProceedsKeeps ==
  ASSUME AuthInv, NEW c \in Calls, AcquireProceeds(c)
  PROVE  AuthInv'
<1>1. /\ acq[c] = "slotted" /\ acq' = [acq EXCEPT ![c] = "resolved"]
      /\ UNCHANGED authVars
  BY DEF AcquireProceeds, Slotted, Pace, AuthInv, Slots, ThrottleInv, ThrottleTypeOK
<1>2. ThrottleInv'
  BY ContinuationKeepsInv DEF AcquireProceeds, AuthInv, Slots
<1>3. LoginHasSlot' /\ \A e \in Users : HasSlot(e)'
  BY <1>1, Numbers DEF AuthInv, Slots, ThrottleInv, ThrottleTypeOK, LoginHasSlot, HasSlot,
                       authVars
<1>4. Awaited' /\ Facts'
  BY <1>1 DEF AuthInv, Awaited, Awaits, Facts, AuthTypeOK, Minted, Renewed, Above, authVars
<1> QED BY <1>2, <1>3, <1>4 DEF AuthInv, Slots

LEMMA FinallyKeeps ==
  ASSUME AuthInv, NEW c \in Users, Redo(c) \/ End(c)
  PROVE  AuthInv'
<1>1. /\ pc[c] \in {"renewed", "ending"} /\ Release(WithoutGrant(c))
      /\ (pc' = [pc EXCEPT ![c] = "retry"] \/ pc' = [pc EXCEPT ![c] = "idle"])
      /\ UNCHANGED <<serverVars, flightVars>>
  BY DEF Redo, End, Goto
<1>2. acq[c] = "resolved"
  BY <1>1 DEF AuthInv, Slots, HasSlot
<1>3. /\ ThrottleInv'
      /\ acq'[c] = "none"
      /\ \A e \in Calls \ {c} : acq'[e] = acq[e] \/ (acq[e] = "queued" /\ acq'[e] = "slotted")
  BY <1>1, <1>2, ReleaseOthers, Numbers DEF AuthInv, Slots
<1>4. LoginHasSlot' /\ \A e \in Users : HasSlot(e)'
  BY <1>1, <1>3, Numbers DEF AuthInv, Slots, LoginHasSlot, HasSlot, Facts, AuthTypeOK, flightVars
<1>5. Awaited'
  BY <1>1 DEF AuthInv, Awaited, Awaits, Facts, AuthTypeOK, flightVars
<1>6. CASE Redo(c)
  <2>1. /\ pc[c] = "renewed" /\ pc' = [pc EXCEPT ![c] = "retry"]
        /\ UNCHANGED <<serverVars, flightVars, localVars>>
    BY <1>6 DEF Redo, Goto
  <2>2. Facts'
    BY <2>1 DEF AuthInv, Facts, AuthTypeOK, Minted, Renewed, Above, Past, PCs, serverVars,
                flightVars, localVars
  <2> QED BY <1>3, <1>4, <1>5, <2>2 DEF AuthInv, Slots
<1>7. CASE End(c)
  <2>1. /\ pc' = [pc EXCEPT ![c] = "idle"]
        /\ carried' = [carried EXCEPT ![c] = 0] /\ refreshed' = [refreshed EXCEPT ![c] = FALSE]
        /\ rejected' = [rejected EXCEPT ![c] = 0] /\ owed' = [owed EXCEPT ![c] = FALSE]
        /\ UNCHANGED <<serverVars, flightVars>>
    BY <1>7 DEF End, Goto
  <2>2. refreshed' \in [Users -> BOOLEAN] /\ owed' \in [Users -> BOOLEAN]
    BY <2>1, BooleanUpdate DEF AuthInv, Facts, AuthTypeOK
  <2>3. AuthTypeOK'
    BY <2>1, <2>2, Numbers DEF AuthInv, Facts, AuthTypeOK, Tokens, PCs, serverVars, flightVars
  <2>4. Minted'
    BY <2>1, Numbers DEF AuthInv, Facts, AuthTypeOK, Minted, Tokens, serverVars, flightVars
  <2>5. ASSUME NEW e \in Users PROVE Renewed(e)'
    <3>1. CASE e = c
      BY <2>1, <3>1 DEF AuthInv, Facts, AuthTypeOK, Renewed
    <3>2. CASE e # c
      BY <2>1, <3>2 DEF AuthInv, Facts, AuthTypeOK, Renewed, Above, Past, serverVars, flightVars
    <3> QED BY <3>1, <3>2
  <2> QED BY <1>3, <1>4, <1>5, <2>3, <2>4, <2>5 DEF AuthInv, Slots, Facts
<1> QED BY <1>6, <1>7

-------------------------------------------------------------------------------
LEMMA LoginAsksKeeps ==
  ASSUME AuthInv, LoginAsks
  PROVE  AuthInv'
<1>1. flight = "asking" /\ Acquire(Login) /\ UNCHANGED authVars
  BY DEF LoginAsks
<1>2. /\ ThrottleInv'
      /\ acq[Login] = "none" /\ acq'[Login] \in {"slotted", "queued"}
      /\ \A e \in Calls \ {Login} : acq'[e] = acq[e]
  BY <1>1, AcquireOthers, Numbers DEF AuthInv, Slots
<1>3. LoginHasSlot' /\ \A e \in Users : HasSlot(e)'
  BY <1>1, <1>2, Numbers DEF AuthInv, Slots, LoginHasSlot, HasSlot, authVars
<1>4. Awaited' /\ Facts'
  BY <1>1 DEF AuthInv, Awaited, Awaits, Facts, AuthTypeOK, Minted, Renewed, Above, authVars
<1> QED BY <1>2, <1>3, <1>4 DEF AuthInv, Slots

\* A step of a flight that goes on: who awaits it still does.
LEMMA FlightGoesOn ==
  ASSUME AuthInv, flight # "none", flight' # "none", UNCHANGED pc
  PROVE  Awaited'
BY DEF AuthInv, Awaited, Awaits

LEMMA LoginPostsKeeps ==
  ASSUME AuthInv, LoginPosts
  PROVE  AuthInv'
<1>1. /\ flight = "asking" /\ acq[Login] = "resolved" /\ flight' = "posting"
      /\ UNCHANGED <<throttleVars, serverVars, strategy, fetched, pc, localVars>>
  BY DEF LoginPosts
<1>2. LoginHasSlot' /\ \A e \in Users : HasSlot(e)'
  BY <1>1 DEF AuthInv, Slots, LoginHasSlot, HasSlot, throttleVars
<1>3. Slots'
  BY <1>1, <1>2, SlotsKeep DEF AuthInv
<1>4. Facts'
  BY <1>1 DEF AuthInv, Facts, AuthTypeOK, FlightStates, Minted, Renewed, Above, Past, serverVars,
              localVars
<1> QED BY <1>1, <1>3, <1>4, FlightGoesOn DEF AuthInv

\* The end of the login's call, in whatever way its flight goes on.
LEMMA LoginLeavesKeeps ==
  ASSUME AuthInv, flight = "posting", LoginLeaves, UNCHANGED <<strategy, pc>>,
         flight' \in {"storing", "settling", "failing"}
  PROVE  Slots' /\ Awaited'
<1>1. Awaited'
  BY FlightGoesOn
<1>2. CASE strategy = "pooled"
  <2>1. acq[Login] = "resolved" /\ Release(WithoutGrant(Login))
    BY <1>2 DEF LoginLeaves, AuthInv, Slots, LoginHasSlot
  <2>2. /\ ThrottleInv'
        /\ acq'[Login] = "none"
        /\ \A e \in Calls \ {Login} :
             acq'[e] = acq[e] \/ (acq[e] = "queued" /\ acq'[e] = "slotted")
    BY <2>1, ReleaseOthers, Numbers DEF AuthInv, Slots
  <2>3. LoginHasSlot' /\ \A e \in Users : HasSlot(e)'
    BY <2>2, Numbers DEF AuthInv, Slots, LoginHasSlot, HasSlot
  <2> QED BY <1>1, <2>2, <2>3 DEF Slots
<1>3. CASE strategy # "pooled"
  <2>1. UNCHANGED throttleVars
    BY <1>3 DEF LoginLeaves
  <2>2. LoginHasSlot' /\ \A e \in Users : HasSlot(e)'
    BY <1>3, <2>1 DEF AuthInv, Slots, LoginHasSlot, HasSlot, throttleVars
  <2> QED BY <1>1, <2>1, <2>2, SlotsKeep DEF AuthInv
<1> QED BY <1>2, <1>3

LEMMA MintsAbove ==
  ASSUME AuthInv, Mint
  PROVE  /\ minted' \in Tokens /\ minted' > 0 /\ minted' = minted + 1
         /\ minted' \in Nat /\ minted \in Nat
         /\ valid' \subseteq 1..minted'
<1>1. minted \in Nat /\ minted < MaxMint /\ minted' = minted + 1
  BY Numbers DEF Mint, AuthInv, Facts, AuthTypeOK, Tokens
<1>2. valid \subseteq 1..minted
  BY DEF AuthInv, Facts, AuthTypeOK
<1>3. 1..minted \subseteq 1..minted' /\ minted + 1 \in 1..minted'
  BY <1>1
<1>4. valid' \subseteq 1..minted'
  BY <1>2, <1>3 DEF Mint
<1> QED BY <1>1, <1>4, Numbers DEF Tokens

LEMMA FetchBringsKeeps ==
  ASSUME AuthInv, FetchBrings
  PROVE  AuthInv'
<1>1. /\ flight = "posting" /\ flight' = "storing" /\ fetched' = minted' /\ LoginLeaves /\ Mint
      /\ UNCHANGED <<strategy, vault, pc, localVars>>
  BY DEF FetchBrings
<1>2. Slots' /\ Awaited'
  BY <1>1, LoginLeavesKeeps
<1>3. /\ minted' \in Tokens /\ minted' > 0 /\ minted' = minted + 1
      /\ minted' \in Nat /\ minted \in Nat
      /\ valid' \subseteq 1..minted'
  BY <1>1, MintsAbove
<1>4. AuthTypeOK'
  BY <1>1, <1>3 DEF AuthInv, Facts, AuthTypeOK, FlightStates, localVars
<1>5. Minted'
  BY <1>1, <1>3 DEF AuthInv, Facts, AuthTypeOK, Tokens, Minted, localVars
<1>6. ASSUME NEW c \in Users PROVE Renewed(c)'
  <2>1. minted' > rejected[c]
    BY <1>3 DEF AuthInv, Facts, AuthTypeOK, Tokens, Minted
  <2> QED BY <1>1, <2>1 DEF AuthInv, Facts, Renewed, Above, localVars
<1> QED BY <1>2, <1>4, <1>5, <1>6 DEF AuthInv, Facts

LEMMA FetchEndsKeeps ==
  ASSUME AuthInv, LoginBringsNothing \/ FetchFails
  PROVE  AuthInv'
<1>1. /\ flight = "posting" /\ flight' \in {"settling", "failing"} /\ LoginLeaves
      /\ UNCHANGED <<serverVars, strategy, pc, localVars>>
  BY DEF LoginBringsNothing, FetchFails
<1>2. Slots' /\ Awaited'
  BY <1>1, LoginLeavesKeeps
<1>3. fetched' = 0
  BY DEF LoginBringsNothing, FetchFails, AuthInv, Facts, Minted
<1>4. Facts'
  BY <1>1, <1>3, Numbers DEF AuthInv, Facts, AuthTypeOK, FlightStates, Tokens, Minted, Renewed,
                             Above, Past, serverVars, localVars
<1> QED BY <1>2, <1>4 DEF AuthInv

LEMMA StoredKeeps ==
  ASSUME AuthInv, Stored \/ NotStored
  PROVE  AuthInv'
<1>1. /\ flight = "storing" /\ flight' \in {"settling", "failing"}
      /\ UNCHANGED <<throttleVars, minted, valid, strategy, pc, localVars>>
  BY DEF Stored, NotStored, serverVars
<1>2. LoginHasSlot' /\ \A e \in Users : HasSlot(e)'
  BY <1>1 DEF AuthInv, Slots, LoginHasSlot, HasSlot, throttleVars
<1>3. Slots' /\ Awaited'
  BY <1>1, <1>2, SlotsKeep, FlightGoesOn DEF AuthInv
<1>4. CASE Stored
  <2>1. vault' = fetched /\ flight' = "settling" /\ fetched' = fetched
    BY <1>4 DEF Stored
  <2>2. AuthTypeOK' /\ Minted'
    BY <1>1, <2>1 DEF AuthInv, Facts, AuthTypeOK, FlightStates, Minted, localVars
  <2>3. ASSUME NEW c \in Users PROVE Renewed(c)'
    BY <1>1, <2>1 DEF AuthInv, Facts, Renewed, Above, Past, localVars
  <2> QED BY <1>3, <2>2, <2>3 DEF AuthInv, Facts
<1>5. CASE NotStored
  <2>1. vault' = vault /\ flight' = "failing" /\ fetched' = 0
    BY <1>5 DEF NotStored, serverVars
  <2>2. AuthTypeOK' /\ Minted'
    BY <1>1, <2>1, Numbers DEF AuthInv, Facts, AuthTypeOK, FlightStates, Tokens, Minted, localVars
  <2>3. ASSUME NEW c \in Users PROVE Renewed(c)'
    BY <1>1, <2>1 DEF AuthInv, Facts, Renewed, Above, Past, localVars
  <2> QED BY <1>3, <2>2, <2>3 DEF AuthInv, Facts
<1> QED BY <1>4, <1>5

\* The flight is over, and whoever awaited it goes on.
LEMMA FlightOver ==
  ASSUME AuthInv, flight \in {"settling", "failing"}, flight' = "none",
         UNCHANGED <<throttleVars, strategy>>,
         \A c \in Users : IF Awaits(c)
                          THEN pc'[c] \in {"ending", "renewed", "sending", "rereading"}
                          ELSE pc'[c] = pc[c]
  PROVE  Slots' /\ Awaited'
<1>1. LoginHasSlot' /\ \A c \in Users : HasSlot(c)'
  BY DEF AuthInv, Slots, LoginHasSlot, HasSlot, Awaits, throttleVars
<1>2. Awaited'
  <2>1. \A c \in Users : ~(Awaits(c)')
    BY DEF Awaits
  <2> QED BY <2>1 DEF Awaited
<1> QED BY <1>1, <1>2, SlotsKeep DEF AuthInv

LEMMA SettleKeeps ==
  ASSUME AuthInv, Settle
  PROVE  AuthInv'
<1>1. /\ flight = "settling" /\ flight' = "none" /\ fetched' = 0
      /\ UNCHANGED <<throttleVars, serverVars, strategy, refreshed, rejected>>
      /\ pc' = [c \in Users |->
                 IF pc[c] = "renewing" THEN "renewed"
                 ELSE IF pc[c] # "waiting" THEN pc[c]
                 ELSE IF strategy = "oauth2" THEN "sending" ELSE "rereading"]
      /\ carried' = [c \in Users |-> IF pc[c] = "waiting" /\ strategy = "oauth2" THEN fetched
                                     ELSE carried[c]]
  BY DEF Settle
<1>2. owed' = [c \in Users |-> owed[c] /\ (pc[c] = "renewing" => fetched # 0)]
  BY DEF Settle
<1>3. Slots' /\ Awaited'
  <2>1. \A c \in Users : IF Awaits(c)
                         THEN pc'[c] \in {"ending", "renewed", "sending", "rereading"}
                         ELSE pc'[c] = pc[c]
    BY <1>1 DEF Awaits
  <2> QED BY <1>1, <2>1, FlightOver
<1>4. AuthTypeOK'
  <2>1. owed' \in [Users -> BOOLEAN]
    BY <1>2, Zenon
  <2>2. pc' \in [Users -> PCs] /\ carried' \in [Users -> Tokens]
    BY <1>1 DEF AuthInv, Facts, AuthTypeOK, PCs
  <2> QED BY <1>1, <2>1, <2>2, Numbers DEF AuthInv, Facts, AuthTypeOK, FlightStates, Tokens,
                                           serverVars
<1>5. Minted'
  BY <1>1, Numbers DEF AuthInv, Facts, AuthTypeOK, Minted, Tokens, serverVars
<1>6. ASSUME NEW c \in Users PROVE Renewed(c)'
  <2>1. owed'[c] <=> owed[c] /\ (pc[c] = "renewing" => fetched # 0)
    BY <1>2
  <2>2. rejected'[c] = rejected[c] /\ vault' = vault /\ fetched' = 0
    BY <1>1 DEF serverVars
  <2>3. CASE pc[c] = "renewing"
    <3>1. pc'[c] = "renewed"
      BY <1>1, <2>3
    <3> QED BY <1>1, <2>1, <2>2, <2>3, <3>1 DEF AuthInv, Facts, Renewed, Above
  <2>4. CASE pc[c] = "waiting"
    <3>1. \/ pc'[c] = "sending" /\ carried'[c] = fetched
          \/ pc'[c] = "rereading"
      BY <1>1, <2>4
    <3> QED BY <2>1, <2>2, <2>4, <3>1 DEF AuthInv, Facts, Renewed, Above, Past
  <2>5. CASE pc[c] \notin {"renewing", "waiting"}
    <3>1. pc'[c] = pc[c] /\ carried'[c] = carried[c]
      BY <1>1, <2>5
    <3> QED BY <2>1, <2>2, <2>5, <3>1 DEF AuthInv, Facts, Renewed, Above, Past
  <2> QED BY <2>3, <2>4, <2>5
<1> QED BY <1>3, <1>4, <1>5, <1>6 DEF AuthInv, Facts

LEMMA FailKeeps ==
  ASSUME AuthInv, Fail
  PROVE  AuthInv'
<1>1. /\ flight = "failing" /\ flight' = "none"
      /\ UNCHANGED <<throttleVars, serverVars, strategy, fetched, localVars>>
      /\ pc' = [c \in Users |-> IF Awaits(c) THEN "ending" ELSE pc[c]]
  BY DEF Fail, Awaits
<1>2. Slots' /\ Awaited'
  BY <1>1, FlightOver
<1>3. AuthTypeOK' /\ Minted'
  BY <1>1 DEF AuthInv, Facts, AuthTypeOK, Minted, FlightStates, PCs, serverVars, localVars
<1>4. ASSUME NEW c \in Users PROVE Renewed(c)'
  <2>1. pc'[c] = "ending" \/ (pc'[c] = pc[c] /\ pc[c] # "renewing")
    BY <1>1 DEF Awaits
  <2> QED BY <1>1, <2>1 DEF AuthInv, Facts, Renewed, Above, Past, serverVars, localVars
<1> QED BY <1>2, <1>3, <1>4 DEF AuthInv, Facts

\* What happens to the tokens meanwhile.
LEMMA OutsideKeeps ==
  ASSUME AuthInv, Lapse \/ Revoke \/ OtherWorkerStores
  PROVE  AuthInv'
<1>1. UNCHANGED <<throttleVars, flightVars, pc, localVars>>
  BY DEF Lapse, Revoke, OtherWorkerStores
<1>2. LoginHasSlot' /\ \A c \in Users : HasSlot(c)'
  BY <1>1 DEF AuthInv, Slots, LoginHasSlot, HasSlot, throttleVars, flightVars
<1>3. Slots' /\ Awaited'
  BY <1>1, <1>2, SlotsKeep DEF AuthInv, Awaited, Awaits, flightVars
<1>4. CASE Lapse \/ Revoke
  <2>1. minted' = minted /\ (vault' = vault \/ vault' = 0) /\ valid' \subseteq valid
    BY <1>4 DEF Lapse, Revoke
  <2>2. AuthTypeOK' /\ Minted'
    BY <1>1, <2>1, Numbers DEF AuthInv, Facts, AuthTypeOK, Minted, Tokens, flightVars, localVars
  <2>3. ASSUME NEW c \in Users PROVE Renewed(c)'
    BY <1>1, <2>1 DEF AuthInv, Facts, Renewed, Above, Past, flightVars, localVars
  <2> QED BY <1>3, <2>2, <2>3 DEF AuthInv, Facts
<1>5. CASE OtherWorkerStores
  <2>1. Mint /\ vault' = minted'
    BY <1>5 DEF OtherWorkerStores
  <2>2. /\ minted' \in Tokens /\ minted' > 0 /\ minted' = minted + 1
        /\ minted' \in Nat /\ minted \in Nat
        /\ valid' \subseteq 1..minted'
    BY <2>1, MintsAbove
  <2>3. AuthTypeOK'
    BY <1>1, <2>1, <2>2 DEF AuthInv, Facts, AuthTypeOK, flightVars, localVars
  <2>4. Minted'
    BY <1>1, <2>1, <2>2 DEF AuthInv, Facts, AuthTypeOK, Tokens, Minted, flightVars, localVars
  <2>5. ASSUME NEW c \in Users PROVE Renewed(c)'
    <3>1. minted' > rejected[c]
      BY <2>2 DEF AuthInv, Facts, AuthTypeOK, Tokens, Minted
    <3> QED BY <1>1, <2>1, <3>1 DEF AuthInv, Facts, Renewed, Above, Past, flightVars, localVars
  <2> QED BY <1>3, <2>3, <2>4, <2>5 DEF AuthInv, Facts
<1> QED BY <1>4, <1>5

LEMMA AuthStutter ==
  ASSUME AuthInv, UNCHANGED vars
  PROVE  AuthInv'
<1>1. LoginHasSlot' /\ \A c \in Users : HasSlot(c)'
  BY DEF AuthInv, Slots, LoginHasSlot, HasSlot, vars, authVars, throttleVars
<1>2. Slots'
  BY <1>1, SlotsKeep DEF AuthInv, vars
<1>3. Awaited' /\ Facts'
  BY DEF AuthInv, Awaited, Awaits, Facts, AuthTypeOK, Minted, Renewed, Above, vars, authVars
<1> QED BY <1>2, <1>3 DEF AuthInv

LEMMA AuthStep == AuthInv /\ [Next]_vars => AuthInv'
<1> SUFFICES ASSUME AuthInv, [Next]_vars PROVE AuthInv'
  OBVIOUS
<1>1. ASSUME NEW c \in Users, UserStep(c) \/ Ask(c) PROVE AuthInv'
  BY <1>1, ApplyKeeps, HitKeeps, ServeKeeps, ApplyJoinsKeeps, WallKeeps, FinallyKeeps, AskKeeps
     DEF UserStep
<1>2. ASSUME NEW c \in Calls, AcquireProceeds(c) PROVE AuthInv'
  BY <1>2, ProceedsKeeps
<1>3. CASE FlightStep
  BY <1>3, LoginAsksKeeps, LoginPostsKeeps, FetchBringsKeeps, FetchEndsKeeps, StoredKeeps,
     SettleKeeps, FailKeeps DEF FlightStep
<1>4. CASE Lapse \/ Revoke \/ OtherWorkerStores
  BY <1>4, OutsideKeeps
<1>5. CASE UNCHANGED vars
  BY <1>5, AuthStutter
<1> QED BY <1>1, <1>2, <1>3, <1>4, <1>5 DEF Next

THEOREM AuthInvariant == Spec => []AuthInv
BY AuthInitInv, AuthStep, PTL DEF Spec

(* The types, the limiter's among them: each grant is released once, or      *)
(* inFlight would leave its bounds (attemptLoop's finally, the login's call). *)
THEOREM AuthTypeCorrect == Spec => []TypeOK
<1>1. AuthInv => TypeOK
  BY Types DEF AuthInv, Slots, Facts, ThrottleInv
<1> QED BY <1>1, AuthInvariant, PTL

(* singleFlight: the entry is there exactly while somebody awaits it, and    *)
(* the pooled login holds a slot only for it.                                *)
THEOREM FlightStaysExact == Spec => []FlightExact
<1>1. AuthInv => FlightExact
  BY DEF AuthInv, Slots, LoginHasSlot, Awaited, Awaits, FlightExact
<1> QED BY <1>1, AuthInvariant, PTL

(* oauth2's and cookieSession's refresh: the redone attempt goes out with    *)
(* another token than the one refused, whatever other workers store, the     *)
(* server revokes and the vault's ttl takes away in between.                 *)
THEOREM RedoAlwaysCarriesAnother == Spec => []RedoCarriesAnother
<1>1. AuthInv => RedoCarriesAnother
  <2> SUFFICES ASSUME AuthInv, NEW c \in Users, pc[c] = "sending", owed[c], rejected[c] # 0
               PROVE  carried[c] # rejected[c]
    BY DEF RedoCarriesAnother
  <2>1. Above(carried[c], c) /\ rejected[c] \in Nat
    BY Numbers DEF AuthInv, Facts, Renewed, AuthTypeOK, Tokens
  <2> QED BY <2>1 DEF Above
<1> QED BY <1>1, AuthInvariant, PTL

(* The calls and the login pair every acquire of the limiter with a release, *)
(* through refreshes, redos, and flights that bring nothing or fail: with    *)
(* the calls' own finally and the login's end for releases the limiter is    *)
(* used as its doc comment demands.                                          *)
THEOREM AuthKeepsContract == Spec => ThrottleSpec
<1>1. Init => ThrottleInit
  BY DEF Init
<1>2. ASSUME AuthInv, [Next]_vars
      PROVE  [ThrottleNext]_throttleVars
  <2> USE <1>2, Numbers DEF AuthInv, Slots
  <2>1. ASSUME NEW c \in Users, Ask(c)
        PROVE  ThrottleNext
    BY <2>1 DEF Ask, ThrottleNext
  <2>2. ASSUME NEW c \in Calls, AcquireProceeds(c)
        PROVE  ThrottleNext
    BY <2>2 DEF AcquireProceeds, ThrottleNext
  <2>3. CASE LoginAsks
    BY <2>3 DEF LoginAsks, ThrottleNext
  <2>4. ASSUME NEW c \in Users, Redo(c) \/ End(c)
        PROVE  ThrottleNext
    <3>1. acq[c] = "resolved" /\ Release(WithoutGrant(c)) /\ c \in Calls
      BY <2>4 DEF Redo, End, HasSlot
    <3>2. PairedRelease(c)
      BY <3>1 DEF PairedRelease
    <3> QED BY <3>1, <3>2 DEF ThrottleNext
  <2>5. ASSUME FetchBrings \/ LoginBringsNothing \/ FetchFails
        PROVE  ThrottleNext \/ UNCHANGED throttleVars
    <3>1. flight = "posting" /\ LoginLeaves
      BY <2>5 DEF FetchBrings, LoginBringsNothing, FetchFails
    <3>2. CASE strategy = "pooled"
      <4>1. PairedRelease(Login)
        BY <3>1, <3>2 DEF LoginLeaves, LoginHasSlot, PairedRelease
      <4> QED BY <4>1 DEF ThrottleNext
    <3>3. CASE strategy # "pooled"
      BY <3>1, <3>3 DEF LoginLeaves
    <3> QED BY <3>2, <3>3
  <2>6. ASSUME NEW c \in Users, Apply(c) \/ Hit(c) \/ Miss(c) \/ ApplyJoins(c) \/ Reread(c)
                                  \/ Serve(c) \/ Wall(c)
        PROVE  UNCHANGED throttleVars
    BY <2>6 DEF Apply, Hit, Miss, ApplyJoins, Reread, Serve, Wall
  <2>7. ASSUME \/ LoginPosts \/ Stored \/ NotStored \/ Settle \/ Fail
               \/ Lapse \/ Revoke \/ OtherWorkerStores
        PROVE  UNCHANGED throttleVars
    BY <2>7 DEF LoginPosts, Stored, NotStored, Settle, Fail, Lapse, Revoke, OtherWorkerStores
  <2>8. CASE UNCHANGED vars
    BY <2>8 DEF vars
  <2> QED
    BY <2>1, <2>2, <2>3, <2>4, <2>5, <2>6, <2>7, <2>8 DEF Next, UserStep, FlightStep
<1> QED BY <1>1, <1>2, AuthInvariant, PTL DEF Spec, ThrottleSpec

(* So the limiter under the strategies is the abstract semaphore.            *)
THEOREM AuthRunsSemaphore == Spec => ImplementsSemaphore
BY AuthKeepsContract, ThrottleRefines, PTL
===============================================================================
