------------------------------ MODULE LeaseProofs ------------------------------
(***************************************************************************)
(* What leases guarantee for every fleet: no release finds its worker's    *)
(* list empty, and calls that hold a slot under their own lease never      *)
(* exceed the limit, if no call runs for as long as a lease.               *)
(*                                                                         *)
(* The second rests on TokensApart: a token on its way back to the store   *)
(* is nobody's lease any more, so a lease in a list, or on its way there,  *)
(* is left alone until it lapses, and it has as many ticks left as its     *)
(* call has not used.                                                      *)
(***************************************************************************)
EXTENDS LeaseThrottle, FiniteSetTheorems, SequenceTheorems, TLAPS

Owned ==
  /\ \A c \in Calls : pc[c] = "idle" <=> tok[c] = NoToken
  /\ \A c, e \in Calls : tok[c] = tok[e] /\ tok[c] # NoToken => c = e

Placed ==
  /\ \A w, x \in Workers : \A i \in 1..Len(tokens[w]), j \in 1..Len(tokens[x]) :
       tokens[w][i] = tokens[x][j] => w = x /\ i = j
  /\ \A w \in Workers : \A i \in 1..Len(tokens[w]) : tokens[w][i] \notin freeing

Unplaced ==
  \A c \in Calls : pc[c] \in {"polling", "leased"} =>
    tok[c] \notin freeing /\ \A w \in Workers : ~InSeq(tok[c], tokens[w])

\* The calls of a worker that have a token to be popped.
Busy(w) == {c \in Calls : WorkerOf[c] = w /\ pc[c] \in {"pacing", "holding"}}

LEMMA ApartParts == TokensApart <=> Owned /\ Placed /\ Unplaced
  BY DEF TokensApart, Owned, Placed, Unplaced

LEMMA RememberedDef == LeasesRemembered <=> \A w \in Workers : Cardinality(Busy(w)) <= Len(tokens[w])
  BY DEF LeasesRemembered, Busy

\* Sets of calls and of tokens are finite.
LEMMA BusyFinite ==
  ASSUME NEW w
  PROVE  IsFiniteSet(Busy(w)) /\ Cardinality(Busy(w)) \in Nat
  <1>1. IsFiniteSet(Busy(w))
    BY LeaseAssumption, FS_Subset DEF Busy
  <1> QED
    BY <1>1, FS_CardinalityType

LEMMA LiveFinite == IsFiniteSet(Live) /\ Cardinality(Live) \in Nat
  <1>1. IsFiniteSet(Live)
    BY LeaseAssumption, FS_Subset DEF Live
  <1> QED
    BY <1>1, FS_CardinalityType

\* Pushing a token.
LEMMA Push ==
  ASSUME TypeOK, NEW w \in Workers, NEW t \in Tokens,
         tokens' = [tokens EXCEPT ![w] = Append(@, t)]
  PROVE  /\ tokens' \in [Workers -> Seq(Tokens)]
         /\ \A x \in Workers \ {w} : tokens'[x] = tokens[x]
         /\ Len(tokens[w]) \in Nat
         /\ Len(tokens'[w]) = Len(tokens[w]) + 1
         /\ \A i \in 1..Len(tokens[w]) : tokens'[w][i] = tokens[w][i]
         /\ tokens'[w][Len(tokens[w]) + 1] = t
  <1>1. tokens[w] \in Seq(Tokens) /\ tokens'[w] = Append(tokens[w], t)
    BY DEF TypeOK
  <1> QED
    BY <1>1, AppendProperties, LenProperties DEF TypeOK

\* Popping the newest one.
LEMMA Pop ==
  ASSUME TypeOK, NEW w \in Workers, Len(tokens[w]) > 0, Release(w)
  PROVE  /\ tokens' \in [Workers -> Seq(Tokens)]
         /\ \A x \in Workers \ {w} : tokens'[x] = tokens[x]
         /\ Len(tokens[w]) \in Nat
         /\ Len(tokens'[w]) = Len(tokens[w]) - 1
         /\ \A i \in 1..Len(tokens'[w]) : tokens'[w][i] = tokens[w][i]
         /\ tokens[w][Len(tokens[w])] \in Tokens
         /\ freeing' = freeing \cup {tokens[w][Len(tokens[w])]}
  <1>1. tokens[w] \in Seq(Tokens) /\ tokens'[w] = SubSeq(tokens[w], 1, Len(tokens[w]) - 1)
    BY DEF TypeOK, Release
  <1>2. Len(tokens[w]) \in Nat /\ tokens[w][Len(tokens[w])] \in Tokens
    BY <1>1, LenProperties, ElementOfSeq
  <1>3. /\ tokens'[w] \in Seq(Tokens) /\ Len(tokens'[w]) = Len(tokens[w]) - 1
        /\ \A i \in 1..Len(tokens'[w]) : tokens'[w][i] = tokens[w][i]
    BY <1>1, <1>2
  <1> QED
    BY <1>1, <1>2, <1>3 DEF TypeOK, Release
\* Ending calls frees them of their tokens and keeps the types.
LEMMA EndingCalls ==
  ASSUME TypeOK, NEW D \in SUBSET Calls, EndCalls(D)
  PROVE  /\ pc' \in [Calls -> PCs] /\ tok' \in [Calls -> Tokens \cup {NoToken}]
         /\ held' \in [Calls -> 0..MaxHold]
         /\ \A e \in D : pc'[e] = "idle" /\ tok'[e] = NoToken
         /\ \A e \in Calls \ D : pc'[e] = pc[e] /\ tok'[e] = tok[e] /\ held'[e] = held[e]
  BY LeaseAssumption DEF EndCalls, TypeOK, PCs

\* If no worker's busy calls grow in number and no list shrinks, all is remembered.
LEMMA StillRemembered ==
  ASSUME LeasesRemembered,
         \A w \in Workers : Busy(w)' \subseteq Busy(w) /\ Len(tokens'[w]) = Len(tokens[w]),
         \A w \in Workers : Len(tokens[w]) \in Nat
  PROVE  LeasesRemembered'
  <1> SUFFICES ASSUME NEW w \in Workers
               PROVE  Cardinality(Busy(w)') <= Len(tokens'[w])
    BY RememberedDef DEF LeasesRemembered, Busy
  <1>1. Busy(w)' \in SUBSET Busy(w)
    OBVIOUS
  <1>2. Cardinality(Busy(w)') <= Cardinality(Busy(w)) /\ IsFiniteSet(Busy(w)')
    BY <1>1, BusyFinite, FS_Subset
  <1>3. Cardinality(Busy(w)') \in Nat
    BY <1>2, FS_CardinalityType
  <1>4. Cardinality(Busy(w)) <= Len(tokens[w])
    BY RememberedDef
  <1> QED
    BY <1>2, <1>3, <1>4, BusyFinite

LEMMA Lengths == TypeOK => \A w \in Workers : Len(tokens[w]) \in Nat
  BY LenProperties DEF TypeOK

-------------------------------------------------------------------------------
\* The invariant, in the parts the proofs go by.
Parts == TypeOK /\ Owned /\ Placed /\ Unplaced /\ LeasesLast /\ LeasesRemembered
         /\ Cardinality(Live) <= Limit

LEMMA PartsOfInv == LeaseInv <=> Parts
  BY ApartParts DEF LeaseInv, Parts

\* Before the first call.
LEMMA LeaseInit == Init => LeaseInv
  <1> SUFFICES ASSUME Init
               PROVE  Parts
    BY PartsOfInv
  <1> USE LeaseAssumption DEF Init
  <1>1. TypeOK
    BY DEF TypeOK, PCs
  <1>2. Owned
    BY DEF Owned
  <1>3. \A w \in Workers : Len(tokens[w]) = 0
    OBVIOUS
  <1>4. Placed /\ Unplaced /\ LeasesLast
    BY <1>3 DEF Placed, Unplaced, LeasesLast, Timed
  <1>5. LeasesRemembered
    <2>1. \A w \in Workers : Busy(w) = {}
      BY DEF Busy
    <2>2. \A w \in Workers : Cardinality(Busy(w)) = 0
      BY <2>1, FS_EmptySet
    <2> QED
      BY <2>2, <1>3, RememberedDef
  <1>6. Cardinality(Live) <= Limit
    <2>1. Live = {}
      BY DEF Live
    <2> QED
      BY <2>1, FS_EmptySet
  <1> QED
    BY <1>1, <1>2, <1>4, <1>5, <1>6 DEF Parts

\* A minted token is nobody else's.
LEMMA BeginKeeps ==
  ASSUME Parts, NEW c \in Calls, Begin(c)
  PROVE  Parts'
  <1> USE DEF Parts, TypeOK
  <1>1. PICK t \in Fresh : tok' = [tok EXCEPT ![c] = t]
    BY DEF Begin
  <1>2. /\ pc' = [pc EXCEPT ![c] = "polling"] /\ pc[c] = "idle"
        /\ UNCHANGED <<left, tokens, freeing, up, held>>
    BY DEF Begin, Goto
  <1>3. /\ t \in Tokens /\ t # NoToken /\ t \notin freeing
        /\ \A e \in Calls : tok[e] # t
        /\ \A w \in Workers : ~InSeq(t, tokens[w])
    BY <1>1, LeaseAssumption DEF Fresh
  <1>4. TypeOK'
    BY <1>1, <1>2, <1>3 DEF PCs
  <1>5. Owned'
    BY <1>1, <1>2, <1>3 DEF Owned
  <1>6. Placed'
    BY <1>2 DEF Placed
  <1>7. Unplaced'
    BY <1>1, <1>2, <1>3 DEF Unplaced, InSeq
  <1>8. LeasesLast'
    BY <1>1, <1>2 DEF LeasesLast, Timed, InSeq
  <1>9. LeasesRemembered'
    <2>1. \A w \in Workers : Busy(w)' \subseteq Busy(w)
      BY <1>2 DEF Busy
    <2> QED
      BY <1>2, <2>1, StillRemembered, Lengths
  <1>10. (Cardinality(Live) <= Limit)'
    BY <1>2 DEF Live
  <1> QED
    BY <1>4, <1>5, <1>6, <1>7, <1>8, <1>9, <1>10

\* A poll that finds a place takes it for a whole lease.
LEMMA PollKeeps ==
  ASSUME Parts, NEW c \in Calls, Poll(c)
  PROVE  Parts'
  <1> USE DEF Parts, TypeOK
  <1>1. /\ pc' = [pc EXCEPT ![c] = "leased"] /\ pc[c] = "polling"
        /\ left' = [left EXCEPT ![tok[c]] = Lease]
        /\ UNCHANGED <<tokens, freeing, up, tok, held>>
        /\ Cardinality(Live) < Limit
    BY DEF Poll, Goto
  <1>2. tok[c] \in Tokens
    BY <1>1 DEF Owned
  <1>3. TypeOK'
    BY <1>1, <1>2, LeaseAssumption DEF PCs
  <1>4. Owned'
    BY <1>1 DEF Owned
  <1>5. Placed' /\ Unplaced'
    BY <1>1 DEF Placed, Unplaced, InSeq
  <1>6. LeasesLast'
    <2> SUFFICES ASSUME NEW e \in Timed',
                        (pc[e] = "leased" \/ InSeq(tok[e], tokens[WorkerOf[e]]))'
                 PROVE  left'[tok[e]] + held[e] >= Lease
      BY <1>1 DEF LeasesLast
    <2>1. e \in Calls /\ held[e] \in Nat
      BY LeaseAssumption DEF Timed
    <2>2. CASE e = c
      BY <1>1, <1>2, <2>1, <2>2, LeaseAssumption
    <2>3. CASE e # c
      <3>1. e \in Timed /\ tok[e] # NoToken /\ tok[e] # tok[c]
        BY <1>1, <1>2, <2>1, <2>3, LeaseAssumption DEF Timed, Owned
      <3>2. left'[tok[e]] = left[tok[e]]
        BY <1>1, <2>1, <3>1
      <3> QED
        BY <1>1, <2>1, <2>3, <3>1, <3>2 DEF LeasesLast, InSeq
    <2> QED
      BY <2>2, <2>3
  <1>7. LeasesRemembered'
    <2>1. \A w \in Workers : Busy(w)' \subseteq Busy(w)
      BY <1>1 DEF Busy
    <2> QED
      BY <1>1, <2>1, StillRemembered, Lengths
  <1>8. (Cardinality(Live) <= Limit)'
    <2>1. Live' = Live \cup {tok[c]}
      BY <1>1, <1>2, LeaseAssumption DEF Live
    <2>2. Cardinality(Live \cup {tok[c]}) =
            IF tok[c] \in Live THEN Cardinality(Live) ELSE Cardinality(Live) + 1
      BY LiveFinite, FS_AddElement
    <2> QED
      BY <1>1, <2>1, <2>2, LiveFinite, LeaseAssumption
  <1> QED
    BY <1>3, <1>4, <1>5, <1>6, <1>7, <1>8
\* The reply of a poll: the token takes its place at the end of the list.
LEMMA RememberKeeps ==
  ASSUME Parts, NEW c \in Calls, Remember(c)
  PROVE  Parts'
  <1> USE DEF Parts, TypeOK
  <1> DEFINE v == WorkerOf[c]
             n == Len(tokens[v])
  <1>1. /\ pc' = [pc EXCEPT ![c] = "pacing"] /\ pc[c] = "leased"
        /\ tokens' = [tokens EXCEPT ![v] = Append(@, tok[c])]
        /\ UNCHANGED <<left, freeing, up, tok, held>>
    BY DEF Remember, Goto
  <1>2. v \in Workers /\ tok[c] \in Tokens
    BY <1>1, LeaseAssumption DEF Owned
  <1>3. /\ tokens' \in [Workers -> Seq(Tokens)]
        /\ \A x \in Workers \ {v} : tokens'[x] = tokens[x]
        /\ n \in Nat /\ Len(tokens'[v]) = n + 1
        /\ \A i \in 1..n : tokens'[v][i] = tokens[v][i]
        /\ tokens'[v][n + 1] = tok[c]
    BY <1>1, <1>2, Push
  <1>4. \A w \in Workers : \A i \in 1..Len(tokens[w]) : tokens[w][i] # tok[c]
    BY <1>1 DEF Unplaced, InSeq
  <1>5. tok[c] \notin freeing
    BY <1>1 DEF Unplaced
  <1> HIDE DEF v, n
  <1>6. \A w \in Workers : \A i \in 1..Len(tokens'[w]) :
          \/ w = v /\ i = n + 1 /\ tokens'[w][i] = tok[c]
          \/ i \in 1..Len(tokens[w]) /\ tokens'[w][i] = tokens[w][i]
    <2> SUFFICES ASSUME NEW w \in Workers, NEW i \in 1..Len(tokens'[w])
                 PROVE  \/ w = v /\ i = n + 1 /\ tokens'[w][i] = tok[c]
                        \/ i \in 1..Len(tokens[w]) /\ tokens'[w][i] = tokens[w][i]
      OBVIOUS
    <2>1. CASE w = v
      BY <1>3, <2>1 DEF n
    <2>2. CASE w # v
      BY <1>3, <2>2
    <2> QED
      BY <2>1, <2>2
  <1>7. TypeOK'
    BY <1>1, <1>3 DEF PCs
  <1>8. Owned'
    BY <1>1 DEF Owned
  <1>9. Placed'
    <2>1. ASSUME NEW w \in Workers, NEW x \in Workers,
                 NEW i \in 1..Len(tokens'[w]), NEW j \in 1..Len(tokens'[x]),
                 tokens'[w][i] = tokens'[x][j]
          PROVE  w = x /\ i = j
      <3>1. CASE i \in 1..Len(tokens[w]) /\ tokens'[w][i] = tokens[w][i]
        <4>1. CASE j \in 1..Len(tokens[x]) /\ tokens'[x][j] = tokens[x][j]
          <5>1. tokens[w][i] = tokens[x][j]
            BY <2>1, <3>1, <4>1
          <5>2. i \in 1..Len(tokens[w]) /\ j \in 1..Len(tokens[x])
            BY <3>1, <4>1
          <5> QED
            BY <5>1, <5>2, Zenon DEF Parts, Placed
        <4>2. CASE tokens'[x][j] = tok[c]
          BY <1>4, <2>1, <3>1, <4>2
        <4> QED
          BY <1>6, <4>1, <4>2
      <3>2. CASE w = v /\ i = n + 1 /\ tokens'[w][i] = tok[c]
        BY <1>4, <1>6, <2>1, <3>2
      <3> QED
        BY <1>6, <3>1, <3>2
    <2>2. \A w \in Workers : \A i \in 1..Len(tokens'[w]) : tokens'[w][i] \notin freeing'
      BY <1>1, <1>5, <1>6 DEF Placed
    <2> QED
      BY <2>1, <2>2 DEF Placed
  <1>10. Unplaced'
    <2> SUFFICES ASSUME NEW e \in Calls, pc'[e] \in {"polling", "leased"}
                 PROVE  /\ tok[e] \notin freeing
                        /\ \A w \in Workers : \A i \in 1..Len(tokens'[w]) : tokens'[w][i] # tok[e]
      BY <1>1 DEF Unplaced, InSeq
    <2>1. e # c /\ pc[e] \in {"polling", "leased"}
      BY <1>1
    <2>2. tok[e] # tok[c]
      BY <1>1, <1>2, <2>1, LeaseAssumption DEF Owned
    <2>3. /\ tok[e] \notin freeing
          /\ \A w \in Workers : \A i \in 1..Len(tokens[w]) : tokens[w][i] # tok[e]
      BY <2>1 DEF Unplaced, InSeq
    <2> QED
      BY <1>6, <2>2, <2>3
  <1>11. LeasesLast'
    <2> SUFFICES ASSUME NEW e \in Timed',
                        (pc[e] = "leased" \/ InSeq(tok[e], tokens[WorkerOf[e]]))'
                 PROVE  left[tok[e]] + held[e] >= Lease
      BY <1>1 DEF LeasesLast
    <2>1. e \in Timed /\ WorkerOf[e] \in Workers
      BY <1>1, LeaseAssumption DEF Timed
    <2>2. e = c \/ tok[e] # tok[c]
      BY <1>1, <1>2, <2>1, LeaseAssumption DEF Owned, Timed
    <2>3. pc[e] = "leased" \/ InSeq(tok[e], tokens[WorkerOf[e]])
      BY <1>1, <1>6, <2>1, <2>2 DEF InSeq
    <2> QED
      BY <2>1, <2>3 DEF LeasesLast
  <1>12. LeasesRemembered'
    <2> SUFFICES ASSUME NEW w \in Workers
                 PROVE  Cardinality(Busy(w)') <= Len(tokens'[w])
      BY RememberedDef DEF LeasesRemembered, Busy
    <2>1. Cardinality(Busy(w)) <= Len(tokens[w])
      BY RememberedDef
    <2>2. CASE w = v
      <3>1. Busy(w)' = Busy(w) \cup {c}
        BY <1>1, <2>2 DEF Busy, v
      <3>2. Cardinality(Busy(w) \cup {c}) =
              IF c \in Busy(w) THEN Cardinality(Busy(w)) ELSE Cardinality(Busy(w)) + 1
        BY BusyFinite, FS_AddElement
      <3> QED
        BY <1>3, <2>1, <2>2, <3>1, <3>2, BusyFinite DEF n
    <2>3. CASE w # v
      <3>1. Busy(w)' = Busy(w)
        BY <1>1, <2>3 DEF Busy, v
      <3> QED
        BY <1>3, <2>1, <2>3, <3>1
    <2> QED
      BY <2>2, <2>3
  <1>13. (Cardinality(Live) <= Limit)'
    BY <1>1 DEF Live
  <1> QED
    BY <1>7, <1>8, <1>9, <1>10, <1>11, <1>12, <1>13

\* The rate part's end, or its rejection, moves no token.
LEMMA PacingKeeps ==
  ASSUME Parts, NEW c \in Calls, Granted(c) \/ ReserveRejects(c)
  PROVE  Parts'
  <1> USE DEF Parts, TypeOK
  <1>1. /\ UNCHANGED <<left, tokens, freeing, up>> /\ pc[c] = "pacing"
        /\ pc' \in [Calls -> PCs] /\ tok' \in [Calls -> Tokens \cup {NoToken}]
        /\ held' \in [Calls -> 0..MaxHold]
        /\ \A e \in Calls \ {c} : pc'[e] = pc[e] /\ tok'[e] = tok[e] /\ held'[e] = held[e]
        /\ \/ pc'[c] = "holding" /\ tok'[c] = tok[c] /\ held'[c] = held[c]
           \/ pc'[c] = "idle" /\ tok'[c] = NoToken
    <2>1. CASE Granted(c)
      BY <2>1 DEF Granted, Goto, PCs
    <2>2. CASE ReserveRejects(c)
      BY <2>2, EndingCalls DEF ReserveRejects
    <2> QED
      BY <2>1, <2>2
  <1>2. TypeOK' /\ Placed' /\ (Cardinality(Live) <= Limit)'
    BY <1>1 DEF Placed, Live
  <1>3. Owned'
    BY <1>1 DEF Owned
  <1>4. Unplaced'
    <2> SUFFICES ASSUME NEW e \in Calls, pc'[e] \in {"polling", "leased"}
                 PROVE  /\ tok'[e] \notin freeing
                        /\ \A w \in Workers : ~InSeq(tok'[e], tokens[w])
      BY <1>1 DEF Unplaced, InSeq
    <2>1. e # c /\ pc[e] \in {"polling", "leased"} /\ tok'[e] = tok[e]
      BY <1>1
    <2> QED
      BY <2>1 DEF Unplaced
  <1>5. LeasesLast'
    <2> SUFFICES ASSUME NEW e \in Timed',
                        (pc[e] = "leased" \/ InSeq(tok[e], tokens[WorkerOf[e]]))'
                 PROVE  left[tok'[e]] + held'[e] >= Lease
      BY <1>1 DEF LeasesLast
    <2>1. e \in Timed /\ tok'[e] = tok[e] /\ held'[e] = held[e]
      BY <1>1 DEF Timed
    <2>2. pc[e] = "leased" \/ InSeq(tok[e], tokens[WorkerOf[e]])
      BY <1>1, <2>1 DEF InSeq, Timed
    <2> QED
      BY <2>1, <2>2 DEF LeasesLast
  <1>6. LeasesRemembered'
    <2>1. \A w \in Workers : Busy(w)' \subseteq Busy(w)
      BY <1>1 DEF Busy
    <2> QED
      BY <1>1, <2>1, StillRemembered, Lengths
  <1> QED
    BY <1>2, <1>3, <1>4, <1>5, <1>6
\* The call is over: its worker's newest token leaves the list and is on its way.
LEMMA EndKeeps ==
  ASSUME Parts, NEW c \in Calls, End(c)
  PROVE  Parts'
  <1> USE DEF Parts, TypeOK
  <1> DEFINE v == WorkerOf[c]
             n == Len(tokens[v])
             t == tokens[v][n]
  <1>1. pc[c] = "holding" /\ Release(v) /\ EndCalls({c}) /\ UNCHANGED <<left, up>>
    BY DEF End
  <1>2. v \in Workers /\ n \in Nat
    BY LeaseAssumption, Lengths
  <1>3. n > 0
    <2>1. c \in Busy(v)
      BY <1>1 DEF Busy
    <2>2. Cardinality(Busy(v)) # 0
      BY <2>1, BusyFinite, FS_EmptySet
    <2>3. Cardinality(Busy(v)) <= n
      BY <1>2, RememberedDef
    <2> QED
      BY <1>2, <2>2, <2>3, BusyFinite
  <1>4. /\ tokens' \in [Workers -> Seq(Tokens)]
        /\ \A x \in Workers \ {v} : tokens'[x] = tokens[x]
        /\ Len(tokens'[v]) = n - 1
        /\ \A i \in 1..Len(tokens'[v]) : tokens'[v][i] = tokens[v][i]
        /\ t \in Tokens /\ freeing' = freeing \cup {t}
    BY <1>1, <1>2, <1>3, Pop
  <1>5. /\ pc' \in [Calls -> PCs] /\ tok' \in [Calls -> Tokens \cup {NoToken}]
        /\ held' \in [Calls -> 0..MaxHold]
        /\ pc'[c] = "idle" /\ tok'[c] = NoToken
        /\ \A e \in Calls \ {c} : pc'[e] = pc[e] /\ tok'[e] = tok[e] /\ held'[e] = held[e]
    BY <1>1, EndingCalls
  <1>6. n \in 1..Len(tokens[v])
    BY <1>2, <1>3
  <1>7. \A e \in Calls : pc[e] \in {"polling", "leased"} => tok[e] # t
    BY <1>2, <1>6 DEF Unplaced, InSeq
  <1> HIDE DEF v, t
  <1>8. \A w \in Workers : \A i \in 1..Len(tokens'[w]) :
          /\ i \in 1..Len(tokens[w]) /\ tokens'[w][i] = tokens[w][i]
          /\ tokens[w][i] # t
    <2> SUFFICES ASSUME NEW w \in Workers, NEW i \in 1..Len(tokens'[w])
                 PROVE  /\ i \in 1..Len(tokens[w]) /\ tokens'[w][i] = tokens[w][i]
                        /\ tokens[w][i] # t
      OBVIOUS
    <2>1. i \in 1..Len(tokens[w]) /\ tokens'[w][i] = tokens[w][i] /\ (w = v => i # n)
      <3>1. CASE w = v
        BY <1>2, <1>3, <1>4, <3>1
      <3>2. CASE w # v
        BY <1>4, <3>2
      <3> QED
        BY <3>1, <3>2
    <2>2. tokens[w][i] # tokens[v][n]
      BY <1>2, <1>6, <2>1, Zenon DEF Placed
    <2> QED
      BY <2>1, <2>2 DEF t
  <1> HIDE DEF n
  <1>9. TypeOK'
    BY <1>1, <1>4, <1>5
  <1>10. Owned'
    BY <1>5 DEF Owned
  <1>11. Placed'
    <2>1. ASSUME NEW w \in Workers, NEW x \in Workers,
                 NEW i \in 1..Len(tokens'[w]), NEW j \in 1..Len(tokens'[x]),
                 tokens'[w][i] = tokens'[x][j]
          PROVE  w = x /\ i = j
      <3>1. /\ i \in 1..Len(tokens[w]) /\ j \in 1..Len(tokens[x])
            /\ tokens[w][i] = tokens[x][j]
        BY <1>8, <2>1
      <3> QED
        BY <3>1, Zenon DEF Placed
    <2>2. ASSUME NEW w \in Workers, NEW i \in 1..Len(tokens'[w])
          PROVE  tokens'[w][i] \notin freeing'
      <3>1. /\ i \in 1..Len(tokens[w]) /\ tokens'[w][i] = tokens[w][i]
            /\ tokens[w][i] # t
        BY <1>8
      <3>2. tokens[w][i] \notin freeing
        BY <3>1 DEF Placed
      <3> QED
        BY <1>4, <3>1, <3>2
    <2> QED
      BY <2>1, <2>2 DEF Placed
  <1>12. Unplaced'
    <2> SUFFICES ASSUME NEW e \in Calls, pc'[e] \in {"polling", "leased"}
                 PROVE  /\ tok'[e] \notin freeing'
                        /\ \A w \in Workers : \A i \in 1..Len(tokens'[w]) : tokens'[w][i] # tok'[e]
      BY DEF Unplaced, InSeq
    <2>1. pc[e] \in {"polling", "leased"} /\ tok'[e] = tok[e]
      BY <1>5
    <2>2. /\ tok[e] \notin freeing
          /\ \A w \in Workers : \A i \in 1..Len(tokens[w]) : tokens[w][i] # tok[e]
      BY <2>1 DEF Unplaced, InSeq
    <2> QED
      BY <1>4, <1>7, <1>8, <2>1, <2>2
  <1>13. LeasesLast'
    <2> SUFFICES ASSUME NEW e \in Timed',
                        (pc[e] = "leased" \/ InSeq(tok[e], tokens[WorkerOf[e]]))'
                 PROVE  left[tok'[e]] + held'[e] >= Lease
      BY <1>1 DEF LeasesLast
    <2>1. e \in Timed /\ tok'[e] = tok[e] /\ held'[e] = held[e] /\ pc'[e] = pc[e]
      BY <1>5 DEF Timed
    <2>2. pc[e] = "leased" \/ InSeq(tok[e], tokens[WorkerOf[e]])
      BY <1>8, <2>1, LeaseAssumption DEF InSeq, Timed
    <2> QED
      BY <2>1, <2>2 DEF LeasesLast
  <1>14. LeasesRemembered'
    <2> SUFFICES ASSUME NEW w \in Workers
                 PROVE  Cardinality(Busy(w)') <= Len(tokens'[w])
      BY RememberedDef DEF LeasesRemembered, Busy
    <2>1. Cardinality(Busy(w)) <= Len(tokens[w])
      BY RememberedDef
    <2>2. CASE w = v
      <3>1. Busy(w)' = Busy(w) \ {c} /\ c \in Busy(w)
        BY <1>1, <1>5, <2>2 DEF Busy, v
      <3>2. Cardinality(Busy(w) \ {c}) =
              IF c \in Busy(w) THEN Cardinality(Busy(w)) - 1 ELSE Cardinality(Busy(w))
        BY BusyFinite, FS_RemoveElement
      <3> QED
        BY <1>2, <1>4, <2>1, <2>2, <3>1, <3>2, BusyFinite DEF n
    <2>3. CASE w # v
      <3>1. Busy(w)' = Busy(w)
        BY <1>1, <1>5, <2>3 DEF Busy, v
      <3> QED
        BY <1>4, <2>1, <2>3, <3>1
    <2> QED
      BY <2>2, <2>3
  <1>15. (Cardinality(Live) <= Limit)'
    BY <1>1 DEF Live
  <1> QED
    BY <1>9, <1>10, <1>11, <1>12, <1>13, <1>14, <1>15

\* Fewer live leases are within the limit too.
LEMMA FewerLive ==
  ASSUME Cardinality(Live) <= Limit, Live' \subseteq Live
  PROVE  (Cardinality(Live) <= Limit)'
  <1>1. Live' \in SUBSET Live
    OBVIOUS
  <1>2. Cardinality(Live') <= Cardinality(Live) /\ IsFiniteSet(Live')
    BY <1>1, LiveFinite, FS_Subset
  <1>3. Cardinality(Live') \in Nat
    BY <1>2, FS_CardinalityType
  <1> QED
    BY <1>2, <1>3, LiveFinite, LeaseAssumption

\* A release that arrives ends nobody's lease; one that is lost does nothing.
LEMMA FreeKeeps ==
  ASSUME Parts, NEW t \in Tokens, Free(t) \/ Lose(t)
  PROVE  Parts'
  <1> USE DEF Parts, TypeOK
  <1>1. /\ t \in freeing /\ freeing' = freeing \ {t}
        /\ UNCHANGED <<tokens, up, pc, tok, held>>
        /\ left' = [left EXCEPT ![t] = 0] \/ left' = left
    BY DEF Free, Lose
  <1>2. TypeOK'
    BY <1>1, LeaseAssumption
  <1>3. Owned' /\ Placed' /\ Unplaced'
    BY <1>1 DEF Owned, Placed, Unplaced, InSeq
  <1>4. LeasesLast'
    <2> SUFFICES ASSUME NEW e \in Timed,
                        pc[e] = "leased" \/ InSeq(tok[e], tokens[WorkerOf[e]])
                 PROVE  left'[tok[e]] + held[e] >= Lease
      BY <1>1 DEF LeasesLast, Timed, InSeq
    <2>1. e \in Calls /\ WorkerOf[e] \in Workers /\ tok[e] \in Tokens
      BY LeaseAssumption DEF Timed, Owned
    <2>2. tok[e] # t
      BY <1>1, <2>1 DEF Placed, Unplaced, InSeq
    <2>3. left'[tok[e]] = left[tok[e]]
      BY <1>1, <2>1, <2>2
    <2> QED
      BY <2>3 DEF LeasesLast
  <1>5. LeasesRemembered'
    BY <1>1 DEF LeasesRemembered
  <1>6. Live' \subseteq Live
    <2> SUFFICES ASSUME NEW u \in Tokens, left'[u] > 0
                 PROVE  left[u] > 0
      BY DEF Live
    <2>1. CASE u = t
      BY <1>1, <2>1
    <2>2. CASE u # t
      BY <1>1, <2>2
    <2> QED
      BY <2>1, <2>2
  <1> QED
    BY <1>2, <1>3, <1>4, <1>5, <1>6, FewerLive
\* A crash takes a worker's calls and list with it, and nothing from the store.
LEMMA CrashKeeps ==
  ASSUME Parts, NEW w \in Workers, Crash(w)
  PROVE  Parts'
  <1> USE DEF Parts, TypeOK
  <1> DEFINE D == {c \in Calls : WorkerOf[c] = w}
  <1>1. /\ up' = up \ {w} /\ UNCHANGED <<left, freeing>>
        /\ tokens' = [tokens EXCEPT ![w] = <<>>]
        /\ EndCalls(D)
    BY DEF Crash
  <1>2. /\ tokens' \in [Workers -> Seq(Tokens)] /\ Len(tokens'[w]) = 0
        /\ \A x \in Workers \ {w} : tokens'[x] = tokens[x]
    BY <1>1, EmptySeq
  <1>3. /\ pc' \in [Calls -> PCs] /\ tok' \in [Calls -> Tokens \cup {NoToken}]
        /\ held' \in [Calls -> 0..MaxHold]
        /\ \A e \in D : pc'[e] = "idle" /\ tok'[e] = NoToken
        /\ \A e \in Calls \ D : pc'[e] = pc[e] /\ tok'[e] = tok[e] /\ held'[e] = held[e]
    BY <1>1, EndingCalls
  <1>4. \A x \in Workers : \A i \in 1..Len(tokens'[x]) :
          /\ x # w /\ i \in 1..Len(tokens[x]) /\ tokens'[x][i] = tokens[x][i]
    BY <1>2
  <1>5. TypeOK'
    BY <1>1, <1>2, <1>3
  <1>6. Owned'
    <2>1. \A e \in Calls : e \in D \/ e \in Calls \ D
      OBVIOUS
    <2> HIDE DEF D
    <2> QED
      BY <1>3, <2>1 DEF Owned
  <1>7. Placed'
    <2>1. ASSUME NEW u \in Workers, NEW x \in Workers,
                 NEW i \in 1..Len(tokens'[u]), NEW j \in 1..Len(tokens'[x]),
                 tokens'[u][i] = tokens'[x][j]
          PROVE  u = x /\ i = j
      <3>1. /\ i \in 1..Len(tokens[u]) /\ j \in 1..Len(tokens[x])
            /\ tokens[u][i] = tokens[x][j]
        BY <1>4, <2>1
      <3> QED
        BY <3>1, Zenon DEF Placed
    <2>2. ASSUME NEW x \in Workers, NEW i \in 1..Len(tokens'[x])
          PROVE  tokens'[x][i] \notin freeing'
      <3>1. i \in 1..Len(tokens[x]) /\ tokens'[x][i] = tokens[x][i]
        BY <1>4
      <3> QED
        BY <1>1, <3>1 DEF Placed
    <2> QED
      BY <2>1, <2>2 DEF Placed
  <1>8. Unplaced'
    <2> SUFFICES ASSUME NEW e \in Calls, pc'[e] \in {"polling", "leased"}
                 PROVE  /\ tok'[e] \notin freeing'
                        /\ \A x \in Workers : \A i \in 1..Len(tokens'[x]) : tokens'[x][i] # tok'[e]
      BY DEF Unplaced, InSeq
    <2>1. pc[e] \in {"polling", "leased"} /\ tok'[e] = tok[e]
      BY <1>3
    <2>2. /\ tok[e] \notin freeing
          /\ \A x \in Workers : \A i \in 1..Len(tokens[x]) : tokens[x][i] # tok[e]
      BY <2>1 DEF Unplaced, InSeq
    <2> QED
      BY <1>1, <1>4, <2>1, <2>2
  <1>9. LeasesLast'
    <2> SUFFICES ASSUME NEW e \in Timed',
                        (pc[e] = "leased" \/ InSeq(tok[e], tokens[WorkerOf[e]]))'
                 PROVE  left[tok'[e]] + held'[e] >= Lease
      BY <1>1 DEF LeasesLast
    <2>1. /\ e \in Calls \ D /\ WorkerOf[e] \in Workers \ {w}
          /\ tok'[e] = tok[e] /\ held'[e] = held[e] /\ pc'[e] = pc[e]
      BY <1>3, LeaseAssumption DEF Timed
    <2>2. e \in Timed /\ (pc[e] = "leased" \/ InSeq(tok[e], tokens[WorkerOf[e]]))
      BY <1>2, <2>1 DEF InSeq, Timed
    <2> QED
      BY <2>1, <2>2 DEF LeasesLast
  <1>10. LeasesRemembered'
    <2> SUFFICES ASSUME NEW x \in Workers
                 PROVE  Cardinality(Busy(x)') <= Len(tokens'[x])
      BY RememberedDef DEF LeasesRemembered, Busy
    <2>1. CASE x = w
      <3>1. Busy(x)' = {}
        BY <1>3, <2>1 DEF Busy
      <3> QED
        BY <1>2, <2>1, <3>1, FS_EmptySet
    <2>2. CASE x # w
      <3>1. Busy(x)' = Busy(x)
        BY <1>3, <2>2 DEF Busy
      <3> QED
        BY <1>2, <2>2, <3>1, RememberedDef
    <2> QED
      BY <2>1, <2>2
  <1>11. (Cardinality(Live) <= Limit)'
    BY <1>1 DEF Live
  <1> QED
    BY <1>5, <1>6, <1>7, <1>8, <1>9, <1>10, <1>11

\* With every tick a lease loses what its call has used.
LEMMA TickKeeps ==
  ASSUME Parts, Tick
  PROVE  Parts'
  <1> USE DEF Parts, TypeOK
  <1>1. /\ UNCHANGED <<tokens, freeing, up, pc, tok>>
        /\ left' = [t \in Tokens |-> IF left[t] > 0 THEN left[t] - 1 ELSE 0]
        /\ held' = [c \in Calls |-> IF c \in Timed THEN held[c] + 1 ELSE held[c]]
        /\ \A c \in Timed : held[c] < MaxHold
    BY DEF Tick
  <1>2. TypeOK'
    BY <1>1, LeaseAssumption
  <1>3. Owned' /\ Placed' /\ Unplaced' /\ LeasesRemembered'
    BY <1>1 DEF Owned, Placed, Unplaced, InSeq, LeasesRemembered
  <1>4. LeasesLast'
    <2> SUFFICES ASSUME NEW e \in Timed,
                        pc[e] = "leased" \/ InSeq(tok[e], tokens[WorkerOf[e]])
                 PROVE  left'[tok[e]] + held'[e] >= Lease
      BY <1>1 DEF LeasesLast, Timed, InSeq
    <2>1. e \in Calls /\ tok[e] \in Tokens
      BY LeaseAssumption DEF Timed, Owned
    <2>2. left[tok[e]] + held[e] >= Lease
      BY DEF LeasesLast
    <2>3. left[tok[e]] \in 0..Lease /\ held[e] \in 0..MaxHold
      BY <2>1
    <2>4. held'[e] = held[e] + 1
      BY <1>1, <2>1
    <2>5. left'[tok[e]] = IF left[tok[e]] > 0 THEN left[tok[e]] - 1 ELSE 0
      BY <1>1, <2>1
    <2> QED
      BY <2>2, <2>3, <2>4, <2>5, LeaseAssumption
  <1>5. Live' \subseteq Live
    BY <1>1, LeaseAssumption DEF Live
  <1> QED
    BY <1>2, <1>3, <1>4, <1>5, FewerLive

-------------------------------------------------------------------------------
\* Every step keeps the invariant.
LEMMA PartsStep ==
  ASSUME Parts, [Next]_vars
  PROVE  Parts'
  <1>1. ASSUME NEW c \in Calls,
               \/ Begin(c) \/ Poll(c) \/ Remember(c) \/ Granted(c)
               \/ ReserveRejects(c) \/ End(c)
        PROVE  Parts'
    BY <1>1, BeginKeeps, PollKeeps, RememberKeeps, PacingKeeps, EndKeeps
  <1>2. ASSUME NEW t \in Tokens, Free(t) \/ Lose(t)
        PROVE  Parts'
    BY <1>2, FreeKeeps
  <1>3. ASSUME NEW w \in Workers, Crash(w)
        PROVE  Parts'
    BY <1>3, CrashKeeps
  <1>4. CASE Tick
    BY <1>4, TickKeeps
  <1>5. CASE UNCHANGED vars
    BY <1>5 DEF vars, Parts, TypeOK, Owned, Placed, Unplaced, InSeq, LeasesLast, Timed,
                LeasesRemembered, Live
  <1> QED
    BY <1>1, <1>2, <1>3, <1>4, <1>5 DEF Next

\* The inductive invariant, for every fleet, limit and lease.
THEOREM LeaseInvariant == Spec => []LeaseInv
  <1>1. Parts /\ [Next]_vars => Parts'
    BY PartsStep
  <1> QED
    BY <1>1, LeaseInit, PartsOfInv, PTL DEF Spec

\* The store, the workers' lists and the calls keep their types: no release pops
\* from an empty list.
THEOREM LeaseTypes == Spec => []TypeOK
  <1>1. LeaseInv => TypeOK
    BY DEF LeaseInv
  <1> QED
    BY <1>1, LeaseInvariant, PTL

\* takeLease and release: every acquire that has yet to release finds a token in
\* its worker's list.
THEOREM LeaseRemembers == Spec => []LeasesRemembered
  <1>1. LeaseInv => LeasesRemembered
    BY DEF LeaseInv
  <1> QED
    BY <1>1, LeaseInvariant, PTL

\* A call that holds a slot under its own lease has a live lease, if no call runs
\* for as long as a lease; and no two calls have the same.
LEMMA OwnLeasesLive ==
  ASSUME MaxHold < Lease, LeaseInv
  PROVE  OwnLeasesAdmission
  <1> USE LeaseAssumption
  <1>1. TypeOK /\ Owned /\ LeasesLast /\ Cardinality(Live) <= Limit
    BY PartsOfInv DEF Parts
  <1>2. \A c \in OwnHolders : c \in Calls /\ tok[c] \in Live
    <2> SUFFICES ASSUME NEW c \in OwnHolders
                 PROVE  c \in Calls /\ tok[c] \in Live
      OBVIOUS
    <2>1. c \in Timed /\ c \in Calls /\ InSeq(tok[c], tokens[WorkerOf[c]])
      BY DEF OwnHolders, Holders, Timed
    <2>2. tok[c] \in Tokens /\ held[c] \in 0..MaxHold
      BY <1>1, <2>1 DEF TypeOK, Owned, Timed
    <2>3. left[tok[c]] + held[c] >= Lease /\ left[tok[c]] \in 0..Lease
      BY <1>1, <2>1, <2>2 DEF LeasesLast, TypeOK
    <2>4. left[tok[c]] > 0
      BY <2>2, <2>3
    <2> QED
      BY <2>1, <2>2, <2>4 DEF Live
  <1>3. \A c, e \in OwnHolders : tok[c] = tok[e] => c = e
    BY <1>1, <1>2 DEF Owned, Live
  <1>4. [c \in OwnHolders |-> tok[c]] \in Injection(OwnHolders, Live)
    BY <1>2, <1>3 DEF Injection, IsInjective
  <1>5. Cardinality(OwnHolders) <= Cardinality(Live) /\ IsFiniteSet(OwnHolders)
    BY <1>4, LiveFinite, FS_Injection
  <1>6. Cardinality(OwnHolders) \in Nat
    BY <1>5, FS_CardinalityType
  <1> QED
    BY <1>1, <1>5, <1>6, LiveFinite DEF OwnLeasesAdmission

(***************************************************************************)
(* Fleet-wide concurrency, as far as leases give it: whatever workers      *)
(* crash and whichever releases are lost, no more than Limit calls hold a  *)
(* slot under their own lease.                                             *)
(***************************************************************************)
THEOREM LeaseAdmits ==
  ASSUME MaxHold < Lease
  PROVE  Spec => []OwnLeasesAdmission
  <1>1. LeaseInv => OwnLeasesAdmission
    BY OwnLeasesLive
  <1> QED
    BY <1>1, LeaseInvariant, PTL
===============================================================================
