---------------------------- MODULE FailureProofs ----------------------------
(***************************************************************************)
(* What the two components guarantee that decide what follows a failure.   *)
(*                                                                         *)
(* The circuit breaker, for every number of calls, threshold and cooldown: *)
(* its record is coherent whatever writes are lost, and with one call at a *)
(* time it implements the textbook breaker.                                *)
(*                                                                         *)
(* The reconnecting stream, for every length of the feed, every choice of  *)
(* ids and every number of opens: what it delivers of a feed whose body    *)
(* keeps dropping.                                                         *)
(***************************************************************************)
EXTENDS Circuit, Reconnect, FiniteSetTheorems, TLAPS

\* What onFailure and the clock make of a coherent record is a coherent record.
LEMMA RecordSteps ==
  ASSUME NEW r \in Records, Coherent(r)
  PROVE  /\ AfterFailure(r) \in Records /\ Coherent(AfterFailure(r))
         /\ Older(r) \in Records /\ Coherent(Older(r))
  <1>1. AfterFailure(r) \in Records /\ Coherent(AfterFailure(r))
    <2> DEFINE n == IF r.failures < Threshold THEN r.failures + 1 ELSE Threshold
               t == r.tripped \/ n >= Threshold
    <2>1. r.failures \in 0..Threshold /\ (r.tripped <=> r.failures = Threshold)
      BY DEF Records, Coherent
    <2>2. n \in 0..Threshold /\ (n >= Threshold <=> n = Threshold)
          /\ (r.failures = Threshold => n = Threshold)
      BY <2>1, CircuitAssumption
    <2>3. t \in BOOLEAN /\ (t <=> n = Threshold)
      BY <2>1, <2>2
    <2>4. AfterFailure(r) = [failures |-> n, tripped |-> t, age |-> 0]
      BY DEF AfterFailure
    <2> HIDE DEF n, t
    <2> QED
      BY <2>2, <2>3, <2>4, CircuitAssumption DEF Records, Coherent
  <1>2. Older(r) \in Records /\ Coherent(Older(r))
    BY CircuitAssumption DEF Older, Records, Coherent
  <1> QED
    BY <1>1, <1>2

\* The record written by a success, and by no one yet, is coherent.
LEMMA ClosedRecord == Closed \in Records /\ Coherent(Closed)
  BY CircuitAssumption DEF Closed, Records, Coherent

\* The invariant: the types, and the coherence of every record about.
CircuitInv == TypeOK /\ RecordsCoherent

\* Before the first call.
LEMMA CircuitInit == Init => CircuitInv
  BY ClosedRecord DEF Init, CircuitInv, TypeOK, RecordsCoherent, Outcomes

\* The steps by which a call reads the record keep the invariant.
LEMMA ReadKeepsInv ==
  ASSUME CircuitInv, NEW c \in Calls, Ask(c) \/ Fail(c)
  PROVE  CircuitInv'
  <1> USE DEF CircuitInv, TypeOK
  <1>1. /\ record' = record
        /\ seen' = [seen EXCEPT ![c] = record]
        /\ pc' \in [Calls -> {"idle", "asked", "running", "failed"}]
    BY DEF Ask, Fail
  <1>2. outcome' \in [Calls -> Outcomes] /\ width' = width
    BY DEF Ask, Fail, Outcomes
  <1>3. \A d \in Calls : Coherent(seen'[d])
    BY <1>1 DEF RecordsCoherent
  <1> QED
    BY <1>1, <1>2, <1>3 DEF RecordsCoherent

\* The steps that touch no record keep it.
LEMMA PlainKeepsInv ==
  ASSUME CircuitInv, NEW c \in Calls,
         FastFail(c) \/ Admit(c) \/ Abandon(c) \/ StoreRejects(c)
  PROVE  CircuitInv'
  <1> USE DEF CircuitInv, TypeOK
  <1>1. /\ UNCHANGED <<record, seen, width>>
        /\ pc' \in [Calls -> {"idle", "asked", "running", "failed"}]
        /\ outcome' \in [Calls -> Outcomes]
    BY DEF FastFail, Admit, Abandon, StoreRejects, End, Outcomes
  <1> QED
    BY <1>1 DEF RecordsCoherent

\* The steps that write the record, from nothing or from what was read, keep it.
LEMMA WriteKeepsInv ==
  ASSUME CircuitInv, NEW c \in Calls, Succeed(c) \/ Count(c)
  PROVE  CircuitInv'
  <1> USE DEF CircuitInv, TypeOK
  <1>1. /\ UNCHANGED <<seen, width>>
        /\ pc' \in [Calls -> {"idle", "asked", "running", "failed"}]
    BY DEF Succeed, Count, End
  <1>2. outcome' \in [Calls -> Outcomes]
    BY DEF Succeed, Count, End, Outcomes
  <1>3. record' \in Records /\ Coherent(record')
    BY RecordSteps, ClosedRecord DEF Succeed, Count, RecordsCoherent
  <1> QED
    BY <1>1, <1>2, <1>3 DEF RecordsCoherent

\* The clock ages all records alike.
LEMMA TickKeepsInv ==
  ASSUME CircuitInv, Tick
  PROVE  CircuitInv'
  <1> USE DEF CircuitInv, TypeOK
  <1>1. record' \in Records /\ Coherent(record')
    BY RecordSteps DEF Tick, RecordsCoherent
  <1>2. /\ seen' \in [Calls -> Records]
        /\ \A c \in Calls : Coherent(seen'[c])
    BY RecordSteps DEF Tick, RecordsCoherent
  <1> QED
    BY <1>1, <1>2 DEF Tick, RecordsCoherent

\* Every step keeps the invariant.
LEMMA CircuitStep == CircuitInv /\ [Next]_vars => CircuitInv'
  <1> SUFFICES ASSUME CircuitInv, [Next]_vars
               PROVE  CircuitInv'
    OBVIOUS
  <1>1. CASE Tick
    BY <1>1, TickKeepsInv
  <1>2. ASSUME NEW c \in Calls, Ask(c) \/ Fail(c)
        PROVE  CircuitInv'
    BY <1>2, ReadKeepsInv
  <1>3. ASSUME NEW c \in Calls, FastFail(c) \/ Admit(c) \/ Abandon(c) \/ StoreRejects(c)
        PROVE  CircuitInv'
    BY <1>3, PlainKeepsInv
  <1>4. ASSUME NEW c \in Calls, Succeed(c) \/ Count(c)
        PROVE  CircuitInv'
    BY <1>4, WriteKeepsInv
  <1>5. CASE UNCHANGED vars
    BY <1>5 DEF vars, CircuitInv, TypeOK, RecordsCoherent
  <1> QED
    BY <1>1, <1>2, <1>3, <1>4, <1>5 DEF Next

\* Every record the store holds, or a call acts on, has its type.
THEOREM CircuitTypes == Spec => []TypeOK
  <1>1. CircuitInv => TypeOK
    BY DEF CircuitInv
  <1> QED
    BY <1>1, CircuitInit, CircuitStep, PTL DEF Spec

(***************************************************************************)
(* The flag and the count of every record agree, however many calls write  *)
(* from stale reads at a time: onFailure never trips below the threshold   *)
(* and never leaves a full count untripped.                                *)
(***************************************************************************)
THEOREM CircuitCoherent == Spec => []RecordsCoherent
  <1>1. CircuitInv => RecordsCoherent
    BY DEF CircuitInv
  <1> QED
    BY <1>1, CircuitInit, CircuitStep, PTL DEF Spec

-------------------------------------------------------------------------------
(***************************************************************************)
(* One call at a time: what a call read is what the store holds, and while *)
(* a call runs the breaker lets calls through.                             *)
(***************************************************************************)
Alone == \A c, e \in Calls : pc[c] # "idle" /\ pc[e] # "idle" => c = e

UpToDate ==
  \A c \in Calls :
    /\ pc[c] \in {"asked", "failed"} => seen[c] = record
    /\ pc[c] \in {"running", "failed"} => ~record.tripped \/ record.age = Cooldown
    /\ pc[c] # "idle" => outcome[c] = "none"

SerialInv == CircuitInv /\ Alone /\ UpToDate

\* With a width of one a call starts only if all the others are idle.
LEMMA AskIsAlone ==
  ASSUME width = 1, NEW c \in Calls, Ask(c)
  PROVE  \A e \in Calls : pc[e] = "idle"
  <1>1. IsFiniteSet(Active)
    BY CircuitAssumption, FS_Subset DEF Active
  <1>2. Cardinality(Active) = 0
    BY <1>1, FS_CardinalityType DEF Ask
  <1> QED
    BY <1>1, <1>2, FS_EmptySet DEF Active

\* The steps keep it.
LEMMA SerialStep ==
  ASSUME width = 1, SerialInv, [Next]_vars
  PROVE  SerialInv'
  <1> USE DEF SerialInv, CircuitInv, TypeOK
  <1>1. CircuitInv'
    BY CircuitStep
  <1>2. ASSUME NEW c \in Calls, Ask(c)
        PROVE  Alone' /\ UpToDate'
    <2>1. \A e \in Calls : pc[e] = "idle"
      BY <1>2, AskIsAlone
    <2>2. pc' = [pc EXCEPT ![c] = "asked"] /\ seen' = [seen EXCEPT ![c] = record]
          /\ record' = record /\ outcome' = [outcome EXCEPT ![c] = "none"]
      BY <1>2 DEF Ask
    <2> QED
      BY <2>1, <2>2 DEF Alone, UpToDate
  <1>3. ASSUME NEW c \in Calls, FastFail(c) \/ Abandon(c) \/ StoreRejects(c)
        PROVE  Alone' /\ UpToDate'
    <2>1. /\ pc' = [pc EXCEPT ![c] = "idle"] /\ UNCHANGED <<record, seen>>
          /\ \A e \in Calls \ {c} : outcome'[e] = outcome[e]
      BY <1>3 DEF FastFail, Abandon, StoreRejects, End
    <2> QED
      BY <2>1 DEF Alone, UpToDate
  <1>4. ASSUME NEW c \in Calls, Admit(c)
        PROVE  Alone' /\ UpToDate'
    <2>1. /\ pc' = [pc EXCEPT ![c] = "running"] /\ UNCHANGED <<record, seen, outcome>>
          /\ pc[c] = "asked" /\ PhaseOf(seen[c]) # "open"
      BY <1>4 DEF Admit
    <2>2. ~record.tripped \/ record.age = Cooldown
      BY <2>1 DEF UpToDate, PhaseOf
    <2> QED
      BY <2>1, <2>2 DEF Alone, UpToDate
  <1>5. ASSUME NEW c \in Calls, Fail(c)
        PROVE  Alone' /\ UpToDate'
    <2>1. /\ pc' = [pc EXCEPT ![c] = "failed"] /\ seen' = [seen EXCEPT ![c] = record]
          /\ UNCHANGED <<record, outcome>> /\ pc[c] = "running"
      BY <1>5 DEF Fail
    <2> QED
      BY <2>1 DEF Alone, UpToDate
  <1>6. ASSUME NEW c \in Calls, Succeed(c) \/ Count(c)
        PROVE  Alone' /\ UpToDate'
    <2>1. pc' = [pc EXCEPT ![c] = "idle"] /\ pc[c] # "idle"
      BY <1>6 DEF Succeed, Count, End
    <2>2. \A e \in Calls : pc'[e] = "idle"
      BY <2>1 DEF Alone
    <2> QED
      BY <2>2 DEF Alone, UpToDate
  <1>7. ASSUME Tick
        PROVE  Alone' /\ UpToDate'
    <2>1. /\ UNCHANGED <<pc, outcome>> /\ record' = Older(record)
          /\ \A c \in Calls : seen'[c] = Older(seen[c])
      BY <1>7 DEF Tick
    <2>2. ~record.tripped \/ record.age = Cooldown => record' = record
      BY <2>1, CircuitAssumption DEF Older
    <2> QED
      BY <2>1, <2>2 DEF Alone, UpToDate
  <1>8. ASSUME UNCHANGED vars
        PROVE  Alone' /\ UpToDate'
    BY <1>8 DEF vars, Alone, UpToDate
  <1> QED
    BY <1>1, <1>2, <1>3, <1>4, <1>5, <1>6, <1>7, <1>8 DEF Next

\* Seen from outside, every step is one of the textbook breaker or none.
LEMMA SerialSteps ==
  ASSUME SerialInv, [Next]_vars
  PROVE  B!Next \/ UNCHANGED B!vars
  <1> USE DEF SerialInv, CircuitInv, TypeOK
  <1>1. ASSUME NEW c \in Calls, Succeed(c)
        PROVE  B!Succeed(c)
    BY <1>1 DEF Succeed, End, UpToDate, Closed, B!Succeed, B!Lets, B!Tell
  <1>2. ASSUME NEW c \in Calls, Count(c)
        PROVE  B!Fail(c)
    <2>1. /\ record' = AfterFailure(record) /\ (~record.tripped \/ record.age = Cooldown)
          /\ outcome[c] = "none"
      BY <1>2 DEF Count, UpToDate
    <2>2. Coherent(record') /\ record' \in Records
      BY <2>1, RecordSteps DEF RecordsCoherent
    <2>3. /\ record'.failures = IF record.failures < Threshold THEN record.failures + 1
                                                              ELSE Threshold
          /\ record'.age = 0
      BY <2>1 DEF AfterFailure
    <2>4. record'.tripped = (record'.failures = Threshold)
      BY <2>2 DEF Coherent, Records
    <2>5. B!Tell(c, IF record'.tripped /\ ~record.tripped THEN "opened" ELSE "failed")
      BY <1>2, <2>1 DEF Count, End, UpToDate, B!Tell
    <2> QED
      BY <2>1, <2>3, <2>4, <2>5 DEF B!Fail, B!Lets
  <1>3. CASE Tick
    <2>1. record' = record \/ (record.tripped /\ record.age < Cooldown
                               /\ record' = [record EXCEPT !.age = @ + 1])
      BY <1>3 DEF Tick, Older
    <2>2. outcome' = outcome
      BY <1>3 DEF Tick
    <2> QED
      BY <2>1, <2>2 DEF B!Next, B!Rest, B!vars, Records
  <1>4. ASSUME NEW c \in Calls, Ask(c)
        PROVE  B!Start(c)
    BY <1>4 DEF Ask, B!Start
  <1>5. ASSUME NEW c \in Calls, FastFail(c)
        PROVE  B!Refuse(c)
    BY <1>5 DEF FastFail, End, UpToDate, PhaseOf, B!Refuse, B!Lets, B!Tell
  <1>6. ASSUME NEW c \in Calls, Abandon(c) \/ StoreRejects(c)
        PROVE  B!GoUncounted(c)
    BY <1>6 DEF Abandon, StoreRejects, End, UpToDate, B!GoUncounted, B!Tell
  <1>7. ASSUME NEW c \in Calls, Admit(c) \/ Fail(c)
        PROVE  UNCHANGED B!vars
    BY <1>7 DEF Admit, Fail, B!vars
  <1>8. CASE UNCHANGED vars
    BY <1>8 DEF vars, B!vars
  <1> QED
    BY <1>1, <1>2, <1>3, <1>4, <1>5, <1>6, <1>7, <1>8 DEF Next, B!Next

\* How many calls run at once does not change.
LEMMA WidthStays == [Next]_vars => width' = width
  BY DEF Next, vars, Ask, FastFail, Admit, Succeed, Fail, Abandon, Count, StoreRejects, Tick

\* The invariant of callers that may or may not run one call at a time.
MaybeSerialInv == CircuitInv /\ (width = 1 => Alone /\ UpToDate)

(***************************************************************************)
(* With one call at a time the store-backed breaker is the textbook one,   *)
(* whatever the threshold and the cooldown, and also if the store rejects  *)
(* or calls are abandoned.                                                 *)
(***************************************************************************)
THEOREM CircuitRefines == Spec => ImplementsBreaker
  <1>1. Init => MaybeSerialInv
    BY CircuitInit DEF Init, MaybeSerialInv, Alone, UpToDate
  <1>2. MaybeSerialInv /\ [Next]_vars => MaybeSerialInv'
    <2> SUFFICES ASSUME MaybeSerialInv, [Next]_vars
                 PROVE  MaybeSerialInv'
      OBVIOUS
    <2>1. CircuitInv' /\ width' = width
      BY CircuitStep, WidthStays DEF MaybeSerialInv
    <2>2. width = 1 => Alone' /\ UpToDate'
      BY SerialStep DEF MaybeSerialInv, SerialInv
    <2> QED
      BY <2>1, <2>2 DEF MaybeSerialInv
  <1>3. Init => (width = 1 => B!Init)
    BY DEF Init, Closed, B!Init
  <1>4. MaybeSerialInv /\ [Next]_vars => [width = 1 => B!Next]_(B!vars)
    BY SerialSteps DEF MaybeSerialInv, SerialInv
  <1> QED
    BY <1>1, <1>2, <1>3, <1>4, PTL DEF Spec, ImplementsBreaker

-------------------------------------------------------------------------------
LEMMA Sizes == Length \in Nat /\ MaxAttempts \in Nat
BY SizesAssumption

(* What `DeliveredOnce` says, of any sequence.                               *)
Once(s, I) ==
    \A m, n \in DOMAIN s :
        s[m] = s[n] /\ m # n => s[m] \notin I /\ \E e \in I : e < s[m]

LEMMA OnceDelivered == DeliveredOnce <=> Once(delivered, ids)
BY DEF DeliveredOnce, Once

(* `chunks.push`: the one element that may be a repetition is the new one.   *)
LEMMA AppendOnce ==
    ASSUME NEW S, NEW s \in Seq(S), NEW p \in S, NEW I, Once(s, I),
           \A n \in DOMAIN s : s[n] = p => p \notin I /\ \E e \in I : e < p
    PROVE  Once(Append(s, p), I)
<1> DEFINE t == Append(s, p)
<1>1. /\ DOMAIN t = 1 .. Len(s) + 1 /\ DOMAIN s = 1 .. Len(s) /\ Len(s) \in Nat
      /\ t[Len(s) + 1] = p
      /\ \A k \in DOMAIN s : t[k] = s[k]
  OBVIOUS
<1>2. SUFFICES ASSUME NEW m \in DOMAIN t, NEW n \in DOMAIN t, t[m] = t[n], m # n
               PROVE  t[m] \notin I /\ \E e \in I : e < t[m]
  BY DEF Once
<1> HIDE DEF t
<1>3. CASE m \in DOMAIN s /\ n \in DOMAIN s
  BY <1>1, <1>2, <1>3 DEF Once
<1>4. CASE m = Len(s) + 1
  <2>1. n \in DOMAIN s /\ s[n] = p /\ t[m] = p
    BY <1>1, <1>2, <1>4
  <2> QED BY <2>1
<1>5. CASE n = Len(s) + 1
  <2>1. m \in DOMAIN s /\ s[m] = p /\ t[m] = p
    BY <1>1, <1>2, <1>5
  <2> QED BY <2>1
<1> QED BY <1>1, <1>3, <1>4, <1>5

LEMMA AppendRange ==
    ASSUME NEW S, NEW s \in Seq(S), NEW p \in S
    PROVE  Range(Append(s, p)) = Range(s) \union {p}
<1>1. /\ DOMAIN Append(s, p) = 1 .. Len(s) + 1 /\ DOMAIN s = 1 .. Len(s) /\ Len(s) \in Nat
      /\ Append(s, p)[Len(s) + 1] = p
      /\ \A k \in DOMAIN s : Append(s, p)[k] = s[k]
  OBVIOUS
<1>2. ASSUME NEW x PROVE x \in Range(Append(s, p)) <=> x \in Range(s) \union {p}
  BY <1>1 DEF Range
<1> QED BY <1>2

(* The numbers in a run, for the arithmetic.                                 *)
LEMMA Numbers ==
    ASSUME ReconnectTypeOK
    PROVE  /\ Event \subseteq Nat /\ ids \subseteq Nat
           /\ position \in Nat /\ position <= Length /\ attempt \in Nat
           /\ lastToken \in Nat /\ lastToken <= Length
           /\ lastToken # 0 => lastToken \in ids
           /\ delivered \in Seq(Event)
           /\ DOMAIN delivered = 1 .. Len(delivered)
           /\ \A n \in DOMAIN delivered : delivered[n] \in Event
<1>1. Event \subseteq Nat
  BY Sizes DEF Event
<1>2. delivered \in Seq(Event)
  BY DEF ReconnectTypeOK
<1>3. \A n \in DOMAIN delivered : delivered[n] \in Event
  BY DEF ReconnectTypeOK
<1>4. DOMAIN delivered = 1 .. Len(delivered)
  BY <1>2
<1> QED BY <1>1, <1>2, <1>3, <1>4, Sizes DEF ReconnectTypeOK, Event, NoToken

----------------------------------------------------------------------------
LEMMA InitInv == ReconnectInit => ReconnectInv
<1> SUFFICES ASSUME ReconnectInit PROVE ReconnectInv
  OBVIOUS
<1>1. ReconnectTypeOK
  <2>1. <<>> \in Seq(Event)
    OBVIOUS
  <2>2. 0 \in 0 .. MaxAttempts + 1 /\ 0 \in 0 .. Length
    BY Sizes
  <2> QED BY <2>1, <2>2 DEF ReconnectInit, ReconnectTypeOK, Places, Endings, NoToken
<1>2. Reached = 0 /\ DOMAIN delivered = {}
  BY DEF ReconnectInit, Reached, NoToken
<1>3. ServedInOrder
  BY <1>2 DEF ServedInOrder
<1>4. OpensLeft /\ ComesAgain /\ IdsSeen /\ TokenBehind /\ DeliveredOnce /\ NoGap
  BY <1>2, Sizes DEF ReconnectInit, OpensLeft, ComesAgain, IdsSeen, TokenBehind, DeliveredOnce, NoGap
<1> QED BY <1>1, <1>3, <1>4 DEF ReconnectInv

(* A step to the end of the run that delivers nothing.                       *)
LEMMA EndsInv ==
    ASSUME ReconnectInv, NEW how \in Endings, EndRun(how),
           UNCHANGED <<lastToken, delivered, aborted, ids, position>>,
           attempt' \in 0 .. MaxAttempts + 1,
           threw' \subseteq Event, threw \subseteq threw',
           how = "finished" => at = "reading" /\ position = Length
    PROVE  ReconnectInv'
<1>1. ReconnectTypeOK'
  BY DEF ReconnectInv, ReconnectTypeOK, EndRun, Places
<1>2. (OpensLeft /\ ServedInOrder /\ ComesAgain /\ IdsSeen /\ TokenBehind /\ DeliveredOnce)'
  BY DEF ReconnectInv, EndRun, OpensLeft, ServedInOrder, ComesAgain, IdsSeen, TokenBehind,
         DeliveredOnce
<1>3. NoGap'
  <2> SUFFICES ASSUME how = "finished" PROVE Event \ threw' \subseteq Range(delivered)
    BY DEF EndRun, NoGap
  <2>1. 1 .. position \subseteq Range(delivered) \union threw
    BY DEF ReconnectInv, ServedInOrder, Reached
  <2> QED BY <2>1 DEF Event
<1> QED BY <1>1, <1>2, <1>3 DEF ReconnectInv

(* A drop.  Nothing behind the resume point is missing, except that the      *)
(* event at hand may have thrown.                                            *)
LEMMA DropInv ==
    ASSUME ReconnectInv, Drop, at # "over",
           UNCHANGED <<attempt, lastToken, delivered, aborted, ids, position>>,
           \/ at \in {"sending", "reading"} /\ UNCHANGED threw
           \/ at = "validating" /\ aborted /\ UNCHANGED threw
           \/ at = "validating" /\ threw' = threw \union {position}
    PROVE  ReconnectInv'
<1>1. ReconnectTypeOK /\ position \in Nat
  BY Numbers DEF ReconnectInv
<1>2. threw' \subseteq Event /\ threw \subseteq threw'
  <2>1. at = "validating" => position \in Event
    BY <1>1, Numbers DEF ReconnectInv, TokenBehind, Event
  <2> QED BY <2>1, <1>1 DEF ReconnectTypeOK
<1>3. CASE ~MayReopen
  <2>1. EndRun("failed")
    BY <1>3 DEF Drop
  <2> QED BY <2>1, <1>1, <1>2, EndsInv DEF Endings, ReconnectTypeOK
<1>4. CASE MayReopen
  <2>1. /\ at' = "resting" /\ ending' = ending /\ Reached' = lastToken
        /\ Recoverable /\ attempt <= MaxAttempts
        /\ \/ at \in {"sending", "reading"} /\ threw' = threw
           \/ at = "validating" /\ threw' = threw \union {position}
    BY <1>4 DEF Drop, MayReopen, Reached
  <2>2. ReconnectTypeOK' /\ OpensLeft' /\ IdsSeen' /\ TokenBehind' /\ DeliveredOnce' /\ NoGap'
    BY <1>2, <2>1 DEF ReconnectInv, ReconnectTypeOK, Places, OpensLeft, IdsSeen, TokenBehind,
                      DeliveredOnce, NoGap
  <2>3. ServedInOrder'
    <3>1. 1 .. Reached \subseteq Range(delivered) \union threw
      BY DEF ReconnectInv, ServedInOrder
    <3>2. CASE at = "sending"
      BY <2>1, <3>1, <3>2 DEF ServedInOrder, Reached
    <3>3. CASE at = "reading"
      BY <1>1, <2>1, <3>1, <3>3, Numbers DEF ReconnectInv, TokenBehind, ServedInOrder, Reached
    <3>4. CASE at = "validating"
      <4>1. lastToken <= position
        BY <3>4 DEF ReconnectInv, TokenBehind
      <4>2. 1 .. position - 1 \subseteq Range(delivered) \union threw
        BY <3>1, <3>4 DEF Reached
      <4>3. \A k \in 1 .. lastToken : k \in 1 .. position - 1 \/ k = position
        BY <1>1, <4>1, Numbers
      <4>4. threw' = threw \union {position}
        BY <2>1, <3>4
      <4> QED BY <2>1, <4>2, <4>3, <4>4 DEF ServedInOrder
    <3> QED BY <2>1, <3>2, <3>3, <3>4
  <2>4. ComesAgain'
    <3> SUFFICES ASSUME NEW n \in DOMAIN delivered, delivered[n] > lastToken
                 PROVE  delivered[n] \notin ids /\ \E e \in ids : e <= lastToken
      BY <2>1 DEF ComesAgain
    <3>1. delivered[n] \notin ids
      BY <1>1, Numbers DEF ReconnectInv, IdsSeen
    <3>2. lastToken # 0
      BY <2>1 DEF Recoverable, NoToken
    <3>3. lastToken \in ids /\ lastToken <= lastToken
      BY <1>1, <3>2, Numbers
    <3> QED BY <3>1, <3>3
  <2> QED BY <2>2, <2>3, <2>4 DEF ReconnectInv
<1> QED BY <1>3, <1>4
(* A delta is delivered: the event after those that were served so far, and  *)
(* not one with an id that was delivered before.                             *)
LEMMA DeliverInv ==
    ASSUME ReconnectInv, NEW p \in Event, at \in {"reading", "validating"},
           at' = "reading", position' = p, delivered' = Append(delivered, p),
           UNCHANGED <<attempt, aborted, ending, ids, threw>>, 
           lastToken' \in {NoToken} \union ids, lastToken' <= p,
           lastToken <= lastToken', p \in ids => lastToken' = p,
           1 .. p - 1 \subseteq Range(delivered) \union threw,
           \A n \in DOMAIN delivered : delivered[n] > p - 1 =>
               delivered[n] \notin ids /\ \E e \in ids : e <= p - 1
    PROVE  ReconnectInv'
<1>1. /\ ReconnectTypeOK /\ delivered \in Seq(Event) /\ p \in Nat /\ 1 <= p /\ p <= Length
      /\ ids \subseteq Nat /\ lastToken \in Nat /\ lastToken' \in Nat
      /\ \A n \in DOMAIN delivered : delivered[n] \in Nat
  BY Numbers, Sizes DEF ReconnectInv, ReconnectTypeOK, Event, NoToken
<1>2. Range(delivered') = Range(delivered) \union {p}
  BY <1>1, AppendRange
<1>3. \A n \in DOMAIN delivered' :
          \/ n \in DOMAIN delivered /\ delivered'[n] = delivered[n]
          \/ delivered'[n] = p
  BY <1>1
<1>4. Reached' = p
  BY DEF Reached
<1>5. ReconnectTypeOK'
  <2>1. delivered' \in Seq(Event)
    BY <1>1
  <2> QED BY <1>1, <2>1, Sizes DEF ReconnectTypeOK, Places
<1>6. ServedInOrder'
  <2>1. \A k \in 1 .. p : k \in 1 .. p - 1 \/ k = p
    BY <1>1
  <2> QED BY <1>2, <1>4, <2>1 DEF ServedInOrder
<1>7. ComesAgain'
  <2> SUFFICES ASSUME NEW n \in DOMAIN delivered', delivered'[n] > p
               PROVE  delivered'[n] \notin ids /\ \E e \in ids : e <= p
    BY <1>4 DEF ComesAgain
  <2>1. n \in DOMAIN delivered /\ delivered'[n] = delivered[n] /\ delivered[n] > p - 1
    BY <1>1, <1>3
  <2>2. PICK e \in ids : e <= p - 1
    BY <2>1
  <2>3. e <= p
    BY <1>1, <2>2
  <2> QED BY <2>1, <2>3
<1>8. IdsSeen'
  BY <1>1, <1>3 DEF ReconnectInv, IdsSeen
<1>9. DeliveredOnce'
  <2>1. \A n \in DOMAIN delivered : delivered[n] = p => p \notin ids /\ \E e \in ids : e < p
    <3> SUFFICES ASSUME NEW n \in DOMAIN delivered, delivered[n] = p
                 PROVE  p \notin ids /\ \E e \in ids : e < p
      OBVIOUS
    <3>1. delivered[n] > p - 1
      BY <1>1
    <3>2. p \notin ids
      BY <3>1
    <3>3. PICK e \in ids : e <= p - 1
      BY <3>1
    <3>4. e < p
      BY <1>1, <3>3
    <3> QED BY <3>2, <3>4
  <2>2. Once(delivered, ids)
    BY OnceDelivered DEF ReconnectInv
  <2>3. Once(delivered', ids)
    BY <1>1, <2>1, <2>2, AppendOnce
  <2> QED BY <2>3 DEF DeliveredOnce, Once
<1>10. TokenBehind' /\ OpensLeft'
  BY DEF TokenBehind, OpensLeft
<1>11. NoGap'
  BY <1>2 DEF ReconnectInv, NoGap
<1> QED BY <1>5, <1>6, <1>7, <1>8, <1>9, <1>10, <1>11 DEF ReconnectInv

(* The origin serves an event and it is validated, or delivered at once.     *)
LEMMA ReceiveInv == ReconnectInv /\ Receive => ReconnectInv'
<1> SUFFICES ASSUME ReconnectInv, Receive PROVE ReconnectInv'
  OBVIOUS
<1> DEFINE p == position + 1
<1>1. /\ ReconnectTypeOK /\ p \in Event /\ p \in Nat /\ position \in Nat /\ position < Length
      /\ at = "reading" /\ position' = p
      /\ UNCHANGED <<attempt, aborted, ending, ids, threw>>
      /\ lastToken' = IF p \in ids THEN p ELSE lastToken
      /\ lastToken <= position /\ lastToken \in Nat
  BY Numbers, Sizes DEF ReconnectInv, ReconnectTypeOK, Receive, Event, TokenBehind
<1>2. 1 .. position \subseteq Range(delivered) \union threw
  BY <1>1 DEF ReconnectInv, ServedInOrder, Reached
<1>3. \A n \in DOMAIN delivered : delivered[n] > position =>
          delivered[n] \notin ids /\ \E e \in ids : e <= position
  BY <1>1 DEF ReconnectInv, ComesAgain, Reached
<1>4. \A n \in DOMAIN delivered : delivered[n] \in Nat
  BY <1>1, Numbers
<1>5. lastToken' \in Nat /\ lastToken' <= p /\ (p \in ids => lastToken' = p)
  BY <1>1
<1>6. lastToken' \in {NoToken} \union ids
  BY <1>1 DEF ReconnectTypeOK
<1>7. CASE Contract
  <2>1. at' = "validating" /\ delivered' = delivered /\ Reached' = p - 1
    BY <1>1, <1>7 DEF Receive, Reached
  <2>2. p - 1 = position
    BY <1>1
  <2>3. ReconnectTypeOK'
    BY <1>1, <1>6, <2>1, Sizes DEF ReconnectTypeOK, Places, Event
  <2>4. ServedInOrder' /\ ComesAgain'
    BY <1>1, <1>2, <1>3, <2>1, <2>2 DEF ServedInOrder, ComesAgain
  <2>5. IdsSeen'
    BY <1>1, <1>4, <1>5, <2>1 DEF ReconnectInv, IdsSeen
  <2>6. TokenBehind' /\ OpensLeft' /\ DeliveredOnce' /\ NoGap'
    BY <1>1, <1>5, <2>1 DEF ReconnectInv, TokenBehind, OpensLeft, DeliveredOnce, NoGap
  <2> QED BY <2>3, <2>4, <2>5, <2>6 DEF ReconnectInv
<1>8. CASE ~Contract
  <2>1. at' = "reading" /\ delivered' = Append(delivered, p) /\ Reached' = p
    BY <1>1, <1>8 DEF Receive, Reached
  <2>2. p - 1 = position /\ lastToken <= lastToken'
    BY <1>1
  <2> QED BY <1>1, <1>2, <1>3, <1>5, <1>6, <2>1, <2>2, DeliverInv
<1> QED BY <1>7, <1>8

LEMMA ValidInv == ReconnectInv /\ Valid => ReconnectInv'
<1> SUFFICES ASSUME ReconnectInv, Valid PROVE ReconnectInv'
  OBVIOUS
<1>1. ReconnectTypeOK /\ at = "validating"
  BY DEF ReconnectInv, Valid
<1>2. CASE aborted
  BY <1>1, <1>2, DropInv DEF Valid
<1>3. CASE ~aborted
  <2>1. /\ at' = "reading" /\ delivered' = Append(delivered, position)
        /\ UNCHANGED <<attempt, lastToken, aborted, ending, ids, position, threw>>
    BY <1>3 DEF Valid
  <2>2. /\ position \in Event /\ lastToken <= position
        /\ position \in ids => lastToken = position
    BY <1>1, Numbers DEF ReconnectInv, TokenBehind, Event
  <2>3. Reached = position - 1
    BY <1>1 DEF Reached
  <2>4. 1 .. position - 1 \subseteq Range(delivered) \union threw
    BY <1>1, <2>3 DEF ReconnectInv, ServedInOrder
  <2>5. \A n \in DOMAIN delivered : delivered[n] > position - 1 =>
            delivered[n] \notin ids /\ \E e \in ids : e <= position - 1
    BY <1>1, <2>3 DEF ReconnectInv, ComesAgain
  <2>6. lastToken' \in {NoToken} \union ids /\ lastToken <= lastToken'
    BY <1>1, <2>1, Numbers DEF ReconnectTypeOK
  <2> QED BY <1>1, <2>1, <2>2, <2>4, <2>5, <2>6, DeliverInv
<1> QED BY <1>2, <1>3

(* From one await to the next, while what was served and what is replayed    *)
(* stay the same.                                                            *)
LEMMA PassInv ==
    ASSUME ReconnectInv, at # "over", at' \in {"opening", "charging", "sending", "reading"},
           UNCHANGED <<lastToken, delivered, aborted, ending, ids, threw>>,
           attempt' \in 0 .. MaxAttempts + 1, position' \in 0 .. Length,
           at' = "opening" => attempt' <= MaxAttempts,
           at' = "reading" => position' = lastToken,
           at \notin {"reading", "validating"}
    PROVE  ReconnectInv'
<1>1. Reached' = lastToken /\ Reached = lastToken
  BY DEF Reached
<1>2. ReconnectTypeOK' /\ OpensLeft'
  BY DEF ReconnectInv, ReconnectTypeOK, Places, OpensLeft
<1>3. ServedInOrder' /\ ComesAgain' /\ IdsSeen' /\ DeliveredOnce' /\ NoGap'
  BY <1>1 DEF ReconnectInv, ServedInOrder, ComesAgain, IdsSeen, DeliveredOnce, NoGap
<1>4. TokenBehind'
  <2>1. lastToken \in Nat
    BY Numbers DEF ReconnectInv
  <2> QED BY <2>1 DEF TokenBehind
<1> QED BY <1>2, <1>3, <1>4 DEF ReconnectInv

LEMMA NextInv == ReconnectInv /\ [ReconnectNext]_reconnectVars => ReconnectInv'
<1> SUFFICES ASSUME ReconnectInv, [ReconnectNext]_reconnectVars PROVE ReconnectInv'
  OBVIOUS
<1>1. /\ ReconnectTypeOK /\ attempt \in 0 .. MaxAttempts + 1 /\ attempt \in Nat
      /\ MaxAttempts \in Nat /\ position \in 0 .. Length /\ lastToken \in 0 .. Length
      /\ threw \subseteq Event /\ {"failed", "finished", "thrown"} \subseteq Endings
  BY Numbers, Sizes DEF ReconnectInv, ReconnectTypeOK, Endings
<1>2. CASE Open
  <2>1. attempt + 1 \in 0 .. MaxAttempts + 1
    BY <1>1, <1>2 DEF Open, ReconnectInv, OpensLeft
  <2>2. CASE aborted
    BY <1>1, <1>2, <2>1, <2>2, EndsInv DEF Open
  <2>3. CASE ~aborted
    BY <1>1, <1>2, <2>1, <2>3, PassInv DEF Open, EndRun
  <2> QED BY <2>2, <2>3
<1>3. CASE Charged
  BY <1>1, <1>3, PassInv DEF Charged
<1>4. CASE NotCharged
  BY <1>1, <1>4, EndsInv DEF NotCharged
<1>5. CASE Opened
  BY <1>1, <1>5, PassInv DEF Opened
<1>6. CASE Unreachable
  BY <1>6, DropInv DEF Unreachable
<1>7. CASE Refused
  BY <1>1, <1>7, EndsInv DEF Refused
<1>8. CASE Receive
  BY <1>8, ReceiveInv
<1>9. CASE BodyDrops
  BY <1>9, DropInv DEF BodyDrops
<1>10. CASE BodyEnds
  BY <1>1, <1>10, EndsInv DEF BodyEnds
<1>11. CASE Valid
  BY <1>11, ValidInv
<1>12. CASE Invalid
  BY <1>1, <1>12, EndsInv DEF Invalid
<1>13. CASE ValidatorThrows
  BY <1>13, DropInv DEF ValidatorThrows
<1>14. CASE Rested
  BY <1>1, <1>14, PassInv DEF Rested, ReconnectInv, OpensLeft
<1>15. CASE RestCut
  BY <1>1, <1>15, EndsInv DEF RestCut
<1>16. CASE Abort \/ UNCHANGED reconnectVars
  <2>1. UNCHANGED <<at, attempt, lastToken, delivered, ending, ids, position, threw>>
    BY <1>16 DEF Abort, reconnectVars
  <2>2. aborted' \in BOOLEAN
    BY <1>1, <1>16 DEF Abort, reconnectVars, ReconnectTypeOK
  <2>3. Reached' = Reached
    BY <2>1 DEF Reached
  <2> QED BY <2>1, <2>2, <2>3
          DEF ReconnectInv, ReconnectTypeOK, OpensLeft, ServedInOrder, ComesAgain, IdsSeen, TokenBehind,
              DeliveredOnce, NoGap
<1> QED BY <1>2, <1>3, <1>4, <1>5, <1>6, <1>7, <1>8, <1>9, <1>10, <1>11, <1>12, <1>13, <1>14,
           <1>15, <1>16 DEF ReconnectNext, Step, Over

----------------------------------------------------------------------------
(* What was served, what is replayed and what has an id agree at every await *)
(* of every run, however often the body drops.                               *)
THEOREM ReconnectInvariant == ReconnectSpec => []ReconnectInv
<1>1. ReconnectInit => ReconnectInv
  BY InitInv
<1>2. ReconnectInv /\ [ReconnectNext]_reconnectVars => ReconnectInv'
  BY NextInv
<1> QED BY <1>1, <1>2, PTL DEF ReconnectSpec

(* A run opens at most 1 + MaxAttempts bodies.                               *)
THEOREM ReconnectTypes == ReconnectSpec => []ReconnectTypeOK
<1>1. ReconnectInv => ReconnectTypeOK
  BY DEF ReconnectInv
<1> QED BY <1>1, ReconnectInvariant, PTL

(* A resumed stream repeats nothing that carries an id, and nothing at all   *)
(* of a feed without ids.                                                    *)
THEOREM ReconnectRepeatsNothing == ReconnectSpec => []DeliveredOnce
<1>1. ReconnectInv => DeliveredOnce
  BY DEF ReconnectInv
<1> QED BY <1>1, ReconnectInvariant, PTL

(* A stream that ends well misses only events on which the validator threw.  *)
THEOREM ReconnectMissesNothing == ReconnectSpec => []NoGap
<1>1. ReconnectInv => NoGap
  BY DEF ReconnectInv
<1> QED BY <1>1, ReconnectInvariant, PTL

(* No delta after the abort: the two looks at the signal suffice.            *)
THEOREM ReconnectSilentOnceAborted == ReconnectSpec => SilentOnceAborted
<1>1. [ReconnectNext]_reconnectVars => (aborted => UNCHANGED delivered) \/ UNCHANGED reconnectVars
  BY DEF ReconnectNext, Step, Over, reconnectVars, Open, Charged, NotCharged, Opened, Unreachable, Refused,
         Receive, BodyDrops, BodyEnds, Valid, Invalid, ValidatorThrows, Rested, RestCut, Abort
<1>2. [ReconnectNext]_reconnectVars => [aborted => UNCHANGED delivered]_reconnectVars
  BY <1>1
<1> QED BY <1>2, PTL DEF ReconnectSpec, SilentOnceAborted
===============================================================================
