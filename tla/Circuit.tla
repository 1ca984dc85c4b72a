-------------------------------- MODULE Circuit --------------------------------
(***************************************************************************)
(* createCircuit over a shared store, as attemptWithCircuit drives it.     *)
(*                                                                         *)
(* Every read is `await store.get`: the record is the one the store holds  *)
(* when get is called, and what is decided or written from it comes in a   *)
(* later step.  `set` takes effect when it is called.  Time counts as far  *)
(* as the code compares it: a record's age is the time since openedAt, up  *)
(* to the cooldown, and failures are counted up to the threshold, past     *)
(* which no comparison changes.                                            *)
(***************************************************************************)
EXTENDS Naturals, FiniteSets

CONSTANTS
  Calls,       \* concurrent calls guarded by one breaker key
  MaxActive,   \* how many of them the callers run at once, at most
  Threshold,   \* opts.failures
  Cooldown,    \* opts.cooldown, in ticks
  StoreFails   \* the store may reject

ASSUME CircuitAssumption ==
  /\ IsFiniteSet(Calls)
  /\ MaxActive \in Nat \ {0}
  /\ Threshold \in Nat \ {0}
  /\ Cooldown \in Nat \ {0}
  /\ StoreFails \in BOOLEAN

VARIABLES
  record,   \* the CircuitRecord in the store
  seen,     \* the record each call read last
  pc,       \* where each call stands
  outcome,  \* how each call ended; "none" while it runs
  width     \* how many calls these callers run at once; it never changes

vars == <<record, seen, pc, outcome, width>>

(***************************************************************************)
(* "ok"         the attempts settled                                       *)
(* "failed"     they threw, and onFailure counted it                       *)
(* "opened"     the same, and onFailure returned true: `open` is emitted   *)
(* "refused"    CircuitOpenError                                           *)
(* "uncounted"  the call ended without onSuccess or onFailure taking place *)
(***************************************************************************)
Outcomes == {"none", "ok", "failed", "opened", "refused", "uncounted"}

Records == [failures : 0..Threshold, tripped : BOOLEAN, age : 0..Cooldown]

Closed == [failures |-> 0, tripped |-> FALSE, age |-> 0]

TypeOK ==
  /\ record \in Records
  /\ seen \in [Calls -> Records]
  /\ pc \in [Calls -> {"idle", "asked", "running", "failed"}]
  /\ outcome \in [Calls -> Outcomes]
  /\ width \in 1..MaxActive

Init ==
  /\ record = Closed
  /\ seen = [c \in Calls |-> Closed]
  /\ pc = [c \in Calls |-> "idle"]
  /\ outcome = [c \in Calls |-> "none"]
  /\ width \in 1..MaxActive

\* Mutant: the cooldown must be exceeded, which an age never does.
PhaseOfStrict(r) ==
  IF ~r.tripped THEN "closed" ELSE IF r.age > Cooldown THEN "half-open" ELSE "open"

\* phase(), on a record that was read earlier and the clock as it is now.
PhaseOf(r) ==
  IF ~r.tripped THEN "closed" ELSE IF r.age = Cooldown THEN "half-open" ELSE "open"

\* The call is over.
End(c, how) ==
  /\ pc' = [pc EXCEPT ![c] = "idle"]
  /\ outcome' = [outcome EXCEPT ![c] = how]

Active == {c \in Calls : pc[c] # "idle"}

--------------------------------------------------------------------------------
\* attemptWithCircuit starts: phase() calls store.get.
Ask(c) ==
  /\ pc[c] = "idle" /\ Cardinality(Active) < width
  /\ pc' = [pc EXCEPT ![c] = "asked"]
  /\ seen' = [seen EXCEPT ![c] = record]
  /\ outcome' = [outcome EXCEPT ![c] = "none"]
  /\ UNCHANGED <<record, width>>

\* phase() resolves to "open": the call fails before the network.
FastFail(c) ==
  /\ pc[c] = "asked" /\ PhaseOf(seen[c]) = "open"
  /\ End(c, "refused")
  /\ UNCHANGED <<record, seen, width>>

\* phase() resolves to "closed" or "half-open": the attempts run.
Admit(c) ==
  /\ pc[c] = "asked" /\ PhaseOf(seen[c]) # "open"
  /\ pc' = [pc EXCEPT ![c] = "running"]
  /\ UNCHANGED <<record, seen, outcome, width>>

\* The attempts settle: onSuccess writes a closed record without reading one.
Succeed(c) ==
  /\ pc[c] = "running"
  /\ record' = Closed
  /\ End(c, "ok")
  /\ UNCHANGED <<seen, width>>

\* The attempts throw, for whatever reason, or the store rejects onSuccess's
\* write: onFailure calls store.get.
Fail(c) ==
  /\ pc[c] = "running"
  /\ pc' = [pc EXCEPT ![c] = "failed"]
  /\ seen' = [seen EXCEPT ![c] = record]
  /\ UNCHANGED <<record, outcome, width>>

\* The consumer of the event stream stops, or what failed was another breaker's
\* fast-fail: nothing is recorded.
Abandon(c) ==
  /\ pc[c] = "running"
  /\ End(c, "uncounted")
  /\ UNCHANGED <<record, seen, width>>

\* The store rejects phase's read, or onFailure's read or write: attemptWithCircuit
\* throws that rejection, and nothing is recorded.
StoreRejects(c) ==
  /\ StoreFails
  /\ pc[c] \in {"asked", "failed"}
  /\ End(c, "uncounted")
  /\ UNCHANGED <<record, seen, width>>

\* Mutant: a failed trial leaves the old cooldown window running.
AfterFailureKeepsWindow(r) ==
  LET n == IF r.failures < Threshold THEN r.failures + 1 ELSE Threshold
  IN  [failures |-> n, tripped |-> r.tripped \/ n >= Threshold, age |-> r.age]

\* Mutant: the trip is off by one.
AfterFailureLate(r) ==
  LET n == IF r.failures < Threshold THEN r.failures + 1 ELSE Threshold
  IN  [failures |-> n, tripped |-> r.failures = Threshold, age |-> 0]

\* What onFailure makes of the record it read.
AfterFailure(r) ==
  LET n == IF r.failures < Threshold THEN r.failures + 1 ELSE Threshold
  IN  [failures |-> n, tripped |-> r.tripped \/ n >= Threshold, age |-> 0]

\* onFailure writes what follows from the record it read, and returns whether it
\* opened the breaker.
Count(c) ==
  /\ pc[c] = "failed"
  /\ record' = AfterFailure(seen[c])
  /\ End(c, IF ~seen[c].tripped /\ AfterFailure(seen[c]).tripped THEN "opened" ELSE "failed")
  /\ UNCHANGED <<seen, width>>

Older(r) == IF r.tripped /\ r.age < Cooldown THEN [r EXCEPT !.age = @ + 1] ELSE r

\* The clock advances: every tripped record is a tick older.
Tick ==
  /\ record' = Older(record)
  /\ seen' = [c \in Calls |-> Older(seen[c])]
  /\ <<record', seen'>> # <<record, seen>>
  /\ UNCHANGED <<pc, outcome, width>>

--------------------------------------------------------------------------------
Next ==
  \/ \E c \in Calls :
       \/ Ask(c) \/ FastFail(c) \/ Admit(c)
       \/ Succeed(c) \/ Fail(c) \/ Abandon(c) \/ Count(c) \/ StoreRejects(c)
  \/ Tick

Spec == Init /\ [][Next]_vars

\* The clock runs, calls end, and somebody keeps calling.
FairSpec ==
  /\ Spec
  /\ WF_vars(Tick)
  /\ \A c \in Calls :
       WF_vars(FastFail(c) \/ Admit(c) \/ Succeed(c) \/ Fail(c) \/ Abandon(c) \/ Count(c))
  /\ WF_vars(\E c \in Calls : Ask(c))

--------------------------------------------------------------------------------
(***************************************************************************)
(* The two encodings of "not closed" agree in every record, whatever       *)
(* writes were lost: a record is tripped exactly if its count reached the  *)
(* threshold, so the count never has to be trusted over the flag.          *)
(***************************************************************************)
Coherent(r) == r.tripped <=> r.failures = Threshold
RecordsCoherent == Coherent(record) /\ \A c \in Calls : Coherent(seen[c])

\* The breaker never locks the dependency out for good: while it is tripped a call
\* is let through in the end, however many failures re-arm the cooldown, unless the
\* store rejects even the read that would let it through.
OpenBreakerProbes ==
  record.tripped ~> (\E c \in Calls : pc[c] = "running" \/ outcome[c] = "uncounted")

(***************************************************************************)
(* With one call at a time the breaker is the textbook one: it starts as   *)
(* that one does, and each of its steps is one of that one's or none.      *)
(***************************************************************************)
B == INSTANCE Breaker WITH
       streak <- record.failures, open <- record.tripped, rest <- record.age,
       told <- outcome
ImplementsBreaker ==
  (width = 1 => B!Init) /\ [][width = 1 => B!Next]_(B!vars)
================================================================================
