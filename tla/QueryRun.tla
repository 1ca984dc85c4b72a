------------------------------- MODULE QueryRun ------------------------------
(***************************************************************************)
(* createStitchQuery over a stitch of a postMessage channel: unary over    *)
(* channel.request with a timeout and retries, streaming over              *)
(* channel.events.  A run of the query is a call of the stitch; runs are   *)
(* named by their token.                                                   *)
(*                                                                         *)
(* setState calls the listeners one by one, and a listener may call the    *)
(* query back.  `stack` holds what is left to do of the functions under    *)
(* way, innermost first, and nothing else of the query runs meanwhile.     *)
(* The controller start makes is handed to nobody, so that aborting it     *)
(* has no effect to model: a run that was superseded or cancelled goes on  *)
(* to its end unheard.  Listeners and callbacks do not throw.              *)
(***************************************************************************)
EXTENDS Channel

CONSTANTS
  Listeners,
  Reenters,   \* bound: the listeners that call the query back
  MaxToken,   \* bound: the query's runs, cancels and its end
  MaxRuns,    \* bound: its runs
  Attempts    \* the stitch's retry.attempts

ASSUME QueryAssumption ==
  /\ MaxToken \in Nat /\ MaxRuns \in Nat
  /\ Attempts \in Nat \ {0}
  /\ Reenters \subseteq Listeners
  /\ MaxId >= MaxRuns * Attempts

Tokens == 1..MaxToken

VARIABLES
  streaming,   \* the option; it never changes
  runToken,
  destroyed,
  wanted,      \* the run the user last asked for and did not cancel, or 0 (history)
  state,       \* the snapshot
  listeners,
  seen,        \* the snapshot each listener has last looked at
  stack,       \* the functions under way
  run,         \* where the stitch call of each run stands
  tries,       \* its attempts
  call,        \* the id of its last execute
  collected    \* what it has read of its stream

tokenVars == <<runToken, destroyed, wanted>>
shownVars == <<state, listeners, seen, stack>>
runVars == <<run, tries, call, collected>>
queryVars == <<streaming, tokenVars, shownVars, runVars>>
vars == <<channelVars, queryVars>>

Statuses == {"idle", "pending", "streaming", "success", "error"}

(***************************************************************************)
(* "launching" start has begun                                             *)
(* "calling"  the engine is about to execute an attempt                    *)
(* "awaiting" the attempt, or the stream's next chunk, is awaited          *)
(* "resolved" the stitch's promise has resolved;  "rejected"               *)
(* "over"     the run's function has returned;  "stopped" it did so with   *)
(*            nothing executed                                             *)
(***************************************************************************)
Runs == {"none", "launching", "calling", "awaiting", "resolved", "rejected", "over", "stopped"}

\* The functions' continuations.
Notify == [op |-> "notify", left |-> listeners]
Launch(t) == [op |-> "launch", run |-> t]
Callback == [op |-> "callback"]
User == [op |-> "user"]
Frames ==
  [op : {"notify"}, left : SUBSET Listeners] \cup [op : {"launch"}, run : Tokens]
    \cup [op : {"callback", "user"}]

Quiet == stack = <<>>

TypeOK ==
  /\ ChannelTypeOK
  /\ streaming \in BOOLEAN /\ destroyed \in BOOLEAN
  /\ runToken \in 0..MaxToken /\ wanted \in 0..runToken
  /\ state.status \in Statuses /\ state.run \in 0..runToken
  /\ listeners \subseteq Listeners /\ stack \in Seq(Frames)
  /\ run \in [Tokens -> Runs]
  /\ tries \in [Tokens -> 0..Attempts]
  /\ call \in [Tokens -> {0} \cup Ids]

Snapshot(status, t, data) == [status |-> status, run |-> t, data |-> data]

Init ==
  /\ ChannelInit
  /\ streaming \in BOOLEAN
  /\ runToken = 0 /\ destroyed = FALSE /\ wanted = 0
  /\ state = Snapshot("idle", 0, <<>>)
  /\ listeners = {}
  /\ seen = [l \in Listeners |-> state]
  /\ stack = <<>>
  /\ run = [t \in Tokens |-> "none"]
  /\ tries = [t \in Tokens |-> 0]
  /\ call = [t \in Tokens |-> 0]
  /\ collected = [t \in Tokens |-> <<>>]

Innermost(op) == ~Quiet /\ Head(stack).op = op
Returns == stack' = Tail(stack)
Then(frames) == stack' = frames \o Tail(stack)

-------------------------------------------------------------------------------
\* The user calls between tasks, or once from a listener or a callback.
UserRuns == Quiet \/ Innermost("user")
AfterCallback == IF Quiet THEN <<>> ELSE Tail(stack)

\* start(): the snapshot is pending, the listeners hear of it, then the call is made.
Refetch ==
  /\ UserRuns
  /\ ~destroyed /\ runToken < MaxToken
  /\ Cardinality({t \in Tokens : run[t] # "none"}) < MaxRuns
  /\ runToken' = runToken + 1 /\ wanted' = runToken'
  /\ run' = [run EXCEPT ![runToken'] = "launching"]
  /\ state' = Snapshot("pending", runToken', <<>>)
  /\ stack' = <<Notify, Launch(runToken')>> \o AfterCallback
  /\ UNCHANGED <<channelVars, streaming, destroyed, listeners, seen,
                 tries, call, collected>>

\* Mutant: cancel aborts the controller and leaves it at that.
CancelKeepsToken ==
  /\ UserRuns
  /\ runToken < MaxToken /\ runToken' = runToken /\ wanted' = 0
  /\ stack' = AfterCallback
  /\ UNCHANGED <<channelVars, streaming, destroyed, state, listeners, seen, runVars>>

Cancel ==
  /\ UserRuns
  /\ runToken < MaxToken
  /\ runToken' = runToken + 1 /\ wanted' = 0
  /\ stack' = AfterCallback
  /\ UNCHANGED <<channelVars, streaming, destroyed, state, listeners, seen, runVars>>

Destroy ==
  /\ UserRuns
  /\ ~destroyed /\ runToken < MaxToken
  /\ destroyed' = TRUE
  /\ runToken' = runToken + 1 /\ wanted' = 0
  /\ listeners' = {}
  /\ stack' = AfterCallback
  /\ UNCHANGED <<channelVars, streaming, state, seen, runVars>>

\* A listener comes, and looks at the snapshot. Bound: before the first run.
Subscribe(l) ==
  /\ Quiet /\ runToken = 0
  /\ listeners' = listeners \cup {l}
  /\ seen' = [seen EXCEPT ![l] = state]
  /\ UNCHANGED <<channelVars, streaming, tokenVars, state, stack, runVars>>

UserReturns ==
  /\ Innermost("user")
  /\ Returns
  /\ UNCHANGED <<channelVars, streaming, tokenVars, state, listeners, seen, runVars>>

\* setState's loop: the next listener that is still there looks at the snapshot.
NotifiesNext ==
  /\ Innermost("notify")
  /\ LET left == Head(stack).left \cap listeners IN
     IF left = {}
       THEN Returns /\ UNCHANGED seen
       ELSE \E l \in left :
              /\ seen' = [seen EXCEPT ![l] = state]
              /\ Then((IF l \in Reenters THEN <<User>> ELSE <<>>)
                        \o <<[op |-> "notify", left |-> left \ {l}]>>)
  /\ UNCHANGED <<channelVars, streaming, tokenVars, state, listeners, runVars>>

\* start goes on to call the stitch, whatever its listeners have done.
Launches ==
  LET t == Head(stack).run
  IN /\ Innermost("launch")
     /\ run' = [run EXCEPT ![t] = "calling"]
     /\ Returns
     /\ UNCHANGED <<channelVars, streaming, tokenVars, state, listeners, seen,
                    tries, call, collected>>

\* onSuccess or onError.
CallsBack ==
  /\ Innermost("callback")
  /\ Then(<<User>>)
  /\ UNCHANGED <<channelVars, streaming, tokenVars, state, listeners, seen, runVars>>

-------------------------------------------------------------------------------
\* "only the current run may publish"
Current(t) == t = runToken /\ ~destroyed

\* The engine executes an attempt.
Execute(t) ==
  /\ Quiet /\ run[t] = "calling"
  /\ IF streaming THEN Listen ELSE Request
  /\ run' = [run EXCEPT ![t] = "awaiting"]
  /\ tries' = [tries EXCEPT ![t] = @ + 1]
  /\ call' = [call EXCEPT ![t] = minted']
  /\ UNCHANGED <<streaming, tokenVars, shownVars,
                 collected>>

\* A streaming run that is superseded before the engine's `start` event reaches it
\* returns there, and nothing is executed.
StopsAtStart(t) ==
  /\ Quiet /\ run[t] = "calling" /\ streaming /\ ~Current(t)
  /\ run' = [run EXCEPT ![t] = "stopped"]
  /\ UNCHANGED <<channelVars, streaming, tokenVars, shownVars,
                 tries, call, collected>>

\* The attempt has failed: it is retried, or the call is rejected. A stream that could
\* not be opened has no retry of this kind.
AttemptFails(t) ==
  /\ Quiet /\ run[t] = "awaiting" /\ promise[call[t]] \in {"failed", "unposted"}
  /\ run' = [run EXCEPT ![t] = IF ~streaming /\ tries[t] < Attempts THEN "calling"
                               ELSE "rejected"]
  /\ UNCHANGED <<channelVars, streaming, tokenVars, shownVars,
                 tries, call, collected>>

\* The reply has come, or the stream is at its end: the call resolves.
AttemptSucceeds(t) ==
  /\ Quiet /\ run[t] = "awaiting"
  /\ \/ promise[call[t]] = "replied"
     \/ promise[call[t]] = "ended" /\ buffer[call[t]] = <<>>
  /\ run' = [run EXCEPT ![t] = "resolved"]
  /\ UNCHANGED <<channelVars, streaming, tokenVars, shownVars,
                 tries, call, collected>>

\* Mutant: the snapshot changes, and nobody is told.
PublishQuietly(snapshot, after) == state' = snapshot /\ stack' = after

\* setState, and what the function does after it.
Publish(snapshot, after) == state' = snapshot /\ stack' = <<Notify>> \o after

\* for await takes the next delta. A run that is not current returns, which ends the
\* reading and leaves the subscription where it is.
Delta(t) ==
  /\ Quiet
  /\ run[t] = "awaiting" /\ streaming /\ buffer[call[t]] # <<>>
  /\ buffer' = [buffer EXCEPT ![call[t]] = Tail(@)]
  /\ IF Current(t)
       THEN /\ collected' = [collected EXCEPT ![t] = Append(@, Head(buffer[call[t]]))]
            /\ Publish(Snapshot("streaming", t, collected'[t]), <<>>)
            /\ UNCHANGED run
       ELSE /\ run' = [run EXCEPT ![t] = "over"]
            /\ UNCHANGED <<collected, state, stack>>
  /\ UNCHANGED <<pending, promise, payload, eventSubs, delivered, events, closed, minted,
                 peerVars, streaming, tokenVars, listeners, seen,
                 tries, call>>

\* The run's function goes on after its await, for the last time.
Finish(t) ==
  /\ Quiet
  /\ run[t] \in {"resolved", "rejected"}
  /\ run' = [run EXCEPT ![t] = "over"]
  /\ IF ~Current(t)
       THEN UNCHANGED <<state, stack>>
       ELSE Publish(IF run[t] = "rejected" THEN Snapshot("error", t, <<>>)
                    ELSE Snapshot("success", t,
                                  IF streaming THEN collected[t] ELSE <<payload[call[t]]>>),
                    <<Callback>>)
  /\ UNCHANGED <<channelVars, streaming, tokenVars, listeners, seen,
                 tries, call, collected>>

RunStep(t) ==
  \/ Execute(t) \/ StopsAtStart(t)
  \/ AttemptFails(t) \/ AttemptSucceeds(t) \/ Delta(t) \/ Finish(t)

FunctionStep == UserReturns \/ NotifiesNext \/ Launches \/ CallsBack

Next ==
  \/ Refetch \/ Cancel \/ Destroy
  \/ \E l \in Listeners : Subscribe(l)
  \/ FunctionStep
  \/ \E t \in Tokens : RunStep(t)
  \/ ChannelStep /\ Quiet /\ UNCHANGED queryVars

Spec == Init /\ [][Next]_vars

\* Functions and continuations run, the attempts' timers fire. The peer need not answer.
FairSpec ==
  /\ Spec
  /\ WF_vars(FunctionStep)
  /\ \A t \in Tokens : WF_vars(RunStep(t))
  /\ \A id \in Ids : WF_vars(TimesOut(id) /\ Quiet /\ UNCHANGED queryVars)

-------------------------------------------------------------------------------
(***************************************************************************)
(* Only the run the user last asked for changes the snapshot, in whatever  *)
(* order the runs end and whatever a listener calls from within a          *)
(* setState; after cancel or destroy there is none, and a late answer,     *)
(* chunk or end of a stream changes nothing.                               *)
(***************************************************************************)
AbandonedIsSilent == [][state' # state => state'.run = wanted']_vars

\* Whoever listens has looked at the last snapshot, nested notifications included.
ListenersAreCurrent == Quiet => \A l \in listeners : seen[l] = state

(***************************************************************************)
(* What the query shows as its data is the answer to a request of that     *)
(* very run, or every event that arrived while its stream was open, in     *)
(* order, up to the moment the channel was closed.                         *)
(***************************************************************************)
DataIsTheRuns ==
  /\ state.status = "success" =>
       state.data = IF streaming THEN delivered[call[state.run]] ELSE <<call[state.run]>>
  /\ state.status = "streaming" =>
       state.data = SubSeq(delivered[call[state.run]], 1, Len(state.data))

\* What takes a run on: start is under way, the engine is about to go on with it, or
\* the channel knows of what it awaits.
UnderWay(t) ==
  \/ run[t] = "launching" /\ \E i \in 1..Len(stack) : stack[i] = Launch(t)
  \/ run[t] \in {"calling", "resolved", "rejected"}
  \/ /\ run[t] = "awaiting"
     /\ \/ promise[call[t]] = "waiting" /\ call[t] \in pending
        \/ promise[call[t]] = "flowing" /\ call[t] \in eventSubs
        \/ promise[call[t]] \in {"replied", "failed", "unposted", "ended"}

(***************************************************************************)
(* No current run is forgotten: a snapshot that says pending or streaming  *)
(* has a run behind it that something will take on, however its listeners  *)
(* interrupted start, and whether the channel was closed, a timeout fired  *)
(* or an answer came too late.                                             *)
(***************************************************************************)
PendingIsUnderWay ==
  state.status \in {"pending", "streaming"} /\ state.run = runToken => UnderWay(runToken)

\* A query that is pending, and was not cancelled, settles, though the peer may never
\* answer: each attempt has its timeout, close rejects what waits.
PendingSettles ==
  state.status = "pending" /\ ~streaming ~>
    state.status \in {"success", "error"} \/ runToken # state.run
===============================================================================
