------------------------------ MODULE Downloads -------------------------------
(***************************************************************************)
(* DownloadManager: a batch of downloads, at most Concurrency of them at a *)
(* time, admitted in the order they were added.  With `dedupe`, items of   *)
(* the same key share one request, which lives as long as one of them      *)
(* wants it; with `idle`, a watchdog cuts a request that makes no progress.*)
(*                                                                         *)
(* The class runs no code of its own between awaits, but it calls its user *)
(* back in the middle of a method (onItemStart, onItemSettled, onProgress),*)
(* and the user may call add and cancel from there.  `stack` holds what is *)
(* left to do of the methods under way, innermost first: a method runs     *)
(* until its next call, and nothing else runs while the stack is not empty.*)
(*                                                                         *)
(* A request is named by the item that opened it.  Ids are distinct;       *)
(* failures are not told apart but for the manager's own; a user's         *)
(* callback returns.                                                       *)
(***************************************************************************)
EXTENDS Naturals, SequencesExt

CONSTANTS
  N,            \* bound: how many items are added
  Keyings,      \* the ways dedupeKey may tell them apart
  Concurrency,  \* opts.concurrency
  Reenters      \* the callbacks, of which items, the user calls the manager back from

ASSUME DownloadsAssumption ==
  /\ N \in Nat
  /\ \A k \in Keyings : DOMAIN k = 1..N
  /\ Concurrency \in Nat \ {0}
  /\ Reenters \subseteq {"start", "settled"} \X (1..N)

Items == 1..N
Nobody == 0

VARIABLES
  keyOf,          \* dedupeKey of each item, none without opts.dedupe; it never changes
  queue,          \* #queue
  active,         \* #active's keys, in the order they were put in
  phase,          \* #phase
  result,         \* #results, by what became of the item
  cancelled,      \* #cancelled
  stalled,        \* #stalled
  timer,          \* the items whose idle timer is armed
  signalAborted,  \* #signalAborted
  drained,        \* whether who has called drained() since the last add is told
  group,          \* Active.group: the request the item shares
  shared,         \* #shared: key -> the request to join
  leader,         \* Shared.leader of each request
  aborted,        \* why its controller was aborted, if it was
  wire,           \* where its promise stands
  watchers,       \* the items with a reaction on it, in order
  jobs,           \* the reactions that are due, oldest first
  interrupted,    \* history: the items from whose onItemStart the manager was called
  stack           \* the methods under way, innermost first

itemVars == <<queue, active, phase, result, cancelled, stalled, timer>>
requestVars == <<group, shared, leader, aborted, wire, watchers>>
batchVars == <<keyOf, signalAborted, drained, interrupted>>
vars == <<itemVars, requestVars, batchVars, jobs, stack>>

dedupe == keyOf # <<>>
Keys == UNION {Range(k) : k \in Keyings}
Phases == {"new", "queued", "active", "settled"}

(***************************************************************************)
(* "stalled" is a rejection with IDLE_TIMEOUT; "pulled" one with the abort *)
(* of a cancel, in an item that was not cancelled.                         *)
(***************************************************************************)
Results == {"none", "fulfilled", "rejected", "stalled", "pulled", "cancelled"}

\* The items that share request g: its ref count.
Sharers(g) == {i \in Items : group[i] = g}
\* The request behind the item's controller.
Request(i) == IF dedupe THEN group[i] ELSE i
\* The request #shared holds for the item's key.
Joinable(i) == IF dedupe THEN shared[keyOf[i]] ELSE Nobody
Running == ToSet(active)
Quiet == stack = <<>>

TypeOK ==
  /\ keyOf \in Keyings \cup {<<>>}
  /\ signalAborted \in BOOLEAN /\ drained \in BOOLEAN
  /\ ToSet(queue) \subseteq Items /\ IsInjective(queue)
  /\ Running \subseteq Items /\ IsInjective(active)
  /\ phase \in [Items -> Phases]
  /\ Quiet => /\ ToSet(queue) = {i \in Items : phase[i] = "queued"}
              /\ Running = {i \in Items : phase[i] = "active"}
  /\ result \in [Items -> Results]
  /\ cancelled \subseteq Items /\ stalled \subseteq Items
  /\ timer \subseteq Items /\ interrupted \subseteq Items
  /\ group \in [Items -> Items \cup {Nobody}]
  /\ shared \in [Keys -> Items \cup {Nobody}]
  /\ leader \in [Items -> Items]
  /\ aborted \in [Items -> {"no", "cancel", "stall"}]
  /\ wire \in [Items -> {"none", "open", "resolved", "rejected"}]

Init ==
  /\ keyOf \in Keyings \cup {<<>>}
  /\ queue = <<>> /\ active = <<>> /\ jobs = <<>> /\ stack = <<>>
  /\ phase = [i \in Items |-> "new"]
  /\ result = [i \in Items |-> "none"]
  /\ cancelled = {} /\ stalled = {} /\ timer = {} /\ interrupted = {}
  /\ signalAborted = FALSE /\ drained = FALSE
  /\ group = [i \in Items |-> Nobody]
  /\ shared = [k \in Keys |-> Nobody]
  /\ leader = [i \in Items |-> i]
  /\ aborted = [i \in Items |-> "no"]
  /\ wire = [i \in Items |-> "none"]
  /\ watchers = [i \in Items |-> <<>>]

\* The methods' continuations.
Do(op, i) == [op |-> op, item |-> i]
DoAll(op, s) == [op |-> op, items |-> s]
Settle(i, r) == [op |-> "settle", item |-> i, result |-> r]
Pump == [op |-> "pump"]
User(callback, i) == IF <<callback, i>> \in Reenters THEN <<[op |-> "user"]>> ELSE <<>>

\* The innermost method goes on with these, then the others.
Then(frames) == stack' = frames \o Tail(stack)
Innermost(op) == ~Quiet /\ Head(stack).op = op

\* AbortController.abort: the first reason stays.
Abort(g, why) == aborted' = [aborted EXCEPT ![g] = IF @ = "no" THEN why ELSE @]

-------------------------------------------------------------------------------
\* The user may call between tasks, or once from a callback.
UserRuns == Quiet \/ Innermost("user")
AfterCallback == IF Quiet THEN <<>> ELSE Tail(stack)

\* The item whose onItemStart it calls from: active by its phase, not yet in #active.
Starting ==
  IF Innermost("user") /\ Tail(stack) # <<>> /\ Head(Tail(stack)).op = "open"
    THEN {Head(Tail(stack)).item} ELSE {}
Interrupts == interrupted' = interrupted \cup Starting

\* add: the items are numbered in the order they come.
Add(i) ==
  /\ UserRuns
  /\ phase[i] = "new" /\ \A j \in 1..(i - 1) : phase[j] # "new"
  /\ phase' = [phase EXCEPT ![i] = "queued"]
  /\ drained' = FALSE
  /\ IF signalAborted
       THEN stack' = <<Settle(i, "cancelled")>> \o AfterCallback /\ UNCHANGED queue
       ELSE stack' = <<Pump>> \o AfterCallback /\ queue' = Append(queue, i)
  /\ Interrupts
  /\ UNCHANGED <<active, result, cancelled, stalled, timer, requestVars,
                 keyOf, signalAborted, jobs>>

\* Mutant: a cancelled item stays in the queue.
UnqueueNothing(i) == UNCHANGED queue

Unqueue(i) == queue' = RemoveFirst(queue, i)

\* Bound: no call that would do nothing. A second cancel does something where the first
\* came too early, while the item was starting.
Cancellable(i) ==
  i \in cancelled => i \in Running /\ IF dedupe THEN group[i] # Nobody ELSE aborted[i] = "no"

\* cancel(id)
Cancel(i) ==
  /\ UserRuns
  /\ phase[i] # "new" /\ result[i] = "none" /\ Cancellable(i)
  /\ cancelled' = cancelled \cup {i}
  /\ IF phase[i] = "active"
       THEN stack' = <<Do("drop", i)>> \o AfterCallback /\ UNCHANGED queue
       ELSE /\ stack' = <<Settle(i, "cancelled")>> \o AfterCallback
            /\ Unqueue(i)
  /\ Interrupts
  /\ UNCHANGED <<active, phase, result, stalled, timer, requestVars,
                 keyOf, signalAborted, drained, jobs>>

\* cancelAll empties the queue first.
CancelAll ==
  /\ UserRuns
  /\ stack' = <<DoAll("cancelQueued", queue)>> \o AfterCallback
  /\ queue' = <<>>
  /\ Interrupts
  /\ UNCHANGED <<active, phase, result, cancelled, stalled, timer, requestVars, jobs>>

\* cancel(), with something left to cancel.
CancelBatch ==
  /\ CancelAll
  /\ \E i \in ToSet(queue) \cup Running : Cancellable(i)
  /\ UNCHANGED <<keyOf, signalAborted, drained>>

\* The batch's signal fires.
SignalAborts ==
  /\ ~signalAborted
  /\ signalAborted' = TRUE
  /\ CancelAll
  /\ UNCHANGED <<keyOf, drained>>

UserReturns ==
  /\ Innermost("user")
  /\ Then(<<>>)
  /\ UNCHANGED <<itemVars, requestVars, batchVars, jobs>>

UserCalls ==
  \/ \E i \in Items : Add(i) \/ Cancel(i)
  \/ CancelBatch \/ SignalAborts

-------------------------------------------------------------------------------
HasRoom == Len(active) < Concurrency
CanStart == ~signalAborted /\ HasRoom /\ queue # <<>>

\* Mutant: nothing is left to do as soon as the queue is empty.
QueueIsEmpty == queue = <<>>

NothingLeft == queue = <<>> /\ active = <<>>

\* #pump's loop: the first of the queue is started while there is room.
PumpStarts ==
  /\ Innermost("pump")
  /\ CanStart
  /\ queue' = Tail(queue)
  /\ IF phase[Head(queue)] = "queued"
       THEN /\ phase' = [phase EXCEPT ![Head(queue)] = "active"]
            /\ stack' = User("start", Head(queue)) \o <<Do("open", Head(queue))>> \o stack
       ELSE UNCHANGED <<phase, stack>>
  /\ UNCHANGED <<active, result, cancelled, stalled, timer, requestVars, batchVars, jobs>>

\* The loop is over: #maybeDrained.
PumpEnds ==
  /\ Innermost("pump")
  /\ ~CanStart
  /\ drained' = (drained \/ NothingLeft)
  /\ Then(<<>>)
  /\ UNCHANGED <<itemVars, requestVars, keyOf, signalAborted, interrupted, jobs>>

\* #start after onItemStart: the item joins the request of its key, ...
Join ==
  LET i == Head(stack).item
      g == Joinable(i)
  IN /\ Innermost("open")
     /\ g # Nobody
     /\ active' = Append(active, i)
     /\ group' = [group EXCEPT ![i] = g]
     /\ watchers' = [watchers EXCEPT ![g] = IF wire[g] = "open" THEN Append(@, i) ELSE @]
     /\ jobs' = IF wire[g] = "open" THEN jobs ELSE Append(jobs, <<g, i>>)
     /\ Then(<<>>)
     /\ UNCHANGED <<queue, phase, result, cancelled, stalled, timer,
                    shared, leader, aborted, wire, batchVars>>

\* ... or opens one, with its watchdog.
Open ==
  LET i == Head(stack).item
  IN /\ Innermost("open")
     /\ Joinable(i) = Nobody
     /\ active' = Append(active, i)
     /\ wire' = [wire EXCEPT ![i] = "open"]
     /\ watchers' = [watchers EXCEPT ![i] = <<i>>]
     /\ timer' = timer \cup {i}
     /\ IF dedupe
          THEN /\ group' = [group EXCEPT ![i] = i]
               /\ shared' = [shared EXCEPT ![keyOf[i]] = i]
          ELSE UNCHANGED <<group, shared>>
     /\ Then(<<>>)
     /\ UNCHANGED <<queue, phase, result, cancelled, stalled,
                    leader, aborted, batchVars, jobs>>

\* #cancelActive without a group: the request is the item's own, its rejection will
\* settle it. An item that is not in #active (yet) has none.
DropOwn ==
  LET i == Head(stack).item
  IN /\ Innermost("drop")
     /\ ~dedupe \/ group[i] = Nobody
     /\ IF ~dedupe /\ i \in Running THEN Abort(i, "cancel") ELSE UNCHANGED aborted
     /\ Then(<<>>)
     /\ UNCHANGED <<itemVars, group, shared, leader, wire, watchers, batchVars, jobs>>

\* Mutant: the key goes on naming the request.
UnregisterNothing(g) == UNCHANGED shared

\* #unregister: the request can be joined no more.
Unregister(g) == shared' = [k \in Keys |-> IF shared[k] = g THEN Nobody ELSE shared[k]]

\* Mutant: the next leader takes over without a watchdog.
PromoteWithoutTimer(g, next) == leader' = [leader EXCEPT ![g] = next] /\ UNCHANGED timer

\* #promoteLeader
PromoteLeader(g, next) ==
  /\ leader' = [leader EXCEPT ![g] = next]
  /\ timer' = timer \cup {next}

\* The first of group.sharers when item i has left it, by its index in #active: both are
\* in the order of admission.
NextSharer(i) == SelectInSeq(active, LAMBDA j : j # i /\ group[j] = group[i])

\* #cancelActive of a sharer: it leaves the ref count and settles; the last one takes
\* the request with it, a leader hands it to the sharer admitted next.
DropShared ==
  LET i == Head(stack).item
      g == group[i]
      next == NextSharer(i)
  IN /\ Innermost("drop")
     /\ dedupe /\ g # Nobody
     /\ group' = [group EXCEPT ![i] = Nobody]
     /\ IF next = 0
          THEN Unregister(g) /\ Abort(g, "cancel") /\ UNCHANGED <<leader, timer>>
          ELSE /\ IF leader[g] = i THEN PromoteLeader(g, active[next])
                                   ELSE UNCHANGED <<leader, timer>>
               /\ UNCHANGED <<shared, aborted>>
     /\ Then(<<Settle(i, "cancelled")>>)
     /\ UNCHANGED <<queue, active, phase, result, cancelled, stalled,
                    wire, watchers, batchVars, jobs>>

\* Mutant: an item that settles does not make room for the next.
AfterSettlingNothing(i) == User("settled", i)

\* What #settle ends with: the user's callbacks, then #pump.
AfterSettling(i) == User("settled", i) \o <<Pump>>

\* #settle up to there.
Settles ==
  LET i == Head(stack).item
  IN /\ Innermost("settle")
     /\ result[i] = "none"
     /\ result' = [result EXCEPT ![i] = Head(stack).result]
     /\ phase' = [phase EXCEPT ![i] = "settled"]
     /\ group' = [group EXCEPT ![i] = Nobody]
     /\ active' = RemoveFirst(active, i)
     /\ timer' = timer \ {i}
     /\ Then(AfterSettling(i))
     /\ UNCHANGED <<queue, cancelled, stalled, shared, leader, aborted, wire, watchers,
                    batchVars, jobs>>

\* It has settled before.
SettledAlready ==
  /\ Innermost("settle")
  /\ result[Head(stack).item] # "none"
  /\ Then(<<>>)
  /\ UNCHANGED <<itemVars, requestVars, batchVars, jobs>>

\* cancelAll goes on: the items that were queued, then those active by then.
CancelsNext ==
  LET frame == Head(stack)
      i == Head(frame.items)
      queued == frame.op = "cancelQueued"
  IN /\ Innermost("cancelQueued") \/ Innermost("cancelActive")
     /\ IF frame.items # <<>>
          THEN /\ cancelled' = IF queued /\ result[i] # "none" THEN cancelled
                               ELSE cancelled \cup {i}
               /\ Then(<<IF queued THEN Settle(i, "cancelled") ELSE Do("drop", i),
                         DoAll(frame.op, Tail(frame.items))>>)
          ELSE /\ Then(IF queued THEN <<DoAll("cancelActive", active)>> ELSE <<>>)
               /\ UNCHANGED cancelled
     /\ UNCHANGED <<queue, active, phase, result, stalled, timer,
                    requestVars, batchVars, jobs>>

-------------------------------------------------------------------------------
\* onProgress: a chunk counts for the leader of the moment, and rearms its timer.
Chunk(g) ==
  /\ Quiet
  /\ wire[g] = "open"
  /\ timer' = IF leader[g] \in Running THEN timer \cup {leader[g]} ELSE timer
  /\ UNCHANGED <<queue, active, phase, result, cancelled, stalled, requestVars,
                 batchVars, jobs, stack>>

\* #onIdle: the item's window has passed. Timers fire between two tasks.
Expire(i) ==
  /\ Quiet /\ jobs = <<>>
  /\ i \in timer
  /\ timer' = timer \ {i}
  /\ stalled' = stalled \cup {i}
  /\ Abort(Request(i), "stall")
  /\ UNCHANGED <<queue, active, phase, result, cancelled,
                 group, shared, leader, wire, watchers, batchVars, jobs, stack>>

\* The request ends: the reactions on its promise are due, #shared's the first.
Reply(g) ==
  /\ Quiet
  /\ wire[g] = "open"
  /\ \E outcome \in {"resolved", "rejected"} : wire' = [wire EXCEPT ![g] = outcome]
  /\ jobs' = jobs \o <<<<g, Nobody>>>> \o [n \in DOMAIN watchers[g] |-> <<g, watchers[g][n]>>]
  /\ watchers' = [watchers EXCEPT ![g] = <<>>]
  /\ UNCHANGED <<itemVars, group, shared, leader, aborted, batchVars, stack>>

\* `forget`
Forget ==
  /\ Quiet /\ jobs # <<>> /\ Head(jobs)[2] = Nobody
  /\ Unregister(Head(jobs)[1])
  /\ jobs' = Tail(jobs)
  /\ UNCHANGED <<itemVars, group, leader, aborted, wire, watchers, batchVars, stack>>

\* What a rejected request means to the item: #onReject.
Verdict(g, i) ==
  CASE i \in cancelled         -> "cancelled"
    [] i \notin cancelled /\ i \in stalled -> "stalled"
    [] i \notin cancelled \cup stalled -> IF aborted[g] = "cancel" THEN "pulled" ELSE "rejected"

\* The item's own reaction.
React ==
  LET g == Head(jobs)[1]
      i == Head(jobs)[2]
  IN /\ Quiet /\ jobs # <<>> /\ i # Nobody
     /\ jobs' = Tail(jobs)
     /\ stack' = <<Settle(i, IF wire[g] = "resolved" THEN "fulfilled" ELSE Verdict(g, i))>>
     /\ UNCHANGED <<itemVars, requestVars, batchVars>>

MethodStep ==
  \/ UserReturns \/ PumpStarts \/ PumpEnds \/ Join \/ Open
  \/ DropOwn \/ DropShared \/ Settles \/ SettledAlready \/ CancelsNext

Next ==
  \/ UserCalls
  \/ MethodStep
  \/ Forget \/ React
  \/ \E g \in Items : Chunk(g) \/ Expire(g) \/ Reply(g)

Spec == Init /\ [][Next]_vars

\* Methods run to their end, reactions run, timers fire. A server need not answer, but
\* a request that was aborted is rejected.
FairSpec ==
  /\ Spec
  /\ WF_vars(MethodStep)
  /\ WF_vars(Forget \/ React)
  /\ \A i \in Items : WF_vars(Expire(i)) /\ WF_vars(aborted[i] # "no" /\ Reply(i))

-------------------------------------------------------------------------------
(***************************************************************************)
(* The limit is used and kept: never more than Concurrency items are       *)
(* active, not even within a method, but for those whose start was         *)
(* interrupted, and between tasks never fewer while one is queued:         *)
(* whatever frees a slot, the next in the queue gets it.                   *)
(***************************************************************************)
RoomIsUsed ==
  /\ Cardinality(Running \ interrupted) <= Concurrency
  /\ Quiet /\ queue # <<>> => Len(active) >= Concurrency /\ ~signalAborted

(***************************************************************************)
(* The ref count decides over the wire: a request nobody shares any more   *)
(* is aborted, one that somebody shares is not, but by its watchdog; and   *)
(* nobody can join a request that a cancel has aborted, so that "no one    *)
(* item's cancel can pull the bytes out from under the others".            *)
(***************************************************************************)
RefCounted ==
  /\ dedupe /\ Quiet =>
       \A g \in Items :
         /\ wire[g] = "open" /\ Sharers(g) = {} => aborted[g] # "no"
         /\ aborted[g] = "cancel" => Sharers(g) = {} /\ \A k \in Keys : shared[k] # g
  /\ \A i \in Items : result[i] # "pulled"

(***************************************************************************)
(* The watchdog follows the request: as long as somebody waits for it, the *)
(* timer of its leader runs, who is one of them.                           *)
(***************************************************************************)
WatchdogFollows ==
  Quiet =>
    \A i \in Running :
      LET g == Request(i) IN
      wire[g] = "open" /\ aborted[g] = "no" =>
        leader[g] \in timer /\ Request(leader[g]) = g /\ leader[g] \in Running

\* drained() resolves when every item added so far has settled, but for those whose start
\* was interrupted.
DrainedIsDone ==
  Quiet /\ drained =>
    \A i \in Items : phase[i] \in {"new", "settled"} \/ i \in interrupted

(***************************************************************************)
(* What the documentation says without the exception, and is not so: the   *)
(* slot of an item that is starting is not yet counted, and a cancel does  *)
(* not reach it. "concurrency: Max downloads running concurrently";        *)
(* drained() "resolves when the queue is fully drained (all added items    *)
(* settled)"; "aborting this signal cancels the whole batch".              *)
(***************************************************************************)
RunsWithinLimit == Len(active) <= Concurrency

DrainedWhenAllSettled ==
  Quiet /\ drained => \A i \in Items : phase[i] \in {"new", "settled"}

SignalCancelsBatch ==
  Quiet /\ signalAborted => Running \subseteq cancelled

\* Every item settles, even if no server ever answers.
EveryItemSettles == <>[](\A i \in Items : phase[i] \in {"new", "settled"})
===============================================================================
