# StitchAPI: a TLA+ development of its core

StitchAPI turns a declarative endpoint description into a callable: one call goes through a response
cache, a circuit breaker, an attempt loop with retries and auth refresh, and a throttle, before a transport
adapter talks to the origin. This directory models the parts of that path whose state is shared between
concurrent calls, and the two packages that keep protocol state of their own on top of it, the download manager and
query-core. TLC checks the models on small instances; TLAPS proves the main results for every value of
the constants.

All source paths below are relative to `src/packages/core/src/` unless they start with `src/`.

1. [Inventory](#1-inventory)
2. [Modules and how they correspond to the code](#2-modules)
3. [Runs, bounds, what they show](#3-runs)
4. [Fairness](#4-fairness)
5. [Proofs](#5-proofs)
6. [Where the code and its documentation disagree](#6-disagreements)
7. [Not modelled](#7-not-modelled)
8. [Plan](#8-plan)

## 1. Inventory

A call of a stitch is an async generator of events (`engine.ts: execute`). `stitch.ts` drains it into a promise
or hands it to the caller as a stream. JavaScript runs one task at a time; everything between two awaits (or
yields) is atomic, everything across an await can interleave with other calls, and a generator whose consumer
stops ends at the yield it stands at: only the `finally` blocks around that yield run.

| Component | State | Operations | Interacts with | What is hard | What makes it correct |
|---|---|---|---|---|---|
| In-process throttle, `resilience.ts` 60-205 | per key: `inFlight`, `waiters`, `nextGrantAt`; with pool `host` in a process-wide registry | `acquire` (with `rateOnly`), `release` | engine awaits grants | FIFO hand-off without the count moving; three steps between grant and continuation; a registry entry dropped under an acquire | count = grants out, no idle slot while somebody queues, every queued acquire granted, FIFO; the host's pace survives the registry |
| Slot acquisition and attempt loop, `engine.ts` 598-972 | per call: `attempts`, `refreshed`, timer and listener of `acquireWithin`, hand-back continuations | `acquireWithin`, retry, auth refresh, the `finally` that releases | throttle, auth, adapter | budget or abort against a late grant; abandoned event streams | each grant released once, none lost, admission bounded, waits end |
| Circuit breaker, `resilience.ts` 340-451; `engine.ts` 978-1025 | a `CircuitRecord` in the store per host | `phase`, `onSuccess`, `onFailure` | store (each operation an await), attempt loop | read-modify-write over awaits by concurrent calls; cooldown by clock | record coherent, never locked out, one trial, failures never close it |
| Response cache, `cache.ts`; `engine.ts` 1748-1988 | entries under (generation, key) in the store; the generation; the coalescer's map; an LRU list; learned Vary pointers | `open`, lookup, delete, `join`, `settle`/`fail`, `set`, bulk and exact invalidation | store, engine | fills under way at an invalidation; leaders that fail, throw or vanish; rejecting stores | at most one shared run, its followers are served or re-run, no pre-invalidation answer visible after it |
| Store-backed throttle, `store.ts` 238-495 | per process: token list per key; in the store: leases with expiry, rate reservations | `acquire` (poll `lease`, then `reserve`), `release` | store's `lease`/`release`/`reserve`/`increment` | lapse, crashes, lost releases, newest-first release | holders ≤ limit over the fleet, no stall, no lost token |
| Memory store, `store.ts` 50-230 | values with TTL, counters, lease sets, reservations | `get/set/delete/increment/lease/release/reserve`, sweep | all of the above | expiry at the exact tick, sweep against live entries | as the reference store for the contracts above |
| Store chaining, `store.ts` 156-178 | two throttles | `chainThrottle` | throttles | second gate rejects while the first is held | both or none held |
| Streaming and reconnect, `engine.ts` 1407-1722 | attempt, last event id, retry hint, collected deltas | open, decode, reconnect | throttle (rate only), adapter | drops and aborts at every await, resume position, backoff interrupted | no event lost or repeated beyond what the server replays; silence after an abort; bounded opens; terminal events |
| Pagination, validation, events, `engine.ts` | page cursor, run identity | page loop | attempt loop | early stop, caps | bounded pages, one terminal event |
| Factory and drain, `stitch.ts`; seams, `seam.ts` | lazily opened trace sink; shared throttle, store, tag registry | call, stream, extend, invalidate | engine, cache | sink opening against first events | events in order, none dropped but at the bound |
| Auth strategies, `auth.ts` | cached token, `singleFlight` map, cookie jar | `apply`, `refresh`, `onAuthFailure` | store, engine (nested calls for logins) | concurrent 401s; cached read against flight; nested calls under a held slot | one refresh at a time, no fresh token replaced, no deadlock |
| Pipe combinators, `pipe.ts` | a linked AbortController per run | `all`, `any`, `race`, `linked` | engine through signals | losers aborted from microtasks | first outcome wins, all losers aborted |
| Downloads, `download.ts`, `src/packages/download/src/manager.ts` | queue, active set, dedupe groups, idle timers | `add`, `cancel`, pump, settle, promote | engine | re-entrant pump, cancel of a group's leader | concurrency bound, each item settled once, drained in the end |
| query-core and UI bindings, `src/packages/query-core/src/index.ts` | snapshot, run token | `run`, `refetch`, `cancel`, subscribe | stitch | superseded runs | only the newest run publishes |
| postMessage surface, `postmessage.ts` | pending requests by id, subscriptions, responders, private-port handshake | request, emit, events, respond, close | engine | replies against timeouts and close; a post that throws | each request settled once; nothing before the handshake lost |
| Trace, OTLP, `trace.ts`, `otlp.ts` | open runs, spans, export batch | sinks, flush | event stream | batches against flush | each run exported once |
| Stream decoding: `sse.ts`, `line-reader.ts`, `json-stream.ts`, `stream.ts` | partial-line buffers | incremental decode | streaming | chunk boundaries | the result does not depend on the chunking |
| Transport adapters: `http-adapter.ts`, `axios-adapter.ts`, `xhr-adapter.ts` | none across calls | send | network | timeouts | errors mapped |
| External stores: redis, deno-kv, cloudflare-kv packages | in the service | the store interface | throttle, circuit, cache | scripts and compare-and-set loops | the memory store's contract |
| Fingerprints, schemas, drift; types, utilities; CLI, MCP, serve, OpenAPI; testing kit; host integrations | none shared between calls | pure functions, front ends, adapters | – | – | – |

The hazards, one by one with their lines and the properties aimed at them, are in `PROJECT.json` under
`hazards`.

## 2. Modules

```
Semaphore  <== implements ==  Throttle  <- EXTENDS -  EngineSlots   == implements ==> SlackSemaphore
                              Throttle  <- EXTENDS -  AuthFlight        (seen from the limiter and from the calls)
                              Throttle  <== implements ==  HostPool
Breaker    <== implements ==  Circuit (one call at a time)
Channel    <- EXTENDS -  QueryRun
Cache      LeaseThrottle      Reconnect      Downloads
ThrottleProofs  EngineProofs  FailureProofs (Circuit, Reconnect)  CacheProofs  LeaseProofs  AuthProofs  QueryProofs
PoolProofs (HostPool, Downloads)
MCEngineSlots  MCHostPool  MCCircuit  MCCache  MCLeaseThrottle  MCReconnect  MCAuthFlight  MCDownloads  MCQueryRun
```

**Semaphore** is what a limiter promises: at most `Limit` inside, a line in order of arrival, leaving hands
the place to the first in line. **SlackSemaphore** is what is left of that promise when releases go astray: each widens the
limit by one place for good. While its `slack` is 0 it is Semaphore.

**Throttle** is `createThrottle` for one key. `acq[c]` follows one acquire promise: `queued` (its resolver is
in `waiters`), `slotted` (the resolver was called, `acquire`'s continuation has yet to run), `pacing` (it sleeps
for the rate part), `resolved`. `Acquire` is the part of `acquire` that runs synchronously, `Slotted` the
continuation, `Paced` the end of the sleep, `Release` all of `release`. The times of the rate part are
abstracted to the choice between sleeping and going on. `PairedRelease` is the environment: one release per
resolved acquire, which is what `resilience.ts:107-108` demands of callers.

**HostPool** is the same code with what Throttle leaves out: several limiters with pool `host`, the process-wide
registry (`registry`, the host's entry in `hostStates()`), the `KeyState` objects (`content`) and times. An acquire keeps
the object `stateFor` gave it (`held`) across `await takeSlot`, a release looks the host up again and drops the entry when
it is idle. Times are relative, how long from now something is due: no comparison in the code sees more. `due` is a
history variable, the promise of the pool: when the next paced grant may be by all the reservations made so far.
`ImplementsThrottle` maps the registered state, or a fresh one when there is none, to Throttle's.

**EngineSlots** replaces Throttle's environment by the real caller. `pc` follows `attemptLoop` and `acquireWithin`;
`handBacks` counts the continuations that `handBack()` registered on the acquire promise. `BudgetTimer` and
`Abort` are what the timer and the listener do, `RaceFinally` the `finally` that removes both. A task starts only
when no microtask is due (`Quiescent`). An abort may also come from a microtask, as
`pipe.ts:117, 137, 157, 175` raise it when a combinator cancels its losers: then it may find `acquireWithin` still listening
although its race is decided (`InGap`), and arms a hand-back for a grant that is in use. `gaps` is a history variable that
counts these aborts. `Outcome` has the three ways an
attempt ends: a retry, one auth refresh, the end of the call. `Abandon` is a consumer that stops at the
`throttled` event, which is yielded before the `try` whose `finally` releases. Streams (`RateOnly`) charge the rate
part and take no slot.

**AuthFlight** is one strategy (`oauth2`, or `cookieSession` with a login of its own limiter or of the calls')
with its vault entry, over the same Throttle: `attemptLoop` awaits `auth.apply` and `auth.refresh` while the call holds its
slot. `flight` is the entry of the strategy's `singleFlight` map, `fetched` what it has brought; `pc[c]` is the await a
call stands at, from the vault's answer (`Hit`, `Miss`) to the wall, the refresh and the redo. Tokens are numbered as the
server mints them; `valid` is the set it accepts, which a mint or `Revoke` may shrink. `Lapse` is a ttl that passes, `OtherWorkerStores`
another process on the same vault. `rejected` and `owed` are history variables: the token a call was refused with, and
whether the flight its refresh joined had still to be answered.

**Breaker** is a textbook breaker: count, trip, rest, let a call through, and what each caller is told (a refusal exactly
while it rests, `opened` exactly for the failure that opened it). **Circuit** is the code: one record in
a store that every call reads and writes with awaits in between. `record` is the stored record with the time
since it tripped as an `age`; `seen[c]` is the copy `onFailure` read and computes from; `outcome[c]` is how the call
ended, as its caller sees it. `Ask` is `phase()`'s read, `FastFail` and `Admit` what follows it, `Succeed` the write of
`onSuccess`, `Fail` and `Count` the read and the write of `onFailure`. `StoreRejects` covers the store operations that may
fail; a rejected `onSuccess` write is inside the `try` and therefore runs `onFailure`, so it is a way to `Fail`. `width` is how
many calls the callers run at once: with width 1 `ImplementsBreaker` says the code is the Breaker, with more it says nothing.

**Cache** is `runCached` for one derived key. A response is the origin's version when it answered; an entry is
stored under the generation the call read at `open`. `flight` is the coalescer's map entry, `claim[c]` the fate of
the promise that the followers of `c` await. `Store` writes under the captured generation; `Settle` and `Fail` take
the run out of the map. `StoreRejects` and `Abandon` end a call without either. `born` is a history variable: the
version of the origin when each generation began.

**LeaseThrottle** is `createStoreThrottle` of several workers over `memoryStore`'s `lease`/`release`. `left[t]` is the
time a token has left in the store, `tokens[w]` a worker's list, `freeing` the releases that were sent (`release`
does not wait for its promise). A grant and the push of the token are two steps. `Tick` moves the clock and, with
it, the pruning of lapsed holders; `Crash` takes a worker down with its memory.

**Reconnect** is one run of `runStreaming`. `at` is the await the run stands at: `charging` in `acquireWithin`, `sending`
up to the response, `reading` for the next event, `validating` in `validateValue`, `resting` in the backoff. The feed is
`1 .. Length`; which of its events carry an id is fixed by the origin (`ids`, any subset), and `position` is how far the open
body has been read. External, from how the code uses it: a request with `Last-Event-ID` is served what follows that event, and
a body that closes cleanly has served the feed to its end (a truncated close is indistinguishable from a complete one, as
the scenario page `mid-stream-failure.mdx` says). `Drop` is the `'error'` return together with the decision of the loop, which
runs in the same step; `MayReopen` is that decision. `Receive` takes the id of an event before it is validated, `Valid` looks at the
signal again. `threw` is a history variable. Lengths of backoffs are abstracted.

**Downloads** is `DownloadManager`. Its methods have no await inside, but they call the user back (`onItemStart`,
`onItemSettled`), who may call `add`, `cancel` or `cancelAll` from there, in the middle of `#pump` or `#settle`. So a method is a frame on
`stack`, innermost first, and a step runs it to its next call; between tasks the stack is empty (`Quiet`). A request is named
by the item that opened it: `group[i]` is the request item `i` shares, `shared[k]` the one a key can join, `leader` who
carries the watchdog (`NextSharer` who takes it over when that one leaves), `wire` the promise and `watchers` the reactions on it; `jobs` are the reactions that are due, `forget`
first, because it was registered first. An item is `Starting` from its `onItemStart` until it is put into `#active`; `interrupted` is a
history variable, the items from whose `onItemStart` the user called the manager. Which callbacks of which items call back is the constant
`Reenters`; a second cancel is a step where the first came too early to have an effect (`Cancellable`). `Expire` is `#onIdle`, `Chunk` a progress event that rearms it.

**Channel** is one end of `makeChannel` as the `request` and `events` surfaces use it: `pending`, the promise of each
execute, the live streams with their buffers, `close`. The messages under way to the peer and back (`asks`, `answers`) are a set, so
they overtake each other, and nothing obliges the peer to answer. A post may throw: the request is `unposted`, rejected at
once, and its entry stays until `close`. **QueryRun** is `createStitchQuery` over a stitch of such a channel:
each run of the query is a call of the stitch with a timeout per attempt and retries, so a late answer to an earlier attempt can
meet the next one. A streaming run that was superseded before the engine's `start` event returns there (`StopsAtStart`). `setState` is a loop over the listeners, any of which may call `refetch`, `cancel` or `destroy`; it is a
frame of `stack` as in Downloads. `wanted` is a history variable, the run the user asked for last and did not cancel.

A definition whose comment begins with `Mutant:` stands next to the one it varies, is used by no specification, and serves to show
that the property can fail.

## 3. Runs

| Run | Instance | States | Shows |
|---|---|---|---|
| `host_pool` | limiters of one host: 3 capped callers (limit 1), an uncapped one, a stream; spacings 0, 2 and 3 ticks; 2 objects | 96,176 | `HeldIsRegistered`, `PaceKept`, `QueuedIsGranted`, `ImplementsThrottle` |
| `engine_slots` | calls `a`, `b` and stream `s`, limit 1, 2 attempts, signals on `a` and `s`, a budget on `a`, `b` may be abandoned, one abort in the gap | 618,516 | `OneRelease`, `SlotHasOwner`, `Admission`, `WaitEnds`, `SlotsFollowSemaphore`, `CallsFollowSemaphore` |
| `circuit` | 1 to 3 calls at a time, threshold 3, cooldown 2, a failing store | 183,080 | `RecordsCoherent`, `OpenBreakerProbes` (a tripped breaker lets a call through in the end), `ImplementsBreaker` |
| `cache` | 3 callers, 1 bulk invalidation, 1 change at the origin, re-validation, `b`'s store may reject, `a`'s stream may be abandoned | 335,103 | `Coalesced`, `GenerationFences`, `FollowersProceed` |
| `cache_stranded` | 2 callers, rejecting stores | 218 | **violated**: `WaitersNeverStranded` |
| `lease` | workers `w` (2 callers) and `x` (1 caller, may crash), limit 2, 4 tokens, lease 2 ticks, calls of at most 1 tick, lost releases, rejecting `reserve` | 357,568 | `LeasesRemembered`, `OwnLeasesAdmission`, `FleetProgress` |
| `lease_lifo` | the same without crashes and losses | 29,244 | **violated**: `FleetAdmission` |
| `reconnect` | a feed of 4 events, any of them with ids, 2 reconnects, a contract whose validator may throw, a signal and a budget | 14,522 | `DeliveredOnce`, `NoGap`, `SilentOnceAborted`, `StreamEnds` |
| `reconnect_skips` | the same | 5,291 | **violated**: `ContinuesWhereItBroke` |
| `auth` | 2 calls and the login, limit 2, 2 mints, all three strategies | 638,083 | `FlightExact`, `RedoCarriesAnother`, `CallsEnd` |
| `downloads` | 3 items, no dedupe or keys xxy, concurrency 2, calls from item 2's `onItemStart` and item 1's `onItemSettled` | 3,357,502 | `RoomIsUsed`, `RefCounted`, `WatchdogFollows`, `DrainedIsDone`, `EveryItemSettles` |
| `query` | 2 runs of 2 attempts, 3 tokens, 3 events, 2 listeners of which one calls back; posts may throw; unary and streaming | 2,004,484 | `RegistryExact`, `AnswersMatch`, `ListenersAreCurrent`, `DataIsTheRuns`, `PendingIsUnderWay` (a pending run is not forgotten), `AbandonedIsSilent`, `PendingSettles` |

`lease` and `downloads` check the type invariant of their module too; those of the other modules are
proved (section 5), and so are `SlotsCounted`, `QueueExact` and `NoIdleSlot` of the limiter.

Why the bounds are enough to make the interesting cases happen.

- `host_pool`: limit 1 with three capped callers puts two in the line, so hand-off order shows; the uncapped caller
  and the stream reserve on the same object, also while nobody holds a slot, which is when it may be dropped; two objects
  let one be kept by an acquire while the other is registered.
- `engine_slots`: limit 1 with two calls and a stream lets a wait be abandoned while the other call holds the slot and then lets the
  hand-back compete with the next attempt of either; two attempts plus one refresh pass the loop three times. One abort in the gap
is enough to take the count one below the grants for the rest of the behaviour, which the invariants and both refinements then see; that each
further one adds no more than the first is proved.
- `circuit`: two concurrent calls suffice for each of the races, the third makes a failure count while two others are
  between read and write; threshold 3 leaves counts below, at and beyond what a lost update hides.
- `cache`: a leader, a follower and a third caller that comes after the leader has gone; one invalidation
  and one change distinguish before from after.
- `lease`: a limit that one worker can fill alone and a lease longer than the longest call, which is the condition
  `types.ts:1170-1171` puts on it.
- `reconnect`: an event before the first id, one after it and one between two ids, and two
  reconnects, so that a replayed body can break again.
- `auth`: limit 2 lets both calls hold a slot when the login asks for one, which is how they block it; two tokens are the
  refused one and the one that takes its place, and the other worker may mint either.
- `downloads`: three items of which two share a key leave one sharer after a cancel and one item in the queue behind
  a limit of 2. Item 2 is the sharer, so a call from its `onItemStart` comes between the leader's start and the sharer's join; a call from
item 1's `onItemSettled` comes from the leader. The other callbacks are covered by the proofs, which hold for every `Reenters`.
- `query`: two runs are the superseded one and the current one; two attempts let a reply be late for one and early for the
  other; the third token is a cancel or `destroy` in addition to both runs.

The only bounds on counters are `Length`, `MaxGen`, `MaxVersion`, `MaxAttempts`, `MaxGaps`, `Tokens`, `MaxHold`, `MaxMint`, `N` (items), `MaxId`,
`MaxEvent`, `MaxToken` and `MaxRuns`, each named where it is declared; times in HostPool stay finite because a call waits for
its grant before it asks again. `CircuitRecord.failures` is cut at the threshold, above which the code does not tell counts apart.

Deadlock is checked in `host_pool`, `engine_slots`, `circuit`, `lease`, `lease_lifo`, `reconnect` and `reconnect_skips`. The other systems may really stop:
`auth` when the calls have locked out their own login, `cache` and `cache_stranded` when a deserted claim
leaves every call of the key waiting, those of the downloads and of the query when every item has
been added and settled or every run is used up.

The exemptions in these properties are as narrow as the code allows. `SlotHasOwner` leaves out the calls whose
consumer may stop at the `throttled` event, and `WaitEnds` the waits behind a slot lost that way. `OneRelease`, `Admission` and the two refinements
allow one release, and one call more than the limit, for each abort in the gap. `ImplementsBreaker` is about callers of
width 1. `Coalesced` and `FollowersProceed` leave out claims whose leader's store rejected or whose stream was abandoned.
`OwnLeasesAdmission` counts the holders whose own lease is still in the list. `NoGap` leaves out the events on which the validator threw, and
`DeliveredOnce` the events without an id behind one with an id, which a reopened body has to serve again.
`RedoCarriesAnother` is about a refresh whose flight had yet to be answered and brought a token; `CallsEnd` leaves out
`SelfBlocked`, every slot held by a call that waits for a login that waits for a slot. `RoomIsUsed`
(its first half) and `DrainedIsDone` leave out the items whose start was interrupted, and `RegistryExact` counts the entries that throwing posts
have left among those that belong there until `close`. In each case section 6 says what happens without the exemption, and the rest of
the property is what the code does guarantee.

## 4. Fairness

- EngineSlots: weak fairness per call for what the event loop will run: microtasks, sleeps that end,
  attempts that settle (the adapter answers or its timeout fires), consumers that pull the next event. Nothing obliges a
  caller to call, to abort or to have a short budget, and no fairness is asked of the choice between callers.
- HostPool: weak fairness per caller for continuations, the end of a due sleep and the release; strong fairness for the clock, because a tick has to wait
  for the continuations that are due and these keep coming, while real time passes all the same.
- Circuit: the clock runs, admitted calls end, and somebody keeps calling (`OpenBreakerProbes` is about a
  dependency that is still asked for; the breaker does nothing by itself).
- Cache: weak fairness per call: stores and the origin answer or reject.
- LeaseThrottle: the clock runs, replies come, calls end and a poller polls again after its jitter. It is *not*
  assumed that a particular poller finds the free slot: the lease loop has no queue, so `FleetProgress` promises that
  somebody is granted, not who.
- Reconnect: weak fairness of the run as a whole: awaits settle (the adapter answers or its timeout fires, sleeps end) and the
  consumer pulls. Which way they settle is open at every step, so `StreamEnds` rests on the cap alone.
- AuthFlight: weak fairness for each call's steps, for the continuations of acquires and for the flight: the vault and the servers answer
  somehow (an adapter has its timeout). Lapses, revocations and the other worker are under no obligation, and nobody has to start a call.
- Downloads: methods run to their end, reactions run, timers fire, and a request that was aborted is rejected. A server need not answer
  otherwise, so `EveryItemSettles` rests on the watchdog; it assumes the option `idle`.
- QueryRun: functions and continuations run, the timer of an attempt fires. The peer need not answer, and no event need come:
  `PendingSettles` is about unary runs, a stream may flow for ever.

## 5. Proofs

All theorems hold for every number of calls and every value of the other constants under the named assumptions of the modules.

- `ThrottleProofs`: `ThrottleInv` (types, count = number of slots given out, the line holds each blocked acquire once,
  no idle slot) is inductive. `ThrottleRefines`: initial states and steps map to the semaphore's.
- `EngineProofs`: the throttle's invariant does not follow from the limiter alone, since the engine could release
  what it does not hold, and after an abort in the gap it does. The strengthening has two parts. `CallConsistent` says, for each position of a
  call, which states its acquire may be in and how many hand-backs are due. `CountedUpToGaps` says how far the count may be off: it never exceeds the
  grants that are out, and the grants and the calls that will give back too much (`Overdue`) together exceed it by at most `gaps`. From these follow
  `OneRelease`, `SlotHasOwner` and `Admission` (a set of calls with a slot each cannot outnumber the count and the gaps), and that the engine implements
  SlackSemaphore, from the limiter's side (`EngineRunsSemaphore`: the slots given out) and from the calls' (`EngineRefines`: who is past the gate or holds a
  slot). `EngineKeepsContract`: as long as no abort has landed in the gap, every step of the engine is one of the limiter under its own contract, acquire
  "MUST be paired with `release`". None of them assumes anything about when callers abort.
- `FailureProofs`, circuit: `RecordsCoherent` is inductive together with the types, although writes get lost: every write is
  computed from some coherent record. `CircuitRefines` is the whole of `ImplementsBreaker`; what it needs for width 1 is
  that the record a call has read is the one in the store, and that the breaker still lets calls through when the one it let
  through ends.
- `FailureProofs`, reconnect: the invariant is about `Reached`, how far the feed has been served. Behind it nothing is missing
  (`ServedInOrder`); what was delivered beyond it will come again and must have no id and follow one (`ComesAgain`). A
  drop moves `Reached` back to the last id, which is sound because no event with an id beyond that was delivered
  (`IdsSeen`). `SilentOnceAborted` needs no invariant: both places that deliver look at the signal.
- `CacheProofs`: `CacheInv` adds two parts to what the run checks: `FollowersHaveARun` (a follower's leader has a
  claim whose outcome it will see) and `AnswersFenced` (a call's captured generation has begun, and what it was answered
  since is no older than that generation; generations to come have no entries). The latter is why `GenerationFences` holds:
  a slow run writes under the old generation, and nobody reads that any more.
- `LeaseProofs`: `LeaseInv` adds `TokensApart` (a live token is in one place only: a call's, one list's, or on its way) and
  `LeasesLast` (a lease that was not released has at least `Lease - held` ticks left) to the types, `LeasesRemembered` and
  `Cardinality(Live) <= Limit`. `LeaseAdmits` assumes `MaxHold < Lease`: then every holder whose own lease is still listed
  has a live one, no two have the same, and there are at most `Limit`. Crashes and lost releases only take leases away.
- `AuthProofs`: `AuthInv` relates the calls, the flight and the limiter: the states of a call's acquire at each position, and
  that whoever awaits a flight has one. `FlightStaysExact` is a part of it. `RedoAlwaysCarriesAnother` holds because a token is minted
  once: what a flight that had yet to be answered brings is younger than anything that was refused before it, and so is what another worker may
  have stored since. `AuthKeepsContract` says of the calls and their login what `EngineKeepsContract` says of the engine: they
  may block each other, but each acquire is released once.
- `QueryProofs`: `QueryInv` holds the registry exact (`RegistryStaysExact`: what still waits and, until `close`, what could not be posted), says that only the run that is wanted may publish, and keeps track of the notifications under way:
  a listener that has not seen the snapshot has one coming on the stack (`NobodyLeftUntold`). `AbandonedStaysSilent` follows from
  `wanted` being the token of the only run that is current.
  `DataIsItsRuns` rests on a second invariant, `DataInv`: the runs' calls are apart (`OwnCalls`), what a stream was given is what its run has read
  followed by what its buffer holds (`ReadsOn`), and what is shown came from the last call of a run that makes no other (`Shown`).
  `PendingStaysUnderWay` is the safety half of `PendingSettles`: behind a snapshot that waits there is a run whose start is on the stack
  (`StartsLater`), which the engine is about to take on, or whose answer the channel still expects or has.
- `PoolProofs`, host pool: `PoolInv` is the limiter's own invariant of the registered state, that an acquire between its first await and its
  reservation has that state's object (`HeldIsRegistered`, `HeldIsAnObject`), because its place in the line or its slot keeps the object from being idle, and
  that `nextGrantAt` is `due`. `PoolRefines` is the whole of `ImplementsThrottle`: a state dropped as idle and the fresh one made later
  are the same to the limiter. With `ThrottleRefines`, read through the same mapping, the limiters of a host are one semaphore (`PoolRunsSemaphore`).
- `PoolProofs`, downloads: in the middle of a method most of what the properties say is false, so `BatchInv` says it of the whole stack:
  *what does not hold yet has its frame on the stack*. A free place with somebody in the queue has a pump under way (`PumpIsDue`), an item
  that was cancelled out of the queue has its settlement (`PhasesAgree`), and so has an active one without a request (`Shares`); each frame agrees with where its item
  stands (`FramesAgree`), two methods never start the same item and who starts underneath another method was interrupted (`StackAgrees`), those who run or start take
  no more places than there are, whoever was interrupted apart (`SlotsTaken`), a batch that counts as drained has nothing to come but for them (inside `PumpIsDue`),
  whoever has not been started shares nothing (`Untouched`), an open request that was not aborted has a leader among its
  sharers whose timer is armed (`LeadIn`), and reactions are only due on requests that settled, for items that have been admitted (`ReactionsAgree`). With an
  empty stack (`Quiet`) this is `RoomIsUsed`, `RefCounted`, `WatchdogFollows` and `DrainedIsDone`, for every number of items, keys and places.
  The invariant holds whichever callbacks call the manager back, `onItemStart` included.

Every invariant the passing runs check is proved, and so are their action properties and refinements. What stays with TLC is liveness (`QueuedIsGranted`, `WaitEnds`,
`OpenBreakerProbes`, `FollowersProceed`, `FleetProgress`, `StreamEnds`, `CallsEnd`, `EveryItemSettles`, `PendingSettles`), since ENABLED is beyond the
prover. No module declares a recursive operator; where a proof needs a first element of a sequence it takes the least index
with `WFMin` over the natural numbers, which needs no induction over the sequence.

## 6. Disagreements

Three have a run each (see `findings` in `PROJECT.json` for the quotations):

1. `engine.ts:1868`: a rejecting store write leaves the claim pending for ever. (`cache_stranded`)
2. `store.ts:461`: newest-first release lets a call run under a lease older than itself. (`lease_lifo`)
3. `engine.ts:1586`: the resume point is taken from an event before it is validated; if the validator throws, the stream reopens
   behind an event nobody got. (`reconnect_skips`)

Five more have a configuration of their own beside the runs, in which TLC finds the named invariant violated, in a few seconds each:

4. `engine.ts:636`: the abort listener outlives the grant by a microtask; an abort there hands back a grant that is in use, which is released twice
   and lets one call more than the limit onto the network, although `types.ts:1150` calls `concurrency` a "cap on simultaneous in-flight calls" and
   `engine.ts:600-602` says the "still-pending grant is handed straight back". (`CapsCallsInFlight`, `tlc -config MCEngineGap.cfg MCEngineSlots`)
5. `manager.ts:380`: `onItemStart` runs before the item is in `#active`; an `add` or a `cancel` from there pumps with a count that is one too low, and one
   download more runs than `concurrency`, "Max downloads running concurrently" (`src/packages/download/src/types.ts:94`).
   (`RunsWithinLimit`, `tlc -config MCDownloadsRoom.cfg MCDownloads`)
6. `manager.ts:593`: a `cancel` from there may also find nothing queued and nothing active, and resolves `drained()` with the starting item to come;
   `manager.ts:269` says it resolves when "all added items settled". (`DrainedWhenAllSettled`, `tlc -config MCDownloadsDrained.cfg MCDownloads`)
7. `manager.ts:194-211`: a batch signal that fires from there cancels everything but the starting item, whose request is then opened and runs on;
   `types.ts:139` of the package says "aborting this signal cancels the whole batch". (`SignalCancelsBatch`, `tlc -config MCDownloadsSignal.cfg MCDownloads`)
8. `postmessage.ts:1072`: a post that throws rejects the request behind its entry in `pending`, and `withTimeout` clears its timer without an abort
   (`resilience.ts:244-254`). The entry stays until `close`, although `postmessage.ts:886-892` says that a per-attempt `timeout` bounds the map.
   (`TimeoutBoundsRegistry`, `tlc -config MCQueryUnposted.cfg MCQueryRun`)

One is reproduced by a change to a run:

9. `resilience.ts:447`: a failure computed from a stale record closes a breaker that has tripped meanwhile. To see it, check in `MCCircuit.cfg`
   that no `Count` takes `record.tripped` from TRUE to FALSE.

The rest were met while modelling and are kept as exemptions or actions of the models.

In the engine and what is under it:

- `engine.ts:747-758` yields `throttled` between the acquire and the `try` that releases, although
  `resilience.ts:107-108` says an acquire "MUST be paired with `release`". (`EngineSlots!Abandon`)
- `docs/adr/0003-derived-key-response-cache-and-coalescing.md:137-138` and `cache.ts:176-177` say a shared run is dropped only when the last participant
  aborts; `ctl.join(key)` passes no signal, and a leader's abort fails its followers over to runs of their own. (`Cache!Fail`)
- A leader whose event consumer stops half-way (`engine.ts:1857`) settles nothing. (`Cache!Abandon`)
- `engine.ts:623` says "a rejected acquire holds no slot"; when `store.reserve` rejects (`store.ts:379`) the acquire rejects with its
  lease taken and its token in the list. (`LeaseThrottle!ReserveRejects`)
- `resilience.ts:368` speaks of "a single trial"; half-open lets through every call that asks before the first trial settles.
  (`Circuit!Admit`; `ImplementsBreaker` has one call at a time)
- `resilience.ts:433` says onFailure "returns true iff THIS failure opened the breaker"; two failures that read the same record
  both return true. (`Circuit!Count`)
- `src/apps/docs/content/docs/reference/events.mdx:85-86` says "`done` always fires last"; the backoff of a reconnect (`engine.ts:1697`) is
  outside every `try`, so an abort or a budget in it throws out of the generator with neither `error` nor `done`. (`Reconnect!RestCut`)
- An acquire of an uncapped limiter that stands at `await takeSlot` keeps no count, so the state it holds may be dropped as idle; its
  reservation is then made on an object nobody will look up (`resilience.ts:151`). `HeldIsRegistered` and `due` are about what the registry has.

In the auth strategies:

- Calls that hold every slot of a limiter while they wait for a login on the same limiter wait for ever (`engine.ts:851`).
  A budget does not end it: it bounds the wait for a slot, not `apply` or `refresh`. (`AuthFlight!SelfBlocked`)
- A login that sets no cookie is no error; a refresh through it leaves the old cookie in the vault, and the redo carries it again.
- A flight whose `vault.set` is the only thing out is still joined, although what it stored may by then have been replaced and refused.
  (`RedoCarriesAnother` is about the flights that have yet to be answered.)

In the download manager:

- A cancel of an item from its own `onItemStart` is recorded and has no effect on the request that is then opened; a second one, once it is active, has.
  (`Downloads!DropOwn`)
- `manager.ts:437` says "A settled group must not still be joinable"; an item admitted in the microtask between the promise's settling and `forget`
  joins it, and so does one admitted after the watchdog has aborted the request. It is settled with the request's outcome.
- The leader of a request that stalled is rejected with `IDLE_TIMEOUT`, its followers with the abort itself. (`Downloads!Verdict`)

In query-core:

- The controller `start` makes is passed to nobody: `cancel()` and a newer run silence the old one, whose call goes on to its end, its
  retries and its subscription included. `src/packages/query-core/src/index.ts:89-90` says the run settles as an `error`; after `cancel()`
  the snapshot stays as it was, `pending` or `streaming`. (`QueryRun!Cancel`)
- A listener that refetches from within the `pending` notification supersedes a run whose call has not been made; `start` makes it all the same.
  (`QueryRun!Launches`)
- A superseded streaming run leaves its subscription, and the buffer behind it, until the channel closes. (`QueryRun!Delta`)
- An `onSuccess` that throws turns the success into an `error`; callbacks of the model return.

## 7. Not modelled

In the modelled parts:

- limiter: limiters of one host with *different* concurrency limits on one state; `chainThrottle`;
- engine: what an attempt returns, delegate mode, hooks; in a stream a rejecting `onError` hook (`engine.ts:1519`) escapes the generator with neither
  `error` nor `done`;
- cache: learned Vary pointers, the LRU list, key derivation, `coalesce: false`;
- store-backed limiter: the counter-based and the in-process fallback pacing; the memory store's counters, `reserve` and sweep;
- streaming: the lengths of backoffs, the server's retry hint;
- auth: tenancy, the hooks of a strategy, the static strategies (bearer, basic, apiKey), which keep no state;
- downloads: byte progress, automatic and explicit ids (the model's are distinct), how failures are classified, callbacks that throw;
- query-core: the replace mode of streams, callbacks that throw;
- postMessage: the private-port handshake, the origin gate, `emit`, schema validation.

Left out as a whole: the pipe combinators (what they do to the engine is an `Abort` at any time); the factory, its event drain and seams, which compose what the other modules
have; pagination and validation, which are sequential within a call; traces and OTLP, which observe; stream decoding, whose properties are about
strings and not about steps; adapters, bindings, host integrations, external stores and command-line tools, which keep no protocol state here;
schemas, fingerprints and drift, which are pure transformations; the testing kit, which is not part of the running system.

The hazards without a property (`PROJECT.json`) are a coalescing key that does not hold the generation (`engine.ts:1853`), an exact invalidation racing a fill
(`engine.ts:1980`), a Vary pointer outside the LRU (`cache.ts:551`) and a chained throttle whose second gate rejects (`store.ts:165`); each has a note saying why.

## 8. Plan

Done, in this order: Semaphore, Throttle, EngineSlots; Breaker, Circuit; Cache; LeaseThrottle; Reconnect; HostPool; AuthFlight; Downloads;
Channel, QueryRun; then the proofs of each: Channel's are in `QueryProofs`, those of Circuit and Reconnect in `FailureProofs`, those of HostPool and
Downloads in `PoolProofs`.

What a later revision could add, most important first:

1. Chained throttles as a composition of two Throttles, with a second gate that rejects.
2. Vary pointers and the LRU list as a revision of Cache.
3. The private-port handshake in front of Channel: nothing sent before it is lost.
4. The pipe combinators over the engine's calls: whether the losers of a combinator really reach the gap, and how many of them.
5. Pure algorithms as bounded checks against reference definitions: line splitting and SSE framing over all chunkings, backoff and
   rate arithmetic.
