--------------------------------- MODULE Cache ---------------------------------
(***************************************************************************)
(* The read-through cache of one stitch, for one derived key: runCached    *)
(* over a CacheController and its InflightCoalescer.                       *)
(*                                                                         *)
(* A response is what matters about it here: the version the origin was at *)
(* when it answered.  The stored key of a call carries the generation read *)
(* at open, so entry maps generations to responses.  A bump draws a fresh  *)
(* random generation; only that it is new counts, and the next number      *)
(* stands for it.  Learned Vary (a second key) is left out, and so is      *)
(* coalesce: false, under which a call goes straight to "alone".           *)
(***************************************************************************)
EXTENDS Naturals, FiniteSets

CONSTANTS
  Calls,        \* concurrent identical calls
  NoCall,       \* no call
  MaxGen,       \* bound: how often the cache is invalidated in bulk
  MaxVersion,   \* bound: how often the origin changes
  Revalidates,  \* policy 'revalidate': a hit may turn out stale-shaped
  StoreFailing, \* the calls whose store operations may reject
  Abandoning    \* the calls whose event consumer may stop half-way

ASSUME CacheAssumption ==
  /\ NoCall \notin Calls
  /\ IsFiniteSet(Calls)
  /\ MaxGen \in Nat
  /\ MaxVersion \in Nat
  /\ Revalidates \in BOOLEAN
  /\ StoreFailing \subseteq Calls
  /\ Abandoning \subseteq Calls

VARIABLES
  origin,   \* the version the origin answers with
  gen,      \* the generation in the store
  entry,    \* per generation, the versions stored under the key: none or one
  flight,   \* the leader of the run in the coalescer's map
  claim,    \* what the followers of each call's shared run see of it
  boss,     \* the leader whose run a follower awaits
  pc,       \* where each call stands
  prefix,   \* the generation a call captured at open
  got,      \* the version its own run fetched
  born      \* history: the origin's version when each generation began

vars == <<origin, gen, entry, flight, claim, boss, pc, prefix, got, born>>
callVars == <<claim, boss, prefix, got>>

Gens == 0..MaxGen
Versions == 0..MaxVersion
Entries == {{}} \cup {{v} : v \in Versions}

(***************************************************************************)
(* "idle"      no call                                                     *)
(* "opened"    the prefix is captured; the lookup is due                   *)
(* "stale"     a hit failed its re-validation; the delete is due           *)
(* "missed"    the miss was reported; join is due                          *)
(* "running"   the chain runs, the origin has not answered                 *)
(* "answered"  the origin has answered; the response is on its way back    *)
(* "stored"    the store step is over; a leader settles next               *)
(* "waiting"   a follower awaits the shared promise                        *)
(***************************************************************************)
PCs == {"idle", "opened", "stale", "missed", "running", "answered", "stored", "waiting"}

\* The calls that run the chain, as a leader or alone.
Runners == {c \in Calls : pc[c] \in {"running", "answered", "stored"}}

\* A leader has its claim pending; a call that re-runs alone has none.
Leads(c) == claim[c] = "pending"

Followers(c) == {w \in Calls : pc[w] = "waiting" /\ boss[w] = c}

TypeOK ==
  /\ origin \in Versions
  /\ gen \in Gens
  /\ entry \in [Gens -> Entries]
  /\ flight \in Calls \cup {NoCall}
  /\ claim \in [Calls -> {"none", "pending", "settled", "failed"}]
  /\ boss \in [Calls -> Calls \cup {NoCall}]
  /\ pc \in [Calls -> PCs]
  /\ prefix \in [Calls -> Gens]
  /\ got \in [Calls -> Versions]
  /\ born \in [Gens -> Versions]

Init ==
  /\ origin = 0 /\ gen = 0
  /\ entry = [g \in Gens |-> {}]
  /\ flight = NoCall
  /\ claim = [c \in Calls |-> "none"]
  /\ boss = [c \in Calls |-> NoCall]
  /\ pc = [c \in Calls |-> "idle"]
  /\ prefix = [c \in Calls |-> 0]
  /\ got = [c \in Calls |-> 0]
  /\ born = [g \in Gens |-> 0]

Goto(c, label) == pc' = [pc EXCEPT ![c] = label]

\* The call is over and its locals are gone; its claim outlives it.
End(c) ==
  /\ Goto(c, "idle")
  /\ boss' = [boss EXCEPT ![c] = NoCall]
  /\ prefix' = [prefix EXCEPT ![c] = 0]
  /\ got' = [got EXCEPT ![c] = 0]

--------------------------------------------------------------------------------
\* ctl.open(key, d): the generation is read, once for the whole call. Whoever
\* followed an earlier run of this call has seen its outcome by then.
Open(c) ==
  /\ pc[c] = "idle" /\ ~Leads(c) /\ Followers(c) = {}
  /\ Goto(c, "opened")
  /\ prefix' = [prefix EXCEPT ![c] = gen]
  /\ claim' = [claim EXCEPT ![c] = "none"]
  /\ UNCHANGED <<origin, gen, entry, flight, boss, got, born>>

\* op.get(): a hit is served, or found stale-shaped; a miss goes on.
Lookup(c) ==
  /\ pc[c] = "opened"
  /\ \/ entry[prefix[c]] = {} /\ Goto(c, "missed") /\ UNCHANGED callVars
     \/ entry[prefix[c]] # {} /\ End(c) /\ UNCHANGED claim
     \/ entry[prefix[c]] # {} /\ Revalidates /\ Goto(c, "stale") /\ UNCHANGED callVars
  /\ UNCHANGED <<origin, gen, entry, flight, born>>

\* op.delete(): the entry there is now, whoever wrote it, goes.
DeleteStale(c) ==
  /\ pc[c] = "stale"
  /\ entry' = [entry EXCEPT ![prefix[c]] = {}]
  /\ Goto(c, "missed")
  /\ UNCHANGED <<origin, gen, flight, callVars, born>>

\* ctl.join(key): the first caller leads, the rest follow. The map's key does not
\* hold the generation.
Join(c) ==
  /\ pc[c] = "missed"
  /\ IF flight = NoCall
       THEN /\ flight' = c
            /\ claim' = [claim EXCEPT ![c] = "pending"]
            /\ Goto(c, "running")
            /\ UNCHANGED boss
       ELSE /\ boss' = [boss EXCEPT ![c] = flight]
            /\ Goto(c, "waiting")
            /\ UNCHANGED <<flight, claim>>
  /\ UNCHANGED <<origin, gen, entry, prefix, got, born>>

\* The origin answers a run's request.
Answer(c) ==
  /\ pc[c] = "running"
  /\ got' = [got EXCEPT ![c] = origin]
  /\ Goto(c, "answered")
  /\ UNCHANGED <<origin, gen, entry, flight, claim, boss, prefix, born>>

\* Mutant: the entry goes to the generation there is now.
StoreUnderLiveGeneration(c) ==
  /\ pc[c] = "answered"
  /\ \/ entry' = [entry EXCEPT ![gen] = {got[c]}]
     \/ UNCHANGED entry
  /\ Goto(c, "stored")
  /\ UNCHANGED <<origin, gen, flight, callVars, born>>

\* store(out) of a run that succeeded: written under the captured prefix, or not
\* (an accepted status >= 400, Vary: *).
Store(c) ==
  /\ pc[c] = "answered"
  /\ \/ entry' = [entry EXCEPT ![prefix[c]] = {got[c]}]
     \/ UNCHANGED entry
  /\ Goto(c, "stored")
  /\ UNCHANGED <<origin, gen, flight, callVars, born>>

\* Mutant: the settled run stays in the coalescer's map.
EndClaimStaysInMap(c, how) ==
  /\ claim' = [claim EXCEPT ![c] = how]
  /\ UNCHANGED flight

\* settle or fail: the run leaves the coalescer's map, its promise settles.
EndClaim(c, how) ==
  /\ claim' = [claim EXCEPT ![c] = how]
  /\ flight' = IF flight = c THEN NoCall ELSE flight

\* The end of a run: claim.settle for a leader, nothing for a call alone.
Settle(c) ==
  /\ pc[c] = "stored"
  /\ IF Leads(c) THEN EndClaim(c, "settled") ELSE UNCHANGED <<claim, flight>>
  /\ End(c)
  /\ UNCHANGED <<origin, gen, entry, born>>

\* Mutant: a failed leader just goes.
FailKeepsClaim(c) ==
  /\ pc[c] \in {"running", "answered"}
  /\ End(c)
  /\ UNCHANGED <<origin, gen, entry, flight, claim, born>>

\* The run fails, throws or is aborted by its caller: claim.fail for a leader. A
\* follower has no signal to listen to.
Fail(c) ==
  /\ pc[c] \in {"running", "answered"}
  /\ IF Leads(c) THEN EndClaim(c, "failed") ELSE UNCHANGED <<claim, flight>>
  /\ End(c)
  /\ UNCHANGED <<origin, gen, entry, born>>

\* The store rejects the lookup, the delete or the write: the call throws. The
\* write's `await store(out)` throws past settle and fail.
StoreRejects(c) ==
  /\ c \in StoreFailing
  /\ pc[c] \in {"opened", "stale", "answered"}
  /\ End(c)
  /\ UNCHANGED <<origin, gen, entry, flight, claim, born>>

\* The consumer of the event stream returns at a yield of the run: neither the
\* catch nor what follows the yield runs.
Abandon(c) ==
  /\ c \in Abandoning
  /\ pc[c] \in {"running", "answered"}
  /\ End(c)
  /\ UNCHANGED <<origin, gen, entry, flight, claim, born>>

\* The shared promise settles: a follower is served, or re-runs on its own.
Follow(c) ==
  /\ pc[c] = "waiting"
  /\ \/ claim[boss[c]] = "settled" /\ End(c) /\ UNCHANGED claim
     \/ claim[boss[c]] = "failed" /\ Goto(c, "running") /\ UNCHANGED callVars
  /\ UNCHANGED <<origin, gen, entry, flight, born>>

--------------------------------------------------------------------------------
\* bumpCacheGeneration.
Invalidate ==
  /\ gen < MaxGen
  /\ gen' = gen + 1
  /\ born' = [born EXCEPT ![gen + 1] = origin]
  /\ UNCHANGED <<origin, entry, flight, callVars, pc>>

\* An entry goes: its TTL, the LRU cap, an exact invalidation whose open read any
\* generation there has been.
Drop ==
  \E g \in 0..gen :
    /\ entry[g] # {}
    /\ entry' = [entry EXCEPT ![g] = {}]
    /\ UNCHANGED <<origin, gen, flight, callVars, pc, born>>

\* The resource changes at the origin.
Change ==
  /\ origin < MaxVersion
  /\ origin' = origin + 1
  /\ UNCHANGED <<gen, entry, flight, callVars, pc, born>>

CallStep(c) ==
  \/ Lookup(c) \/ DeleteStale(c) \/ Join(c) \/ Answer(c) \/ Store(c)
  \/ Settle(c) \/ Fail(c) \/ Follow(c)

Next ==
  \/ \E c \in Calls :
       Open(c) \/ CallStep(c) \/ StoreRejects(c) \/ Abandon(c)
  \/ Invalidate \/ Drop \/ Change

Spec == Init /\ [][Next]_vars

\* What a call started goes on: stores and origins answer or time out.
FairSpec == Spec /\ \A c \in Calls : WF_vars(CallStep(c))

--------------------------------------------------------------------------------
\* Leaders whose call is gone although their claim is pending.
Deserted == {c \in Calls : Leads(c) /\ c \notin Runners}

(***************************************************************************)
(* Coalescing: at most one shared run at a time, led by a call that still  *)
(* runs.  A pending claim without a runner, or outside the map, would      *)
(* leave its followers, or every later caller, with nobody to wait for:    *)
(* only a rejecting store or an abandoned stream brings that about.        *)
(***************************************************************************)
Coalesced ==
  /\ \A c \in Calls : Leads(c) <=> flight = c
  /\ Deserted \subseteq Abandoning \cup StoreFailing

(***************************************************************************)
(* A bulk invalidation fences: whatever is stored under a generation was   *)
(* answered by the origin after that generation began, also if the run     *)
(* that fills it was under way when the generation was bumped.             *)
(***************************************************************************)
GenerationFences == \A g \in 0..gen : \A v \in entry[g] : v >= born[g]

\* A follower awaits a run that is under way or whose outcome it can see.
FollowersHaveARun ==
  \A c \in Calls : pc[c] = "waiting" => boss[c] \in Calls /\ claim[boss[c]] # "none"

(***************************************************************************)
(* Why the fence holds: calls store under a generation they have seen, and *)
(* only what was answered since it began.                                  *)
(***************************************************************************)
AnswersFenced ==
  /\ \A g \in Gens : IF g <= gen THEN born[g] <= origin ELSE entry[g] = {}
  /\ \A c \in Calls :
       /\ prefix[c] <= gen
       /\ pc[c] = "answered" => got[c] >= born[prefix[c]]

\* The inductive invariant.
CacheInv == TypeOK /\ Coalesced /\ FollowersHaveARun /\ GenerationFences /\ AnswersFenced

\* A follower is served or re-runs on its own, whatever becomes of its leader,
\* unless some claim is deserted for one of those two reasons.
FollowersProceed ==
  \A c \in Calls :
    pc[c] = "waiting" ~>
      pc[c] # "waiting" \/ Deserted \cap (Abandoning \cup StoreFailing) # {}

\* "Failure is not shared - waiters re-run on their own": nobody waits for ever.
WaitersNeverStranded == \A c \in Calls : pc[c] = "waiting" ~> pc[c] # "waiting"
================================================================================
