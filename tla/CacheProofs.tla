------------------------------ MODULE CacheProofs ------------------------------
(***************************************************************************)
(* The cache's inductive invariant, for every number of callers,           *)
(* generations and versions: what coalescing guarantees and why a bulk     *)
(* invalidation fences.                                                    *)
(*                                                                         *)
(* Its five parts are proved step by step in three lemmas per action:      *)
(* the types; the claims (Coalesced, FollowersHaveARun); the fence         *)
(* (GenerationFences, AnswersFenced).                                      *)
(***************************************************************************)
EXTENDS Cache, TLAPS

Claims == Coalesced /\ FollowersHaveARun
Fence == GenerationFences /\ AnswersFenced

\* Before the first call.
LEMMA CacheInit == Init => CacheInv
  <1> SUFFICES ASSUME Init
               PROVE  CacheInv
    OBVIOUS
  <1> USE CacheAssumption DEF Init, Gens
  <1>1. TypeOK
    BY DEF TypeOK, Versions, Entries, PCs
  <1>2. Claims
    BY DEF Claims, Coalesced, FollowersHaveARun, Deserted, Leads
  <1>3. Fence
    BY DEF Fence, GenerationFences, AnswersFenced
  <1> QED
    BY <1>1, <1>2, <1>3 DEF CacheInv, Claims, Fence

-------------------------------------------------------------------------------
\* Ending a call keeps the types of its locals.
LEMMA EndTypes ==
  ASSUME TypeOK, NEW c \in Calls, End(c)
  PROVE  /\ pc' \in [Calls -> PCs]
         /\ boss' \in [Calls -> Calls \cup {NoCall}]
         /\ prefix' \in [Calls -> Gens]
         /\ got' \in [Calls -> Versions]
  BY CacheAssumption DEF End, Goto, TypeOK, PCs, Gens, Versions

\* Ending a claim keeps the coalescer's types.
LEMMA EndClaimTypes ==
  ASSUME TypeOK, NEW c \in Calls, NEW how \in {"settled", "failed"}, EndClaim(c, how)
  PROVE  /\ claim' \in [Calls -> {"none", "pending", "settled", "failed"}]
         /\ flight' \in Calls \cup {NoCall}
  BY DEF EndClaim, TypeOK

\* The steps of one call keep the types.
LEMMA CallTypes ==
  ASSUME TypeOK, NEW c \in Calls,
         Open(c) \/ CallStep(c) \/ StoreRejects(c) \/ Abandon(c)
  PROVE  TypeOK'
  <1> USE DEF TypeOK, Goto, PCs
  <1>1. CASE Open(c)
    BY <1>1 DEF Open
  <1>2. CASE Lookup(c)
    <2>1. CASE End(c) /\ UNCHANGED claim
      BY <1>2, <2>1, EndTypes DEF Lookup
    <2>2. CASE ~(End(c) /\ UNCHANGED claim)
      BY <1>2, <2>2 DEF Lookup, callVars
    <2> QED
      BY <2>1, <2>2
  <1>3. CASE DeleteStale(c)
    BY <1>3 DEF DeleteStale, callVars, Entries
  <1>4. CASE Join(c)
    BY <1>4 DEF Join
  <1>5. CASE Answer(c)
    BY <1>5 DEF Answer
  <1>6. CASE Store(c)
    BY <1>6 DEF Store, callVars, Entries
  <1>7. CASE Settle(c)
    BY <1>7, EndTypes, EndClaimTypes DEF Settle
  <1>8. CASE Fail(c)
    BY <1>8, EndTypes, EndClaimTypes DEF Fail
  <1>9. CASE Follow(c)
    <2>1. CASE End(c) /\ UNCHANGED claim
      BY <1>9, <2>1, EndTypes DEF Follow
    <2>2. CASE ~(End(c) /\ UNCHANGED claim)
      BY <1>9, <2>2 DEF Follow, callVars
    <2> QED
      BY <2>1, <2>2
  <1>10. CASE StoreRejects(c) \/ Abandon(c)
    BY <1>10, EndTypes DEF StoreRejects, Abandon
  <1> QED
    BY <1>1, <1>2, <1>3, <1>4, <1>5, <1>6, <1>7, <1>8, <1>9, <1>10 DEF CallStep

\* The steps outside the calls keep the types.
LEMMA WorldTypes ==
  ASSUME TypeOK, Invalidate \/ Drop \/ Change
  PROVE  TypeOK'
  <1> USE CacheAssumption DEF TypeOK, Gens, Versions, callVars
  <1>1. CASE Invalidate
    BY <1>1 DEF Invalidate
  <1>2. CASE Drop
    BY <1>2 DEF Drop, Entries
  <1>3. CASE Change
    BY <1>3 DEF Change
  <1> QED
    BY <1>1, <1>2, <1>3

-------------------------------------------------------------------------------
\* A call that moves on, but not to follow, leaves the claims as they are, if it
\* does not turn its back on one of its own.
LEMMA MovesOn ==
  ASSUME TypeOK, Claims, NEW c \in Calls, UNCHANGED <<flight, claim>>,
         \A e \in Calls \ {c} : pc'[e] = pc[e] /\ boss'[e] = boss[e],
         pc'[c] # "waiting",
         \/ ~Leads(c) \/ c \notin Runners \/ c \in Runners'
         \/ c \in Abandoning \cup StoreFailing
  PROVE  Claims'
  <1>1. (\A e \in Calls : Leads(e) <=> flight = e)'
    BY DEF Claims, Coalesced, Leads
  <1>2. (Deserted \subseteq Abandoning \cup StoreFailing)'
    <2> SUFFICES ASSUME NEW e \in Calls, claim[e] = "pending", e \notin Runners'
                 PROVE  e \in Abandoning \cup StoreFailing
      BY DEF Deserted, Leads
    <2>1. CASE e = c
      BY <2>1 DEF Claims, Coalesced, Deserted, Leads
    <2>2. CASE e # c
      <3>1. e \notin Runners
        BY <2>2 DEF Runners
      <3> QED
        BY <3>1 DEF Claims, Coalesced, Deserted, Leads
    <2> QED
      BY <2>1, <2>2
  <1>3. FollowersHaveARun'
    BY DEF Claims, FollowersHaveARun
  <1> QED
    BY <1>1, <1>2, <1>3 DEF Claims, Coalesced

\* A call that is over, its claim ended if it had one, leaves the others' claims
\* as they are.
LEMMA ClaimEnds ==
  ASSUME TypeOK, Claims, NEW c \in Calls, NEW how \in {"settled", "failed"}, End(c),
         IF Leads(c) THEN EndClaim(c, how) ELSE UNCHANGED <<claim, flight>>
  PROVE  Claims'
  <1> USE CacheAssumption DEF TypeOK
  <1>1. /\ pc' = [pc EXCEPT ![c] = "idle"]
        /\ \A e \in Calls \ {c} : boss'[e] = boss[e]
    BY DEF End, Goto
  <1>2. CASE ~Leads(c)
    BY <1>1, <1>2, MovesOn
  <1>3. CASE Leads(c)
    <2>1. /\ claim' = [claim EXCEPT ![c] = how] /\ flight' = NoCall
          /\ \A e \in Calls \ {c} : claim[e] # "pending"
      BY <1>3 DEF EndClaim, Claims, Coalesced, Leads
    <2>2. \A e \in Calls : claim'[e] # "pending"
      BY <2>1
    <2>3. Coalesced'
      BY <2>1, <2>2 DEF Coalesced, Deserted, Leads
    <2>4. FollowersHaveARun'
      BY <1>1, <2>1 DEF Claims, FollowersHaveARun
    <2> QED
      BY <2>3, <2>4 DEF Claims
  <1> QED
    BY <1>2, <1>3

\* The steps of one call keep the claims in order.
LEMMA CallClaims ==
  ASSUME TypeOK, Claims, NEW c \in Calls,
         Open(c) \/ CallStep(c) \/ StoreRejects(c) \/ Abandon(c)
  PROVE  Claims'
  <1> USE CacheAssumption DEF TypeOK
  <1>1. CASE Open(c)
    <2>1. /\ pc' = [pc EXCEPT ![c] = "opened"] /\ claim' = [claim EXCEPT ![c] = "none"]
          /\ UNCHANGED <<flight, boss>> /\ ~Leads(c) /\ Followers(c) = {}
      BY <1>1 DEF Open, Goto
    <2>2. Coalesced'
      BY <2>1 DEF Claims, Coalesced, Deserted, Leads, Runners
    <2>3. FollowersHaveARun'
      BY <2>1 DEF Claims, FollowersHaveARun, Followers
    <2> QED
      BY <2>2, <2>3 DEF Claims
  <1>2. CASE Lookup(c) \/ DeleteStale(c)
    <2>1. /\ pc[c] \in {"opened", "stale"}
          /\ UNCHANGED <<flight, claim>>
          /\ \A e \in Calls \ {c} : pc'[e] = pc[e] /\ boss'[e] = boss[e]
          /\ pc'[c] # "waiting"
      BY <1>2 DEF Lookup, DeleteStale, Goto, End, callVars
    <2>2. c \notin Runners
      BY <2>1 DEF Runners
    <2> QED
      BY <2>1, <2>2, MovesOn
  <1>3. CASE Join(c)
    <2>1. CASE flight = NoCall
      <3>1. /\ flight' = c /\ claim' = [claim EXCEPT ![c] = "pending"]
            /\ pc' = [pc EXCEPT ![c] = "running"] /\ boss' = boss
            /\ \A e \in Calls : claim[e] # "pending"
        BY <1>3, <2>1 DEF Join, Goto, Claims, Coalesced, Leads
      <3>2. Coalesced'
        BY <3>1 DEF Coalesced, Deserted, Leads, Runners
      <3>3. FollowersHaveARun'
        BY <3>1 DEF Claims, FollowersHaveARun
      <3> QED
        BY <3>2, <3>3 DEF Claims
    <2>2. CASE flight # NoCall
      <3>1. /\ UNCHANGED <<flight, claim>> /\ boss' = [boss EXCEPT ![c] = flight]
            /\ pc' = [pc EXCEPT ![c] = "waiting"] /\ pc[c] = "missed"
            /\ flight \in Calls /\ claim[flight] = "pending"
        BY <1>3, <2>2 DEF Join, Goto, Claims, Coalesced, Leads
      <3>2. Coalesced'
        <4>1. Deserted' = Deserted
          BY <3>1 DEF Deserted, Leads, Runners
        <4> QED
          BY <3>1, <4>1 DEF Claims, Coalesced, Leads
      <3>3. FollowersHaveARun'
        BY <3>1 DEF Claims, FollowersHaveARun
      <3> QED
        BY <3>2, <3>3 DEF Claims
    <2> QED
      BY <2>1, <2>2
  <1>4. CASE Answer(c) \/ Store(c)
    <2>1. /\ UNCHANGED <<flight, claim, boss>>
          /\ \E l \in {"answered", "stored"} : pc' = [pc EXCEPT ![c] = l]
      BY <1>4 DEF Answer, Store, Goto, callVars
    <2>2. c \in Runners' /\ pc'[c] # "waiting"
      BY <2>1 DEF Runners
    <2>3. \A e \in Calls \ {c} : pc'[e] = pc[e] /\ boss'[e] = boss[e]
      BY <2>1
    <2> QED
      BY <2>1, <2>2, <2>3, MovesOn
  <1>5. CASE Settle(c)
    BY <1>5, ClaimEnds DEF Settle
  <1>6. CASE Fail(c)
    BY <1>6, ClaimEnds DEF Fail
  <1>7. CASE Follow(c)
    <2>1. /\ UNCHANGED <<flight, claim>> /\ pc[c] = "waiting"
          /\ \A e \in Calls \ {c} : pc'[e] = pc[e] /\ boss'[e] = boss[e]
          /\ pc'[c] # "waiting"
      BY <1>7 DEF Follow, End, Goto, callVars
    <2>2. c \notin Runners
      BY <2>1 DEF Runners
    <2> QED
      BY <2>1, <2>2, MovesOn
  <1>8. CASE StoreRejects(c) \/ Abandon(c)
    <2>1. /\ UNCHANGED <<flight, claim>> /\ c \in Abandoning \cup StoreFailing
          /\ \A e \in Calls \ {c} : pc'[e] = pc[e] /\ boss'[e] = boss[e]
          /\ pc'[c] # "waiting"
      BY <1>8 DEF StoreRejects, Abandon, End, Goto
    <2> QED
      BY <2>1, MovesOn
  <1> QED
    BY <1>1, <1>2, <1>3, <1>4, <1>5, <1>6, <1>7, <1>8 DEF CallStep

\* Invalidations, evictions and changes at the origin do not touch the claims.
LEMMA WorldClaims ==
  ASSUME Claims, Invalidate \/ Drop \/ Change
  PROVE  Claims'
  <1>1. UNCHANGED <<flight, claim, boss, pc>>
    BY DEF Invalidate, Drop, Change, callVars
  <1> QED
    BY <1>1 DEF Claims, Coalesced, FollowersHaveARun, Deserted, Leads, Runners

-------------------------------------------------------------------------------
\* The steps of one call keep the fence: what is stored was answered under the
\* generation it is stored under, or later.
LEMMA CallFence ==
  ASSUME TypeOK, Fence, NEW c \in Calls,
         Open(c) \/ CallStep(c) \/ StoreRejects(c) \/ Abandon(c)
  PROVE  Fence'
  <1> USE CacheAssumption DEF TypeOK, Gens, Versions
  <1>1. CASE Open(c)
    BY <1>1 DEF Open, Goto, Fence, GenerationFences, AnswersFenced
  <1>2. CASE DeleteStale(c)
    BY <1>2 DEF DeleteStale, Goto, callVars, Fence, GenerationFences, AnswersFenced
  <1>3. CASE Join(c)
    BY <1>3 DEF Join, Goto, Fence, GenerationFences, AnswersFenced
  <1>4. CASE Answer(c)
    BY <1>4 DEF Answer, Goto, Fence, GenerationFences, AnswersFenced
  <1>5. CASE Store(c)
    <2>1. got[c] >= born[prefix[c]] /\ prefix[c] \in 0..gen
      BY <1>5 DEF Store, Fence, AnswersFenced
    <2>2. GenerationFences'
      <3> SUFFICES ASSUME NEW g \in 0..gen, NEW v \in entry'[g]
                   PROVE  v >= born[g]
        BY <1>5 DEF Store, GenerationFences
      <3>1. CASE v \in entry[g]
        BY <3>1 DEF Fence, GenerationFences
      <3>2. CASE v \notin entry[g]
        <4>1. entry' = [entry EXCEPT ![prefix[c]] = {got[c]}]
          BY <1>5, <3>2 DEF Store
        <4>2. g = prefix[c] /\ v = got[c]
          BY <3>2, <4>1
        <4> QED
          BY <2>1, <4>2
      <3> QED
        BY <3>1, <3>2
    <2>3. AnswersFenced'
      <3>1. \A g \in Gens : g \notin 0..gen => entry'[g] = entry[g]
        BY <1>5, <2>1 DEF Store
      <3>2. /\ UNCHANGED <<origin, gen, prefix, got, born>>
            /\ pc' = [pc EXCEPT ![c] = "stored"]
        BY <1>5 DEF Store, Goto, callVars
      <3>3. (\A g \in Gens : IF g <= gen THEN born[g] <= origin ELSE entry[g] = {})'
        <4> SUFFICES ASSUME NEW g \in Gens
                     PROVE  IF g <= gen THEN born[g] <= origin ELSE entry'[g] = {}
          BY <3>2
        <4>1. CASE g <= gen
          BY <4>1 DEF Fence, AnswersFenced
        <4>2. CASE ~(g <= gen)
          BY <3>1, <4>2 DEF Fence, AnswersFenced
        <4> QED
          BY <4>1, <4>2
      <3>4. (\A e \in Calls : prefix[e] <= gen
                            /\ (pc[e] = "answered" => got[e] >= born[prefix[e]]))'
        BY <3>2 DEF Fence, AnswersFenced
      <3> QED
        BY <3>3, <3>4 DEF AnswersFenced
    <2> QED
      BY <2>2, <2>3 DEF Fence
  <1>6. CASE /\ UNCHANGED <<origin, gen, entry, born>>
             /\ \/ End(c)
                \/ /\ UNCHANGED <<prefix, got>>
                   /\ \E l \in PCs \ {"answered"} : Goto(c, l)
    <2>1. \A e \in Calls : prefix'[e] = prefix[e] \/ prefix'[e] = 0
      BY <1>6 DEF End, Goto
    <2>2. ASSUME NEW e \in Calls, pc'[e] = "answered"
          PROVE  pc[e] = "answered" /\ got'[e] = got[e] /\ prefix'[e] = prefix[e]
      BY <1>6, <2>2 DEF End, Goto
    <2>3. AnswersFenced'
      <3>1. ASSUME NEW e \in Calls
            PROVE  prefix'[e] <= gen /\ (pc'[e] = "answered" => got'[e] >= born[prefix'[e]])
        <4>1. prefix[e] <= gen /\ (pc[e] = "answered" => got[e] >= born[prefix[e]])
          BY DEF Fence, AnswersFenced
        <4>2. 0 <= gen
          OBVIOUS
        <4>3. prefix'[e] <= gen
          BY <2>1, <4>1, <4>2
        <4>4. ASSUME pc'[e] = "answered"
              PROVE  got'[e] >= born[prefix'[e]]
          BY <2>2, <4>1, <4>4
        <4> QED
          BY <4>3, <4>4
      <3>2. \A g \in Gens : IF g <= gen THEN born[g] <= origin ELSE entry[g] = {}
        BY DEF Fence, AnswersFenced
      <3> QED
        BY <1>6, <3>1, <3>2 DEF AnswersFenced
    <2>4. GenerationFences'
      BY <1>6 DEF Fence, GenerationFences
    <2> QED
      BY <2>3, <2>4 DEF Fence
  <1>7. CASE Lookup(c) \/ Follow(c)
    <2>1. UNCHANGED <<origin, gen, entry, born>>
      BY <1>7 DEF Lookup, Follow
    <2>2. End(c) \/ (UNCHANGED <<prefix, got>> /\ \E l \in PCs \ {"answered"} : Goto(c, l))
      BY <1>7 DEF Lookup, Follow, callVars, PCs
    <2> QED
      BY <1>6, <2>1, <2>2
  <1>8. CASE Settle(c) \/ Fail(c) \/ StoreRejects(c) \/ Abandon(c)
    BY <1>6, <1>8 DEF Settle, Fail, StoreRejects, Abandon
  <1> QED
    BY <1>1, <1>2, <1>3, <1>4, <1>5, <1>7, <1>8 DEF CallStep

\* A new generation begins with no entry; the origin's versions only grow.
LEMMA WorldFence ==
  ASSUME TypeOK, Fence, Invalidate \/ Drop \/ Change
  PROVE  Fence'
  <1> USE CacheAssumption DEF TypeOK, Gens, Versions, callVars
  <1>1. CASE Invalidate
    <2>1. gen + 1 \in 0..MaxGen /\ entry[gen + 1] = {}
      BY <1>1 DEF Invalidate, Fence, AnswersFenced
    <2>2. GenerationFences'
      BY <1>1, <2>1 DEF Invalidate, Fence, GenerationFences
    <2>3. AnswersFenced'
      BY <1>1, <2>1 DEF Invalidate, Fence, AnswersFenced
    <2> QED
      BY <2>2, <2>3 DEF Fence
  <1>2. CASE Drop
    BY <1>2 DEF Drop, Fence, GenerationFences, AnswersFenced
  <1>3. CASE Change
    BY <1>3 DEF Change, Fence, GenerationFences, AnswersFenced
  <1> QED
    BY <1>1, <1>2, <1>3

-------------------------------------------------------------------------------
\* Every step keeps the invariant.
LEMMA CacheStep == CacheInv /\ [Next]_vars => CacheInv'
  <1> SUFFICES ASSUME CacheInv, [Next]_vars
               PROVE  CacheInv'
    OBVIOUS
  <1>0. TypeOK /\ Claims /\ Fence
    BY DEF CacheInv, Claims, Fence
  <1>1. ASSUME NEW c \in Calls, Open(c) \/ CallStep(c) \/ StoreRejects(c) \/ Abandon(c)
        PROVE  TypeOK' /\ Claims' /\ Fence'
    BY <1>0, <1>1, CallTypes, CallClaims, CallFence
  <1>2. CASE Invalidate \/ Drop \/ Change
    BY <1>0, <1>2, WorldTypes, WorldClaims, WorldFence DEF CacheInv, Claims, Fence
  <1>3. CASE UNCHANGED vars
    BY <1>3 DEF vars, CacheInv, TypeOK, Coalesced, FollowersHaveARun, Deserted, Leads,
                Runners, GenerationFences, AnswersFenced
  <1> QED
    BY <1>1, <1>2, <1>3 DEF Next, CacheInv, Claims, Fence

\* The invariant, for every number of callers, generations and versions.
THEOREM CacheInvariant == Spec => []CacheInv
  <1> QED
    BY CacheInit, CacheStep, PTL DEF Spec

\* runCached, the coalescer and the store keep their types.
THEOREM CacheTypes == Spec => []TypeOK
  <1>1. CacheInv => TypeOK
    BY DEF CacheInv
  <1> QED
    BY <1>1, CacheInvariant, PTL

\* InflightCoalescer: the run in the map is the one pending claim, and its leader
\* still runs, unless its store rejected or its stream was abandoned.
THEOREM CacheCoalesces == Spec => []Coalesced
  <1>1. CacheInv => Coalesced
    BY DEF CacheInv
  <1> QED
    BY <1>1, CacheInvariant, PTL

\* CacheController.open captures the generation: a run that a bulk invalidation
\* overtakes never writes what the new generation's readers would see.
THEOREM CacheFences == Spec => []GenerationFences
  <1>1. CacheInv => GenerationFences
    BY DEF CacheInv
  <1> QED
    BY <1>1, CacheInvariant, PTL
===============================================================================
