----------------------------- MODULE LeaseThrottle -----------------------------
(***************************************************************************)
(* Fleet-wide concurrency: createStoreThrottle of several workers over one *)
(* store with the lease pair, for one key.                                 *)
(*                                                                         *)
(* lease and release are atomic in the store.  Their request and their     *)
(* reply are not: a granted token reaches the worker's list in a later     *)
(* step, and a release is sent without waiting for it.  Time is in ticks;  *)
(* a lease that has run for Lease ticks has lapsed, whoever prunes it.     *)
(* Abandoned waits are EngineSlots' subject and left out here.             *)
(***************************************************************************)
EXTENDS Naturals, Sequences, FiniteSets

CONSTANTS
  Calls,         \* the callers
  Workers,       \* the processes
  WorkerOf,      \* the process each caller runs in
  Tokens,        \* bound: tokens around at a time
  NoToken,       \* no token
  Limit,         \* opts.concurrency
  Lease,         \* opts.lease, in ticks
  MaxHold,       \* the longest a call has its slot, in ticks: timeout.total
  Crashing,      \* the workers that may crash
  ReleaseLost,   \* a release may get lost on its way
  ReserveFails   \* store.reserve may reject

ASSUME LeaseAssumption ==
  /\ IsFiniteSet(Calls)
  /\ WorkerOf \in [Calls -> Workers]
  /\ Tokens \subseteq Nat /\ IsFiniteSet(Tokens) /\ NoToken \notin Tokens
  /\ Limit \in Nat \ {0} /\ Lease \in Nat \ {0} /\ MaxHold \in Nat
  /\ Crashing \subseteq Workers
  /\ ReleaseLost \in BOOLEAN
  /\ ReserveFails \in BOOLEAN

VARIABLES
  left,      \* the store: ticks each token has left, 0 if it is not held
  tokens,    \* s.tokens of each worker, newest last
  freeing,   \* releases on their way to the store
  up,        \* the workers that have not crashed
  pc,        \* where each call stands
  tok,       \* the token its takeLease minted
  held       \* ticks since the store granted it

vars == <<left, tokens, freeing, up, pc, tok, held>>

(***************************************************************************)
(* "idle"      no call                                                     *)
(* "polling"   in the loop of takeLease                                    *)
(* "leased"    the store has granted; the reply is on its way              *)
(* "pacing"    the token is in the list; the rate part awaits the store    *)
(* "holding"   the call has its slot                                       *)
(***************************************************************************)
PCs == {"idle", "polling", "leased", "pacing", "holding"}

Timed == {c \in Calls : pc[c] \in {"leased", "pacing", "holding"}}

Live == {t \in Tokens : left[t] > 0}

InSeq(t, s) == \E i \in 1..Len(s) : s[i] = t

TypeOK ==
  /\ left \in [Tokens -> 0..Lease]
  /\ tokens \in [Workers -> Seq(Tokens)]
  /\ freeing \subseteq Tokens
  /\ up \subseteq Workers
  /\ pc \in [Calls -> PCs]
  /\ tok \in [Calls -> Tokens \cup {NoToken}]
  /\ held \in [Calls -> 0..MaxHold]

Init ==
  /\ left = [t \in Tokens |-> 0]
  /\ tokens = [w \in Workers |-> <<>>]
  /\ freeing = {}
  /\ up = Workers
  /\ pc = [c \in Calls |-> "idle"]
  /\ tok = [c \in Calls |-> NoToken]
  /\ held = [c \in Calls |-> 0]

Goto(c, label) == pc' = [pc EXCEPT ![c] = label]

\* The calls in D are over, and their locals with them.
EndCalls(D) ==
  /\ pc' = [c \in Calls |-> IF c \in D THEN "idle" ELSE pc[c]]
  /\ tok' = [c \in Calls |-> IF c \in D THEN NoToken ELSE tok[c]]
  /\ held' = [c \in Calls |-> IF c \in D THEN 0 ELSE held[c]]

\* Tokens that hex(8) may mint: none that is still about.
Fresh ==
  {t \in Tokens \ (Live \cup freeing) :
     /\ \A c \in Calls : tok[c] # t
     /\ \A w \in Workers : ~InSeq(t, tokens[w])}

--------------------------------------------------------------------------------
\* takeLease mints its token.
Begin(c) ==
  /\ WorkerOf[c] \in up /\ pc[c] = "idle"
  /\ \E t \in Fresh :
       /\ \A u \in Fresh : t <= u
       /\ tok' = [tok EXCEPT ![c] = t]
  /\ Goto(c, "polling")
  /\ UNCHANGED <<left, tokens, freeing, up, held>>

\* Mutant: the check lets one holder too many in.
PollOffByOne(c) ==
  /\ pc[c] = "polling"
  /\ Cardinality(Live) <= Limit
  /\ left' = [left EXCEPT ![tok[c]] = Lease]
  /\ Goto(c, "leased")
  /\ UNCHANGED <<tokens, freeing, up, tok, held>>

\* Mutant: a lease counts up to and with its last instant (`<` for `<=`).
PollExpiresLate(c) ==
  /\ pc[c] = "polling"
  /\ Cardinality(Live) < Limit
  /\ left' = [left EXCEPT ![tok[c]] = Lease + 1]
  /\ Goto(c, "leased")
  /\ UNCHANGED <<tokens, freeing, up, tok, held>>

\* store.lease: lapsed holders do not count; with a place left the token takes it.
\* A refused poll changes nothing: the caller sleeps and asks again.
Poll(c) ==
  /\ pc[c] = "polling"
  /\ Cardinality(Live) < Limit
  /\ left' = [left EXCEPT ![tok[c]] = Lease]
  /\ Goto(c, "leased")
  /\ UNCHANGED <<tokens, freeing, up, tok, held>>

\* Mutant: the state object was looked up before the poll, and a release that took
\* the last token has dropped it since.
RememberOnOrphan(c) ==
  /\ pc[c] = "leased"
  /\ \/ tokens' = [tokens EXCEPT ![WorkerOf[c]] = Append(@, tok[c])]
     \/ tokens[WorkerOf[c]] = <<>> /\ UNCHANGED tokens
  /\ Goto(c, "pacing")
  /\ UNCHANGED <<left, freeing, up, tok, held>>

\* The reply: the token is pushed, and store.reserve is asked if a rate is set.
Remember(c) ==
  /\ pc[c] = "leased"
  /\ tokens' = [tokens EXCEPT ![WorkerOf[c]] = Append(@, tok[c])]
  /\ Goto(c, "pacing")
  /\ UNCHANGED <<left, freeing, up, tok, held>>

\* The rate part is over: acquire resolves.
Granted(c) ==
  /\ pc[c] = "pacing"
  /\ Goto(c, "holding")
  /\ UNCHANGED <<left, tokens, freeing, up, tok, held>>

\* store.reserve rejects, and so does acquire; nothing is given back. (The list
\* then keeps the token for good: Fresh bounds how often this happens.)
ReserveRejects(c) ==
  /\ ReserveFails /\ Fresh # {}
  /\ pc[c] = "pacing"
  /\ EndCalls({c})
  /\ UNCHANGED <<left, tokens, freeing, up>>

\* release(key): the newest token the worker holds is popped and its release sent.
Release(w) ==
  /\ freeing' = freeing \cup {tokens[w][Len(tokens[w])]}
  /\ tokens' = [tokens EXCEPT ![w] = SubSeq(@, 1, Len(@) - 1)]

\* The call is over.
End(c) ==
  /\ pc[c] = "holding"
  /\ Release(WorkerOf[c])
  /\ EndCalls({c})
  /\ UNCHANGED <<left, up>>

\* store.release takes effect, or is lost.
Free(t) ==
  /\ t \in freeing
  /\ freeing' = freeing \ {t}
  /\ left' = [left EXCEPT ![t] = 0]
  /\ UNCHANGED <<tokens, up, pc, tok, held>>

Lose(t) ==
  /\ ReleaseLost
  /\ t \in freeing
  /\ freeing' = freeing \ {t}
  /\ UNCHANGED <<left, tokens, up, pc, tok, held>>

\* A worker goes down with its memory; the store keeps its leases.
Crash(w) ==
  /\ w \in Crashing \cap up
  /\ up' = up \ {w}
  /\ tokens' = [tokens EXCEPT ![w] = <<>>]
  /\ EndCalls({c \in Calls : WorkerOf[c] = w})
  /\ UNCHANGED <<left, freeing>>

\* Mutant: lapsed holders are not pruned.
TickWithoutPrune ==
  /\ \A c \in Timed : held[c] < MaxHold
  /\ held' = [c \in Calls |-> IF c \in Timed THEN held[c] + 1 ELSE held[c]]
  /\ held # held'
  /\ UNCHANGED <<left, tokens, freeing, up, pc, tok>>

\* The clock. A call ends, one way or the other, before it has held for longer
\* than MaxHold.
Tick ==
  /\ \A c \in Timed : held[c] < MaxHold
  /\ left' = [t \in Tokens |-> IF left[t] > 0 THEN left[t] - 1 ELSE 0]
  /\ held' = [c \in Calls |-> IF c \in Timed THEN held[c] + 1 ELSE held[c]]
  /\ left # left' \/ held # held'
  /\ UNCHANGED <<tokens, freeing, up, pc, tok>>

--------------------------------------------------------------------------------
Next ==
  \/ \E c \in Calls :
       \/ Begin(c) \/ Poll(c) \/ Remember(c) \/ Granted(c)
       \/ ReserveRejects(c) \/ End(c)
  \/ \E t \in Tokens : Free(t) \/ Lose(t)
  \/ \E w \in Workers : Crash(w)
  \/ Tick

Spec == Init /\ [][Next]_vars

\* The clock runs, replies come, calls end, and a caller in the loop asks again
\* after its jitter.  Which of several pollers finds the free slot is luck.
FairSpec ==
  /\ Spec
  /\ WF_vars(Tick)
  /\ \A c \in Calls :
       WF_vars(Poll(c) \/ Remember(c) \/ Granted(c) \/ ReserveRejects(c) \/ End(c))

--------------------------------------------------------------------------------
Holders == {c \in Calls : pc[c] = "holding"}

\* The holders whose own token is still in their worker's list.
OwnHolders == {c \in Holders : InSeq(tok[c], tokens[WorkerOf[c]])}

(***************************************************************************)
(* However workers crash and releases are lost, no more than Limit calls   *)
(* hold a slot under the lease they took themselves, since none of them    *)
(* runs for as long as a lease.  A call whose lease was released for       *)
(* another call of its worker (release pops the newest) is left out.       *)
(***************************************************************************)
OwnLeasesAdmission == Cardinality(OwnHolders) <= Limit

(***************************************************************************)
(* "a lease comfortably above timeout.total cannot be outlived": the same  *)
(* for every call that holds a slot.                                       *)
(***************************************************************************)
FleetAdmission == Cardinality(Holders) <= Limit

(***************************************************************************)
(* A worker remembers a token for each of its acquires that has yet to     *)
(* release one, so no release finds the list empty.                        *)
(***************************************************************************)
LeasesRemembered ==
  \A w \in Workers :
    Cardinality({c \in Calls : WorkerOf[c] = w /\ pc[c] \in {"pacing", "holding"}})
      <= Len(tokens[w])

(***************************************************************************)
(* Whose a token is: one call's, one place in one list, or one release's,  *)
(* and never two of these that would not belong together.                  *)
(***************************************************************************)
TokensApart ==
  /\ \A c \in Calls : pc[c] = "idle" <=> tok[c] = NoToken
  /\ \A c, e \in Calls : tok[c] = tok[e] /\ tok[c] # NoToken => c = e
  /\ \A w, x \in Workers : \A i \in 1..Len(tokens[w]), j \in 1..Len(tokens[x]) :
       tokens[w][i] = tokens[x][j] => w = x /\ i = j
  /\ \A w \in Workers : \A i \in 1..Len(tokens[w]) : tokens[w][i] \notin freeing
  /\ \A c \in Calls : pc[c] \in {"polling", "leased"} =>
       tok[c] \notin freeing /\ \A w \in Workers : ~InSeq(tok[c], tokens[w])

\* A lease that nobody has released lasts for Lease ticks from its grant.
LeasesLast ==
  \A c \in Timed :
    pc[c] = "leased" \/ InSeq(tok[c], tokens[WorkerOf[c]]) => left[tok[c]] + held[c] >= Lease

\* The inductive invariant.
LeaseInv ==
  TypeOK /\ TokensApart /\ LeasesLast /\ LeasesRemembered /\ Cardinality(Live) <= Limit

(***************************************************************************)
(* The fleet never stalls: while somebody polls, a slot is granted to one  *)
(* of the pollers in the end, though crashed workers and lost releases     *)
(* gave nothing back.                                                      *)
(***************************************************************************)
Polling == \E c \in Calls : pc[c] = "polling"
FleetProgress == Polling ~> (\E c \in Calls : pc[c] = "leased") \/ ~Polling
================================================================================
