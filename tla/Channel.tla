------------------------------- MODULE Channel -------------------------------
(***************************************************************************)
(* One end of a postMessage channel (makeChannel) as its `request` and     *)
(* `events` surfaces use it, and the peer at the other end.                *)
(*                                                                         *)
(* Every call of a surface's execute is named by the id it mints (events   *)
(* mints none, the name stands for its stream).  A payload is the id of    *)
(* the request it answers, an event its number.  Messages overtake each    *)
(* other, and nothing says that one arrives, that the peer has a responder *)
(* for it, or that its handler and the validations let an answer through.  *)
(***************************************************************************)
EXTENDS Naturals, Sequences, FiniteSets

CONSTANTS
  MaxId,     \* bound: calls of execute
  MaxEvent   \* bound: events that arrive

ASSUME ChannelAssumption == MaxId \in Nat /\ MaxEvent \in Nat

Ids == 1..MaxId

VARIABLES
  pending,     \* the in-flight correlations
  promise,     \* where execute's promise, or the stream it gave, stands
  payload,     \* what a request was resolved with
  eventSubs,   \* the streams subscribed to the type
  buffer,      \* what each stream holds for its reader
  delivered,   \* what has been put in it since it was opened
  events,      \* how many events have arrived
  closed,      \* close() was called
  minted,      \* the last id
  asks,        \* requests under way to the peer, or with its responder
  answers      \* answers under way back

peerVars == <<asks, answers>>
streamVars == <<eventSubs, buffer, delivered, events>>
channelVars == <<pending, promise, payload, streamVars, closed, minted, peerVars>>

(***************************************************************************)
(* "waiting"  for a reply;  "replied"                                      *)
(* "failed"   by the attempt's timeout, or by close                        *)
(* "unposted" transport.post threw, which rejected it                      *)
(* "flowing"  a stream that has not ended;  "ended"                        *)
(***************************************************************************)
Promises == {"none", "waiting", "replied", "failed", "unposted", "flowing", "ended"}

ChannelTypeOK ==
  /\ minted \in 0..MaxId /\ events \in 0..MaxEvent /\ closed \in BOOLEAN
  /\ pending \subseteq 1..minted /\ eventSubs \subseteq 1..minted
  /\ promise \in [Ids -> Promises]
  /\ payload \in [Ids -> {0} \cup Ids]
  /\ buffer \in [Ids -> Seq(1..MaxEvent)] /\ delivered \in [Ids -> Seq(1..MaxEvent)]
  /\ asks \cup answers \subseteq 1..minted

ChannelInit ==
  /\ pending = {} /\ eventSubs = {} /\ closed = FALSE
  /\ minted = 0 /\ events = 0
  /\ promise = [id \in Ids |-> "none"]
  /\ payload = [id \in Ids |-> 0]
  /\ buffer = [id \in Ids |-> <<>>]
  /\ delivered = [id \in Ids |-> <<>>]
  /\ asks = {} /\ answers = {}

-------------------------------------------------------------------------------
\* request's execute: register, then post; nothing on a closed channel. If the post
\* throws (no window to resolve, a body that cannot be cloned) the promise is rejected
\* on the spot, which also clears the attempt's timer, and the entry stays.
Request ==
  /\ minted < MaxId
  /\ minted' = minted + 1
  /\ \/ /\ closed
        /\ promise' = [promise EXCEPT ![minted'] = "failed"]
        /\ UNCHANGED <<pending, asks>>
     \/ /\ ~closed
        /\ pending' = pending \cup {minted'}
        /\ \/ /\ promise' = [promise EXCEPT ![minted'] = "waiting"]
              /\ asks' = asks \cup {minted'}
           \/ /\ promise' = [promise EXCEPT ![minted'] = "unposted"]
              /\ UNCHANGED asks
  /\ UNCHANGED <<payload, streamVars, closed, answers>>

\* events' execute: a live stream and its subscription.
Listen ==
  /\ minted < MaxId
  /\ minted' = minted + 1
  /\ promise' = [promise EXCEPT ![minted'] = IF closed THEN "failed" ELSE "flowing"]
  /\ eventSubs' = IF closed THEN eventSubs ELSE eventSubs \cup {minted'}
  /\ UNCHANGED <<pending, payload, buffer, delivered, events, closed, peerVars>>

\* Mutant: a request that times out stays registered.
TimesOutKeepsEntry(id) ==
  /\ id \in pending /\ promise[id] = "waiting"
  /\ promise' = [promise EXCEPT ![id] = "failed"]
  /\ UNCHANGED <<pending, payload, streamVars, closed, minted, peerVars>>

\* Mutant: the entry is gone and the promise is told nothing.
TimesOutSilently(id) ==
  /\ id \in pending /\ promise[id] = "waiting"
  /\ pending' = pending \ {id}
  /\ UNCHANGED <<promise, payload, streamVars, closed, minted, peerVars>>

\* The attempt's timeout aborts the signal: onAbort. A promise that has settled has no
\* timer any more.
TimesOut(id) ==
  /\ id \in pending /\ promise[id] = "waiting"
  /\ pending' = pending \ {id}
  /\ promise' = [promise EXCEPT ![id] = "failed"]
  /\ UNCHANGED <<payload, streamVars, closed, minted, peerVars>>

\* Mutant: whichever request waits for that type takes the reply.
MatchesType(id) == pending

\* The request a reply is for: its type is the one they all wait for, its id decides.
Matches(id) == pending \cap {id}

\* The demux gets a reply; one that matches nothing is dropped.
GetsReply(id) ==
  /\ id \in answers /\ ~closed
  /\ answers' = answers \ {id}
  /\ IF Matches(id) = {}
       THEN UNCHANGED <<pending, promise, payload>>
       ELSE \E r \in Matches(id) :
              /\ pending' = pending \ {r}
              /\ promise' = [promise EXCEPT ![r] = "replied"]
              /\ payload' = [payload EXCEPT ![r] = id]
  /\ UNCHANGED <<streamVars, closed, minted, asks>>

\* It gets an event: every subscription is given it; without one nothing happens.
GetsEvent ==
  /\ events < MaxEvent /\ ~closed /\ eventSubs # {}
  /\ events' = events + 1
  /\ buffer' = [id \in Ids |-> IF id \in eventSubs THEN Append(buffer[id], events')
                               ELSE buffer[id]]
  /\ delivered' = [id \in Ids |-> IF id \in eventSubs THEN Append(delivered[id], events')
                                  ELSE delivered[id]]
  /\ UNCHANGED <<pending, promise, payload, eventSubs, closed, minted, peerVars>>

\* Mutant: the streams are ended, what they hold is gone.
BuffersDropped == [id \in Ids |-> IF promise[id] = "flowing" THEN <<>> ELSE buffer[id]]

\* controller.close leaves a stream's queue to its reader.
BuffersLeft == buffer

\* close(): the listener is detached, the requests that wait are rejected, streams
\* ended.
Close ==
  /\ ~closed
  /\ closed' = TRUE
  /\ pending' = {}
  /\ promise' = [id \in Ids |-> IF id \in pending /\ promise[id] = "waiting" THEN "failed"
                                ELSE IF id \in eventSubs THEN "ended" ELSE promise[id]]
  /\ buffer' = BuffersLeft
  /\ eventSubs' = {}
  /\ UNCHANGED <<payload, delivered, events, minted, peerVars>>

-------------------------------------------------------------------------------
\* The peer's `answer` posts the reply to a request.
Answers(id) ==
  /\ id \in asks
  /\ asks' = asks \ {id}
  /\ answers' = answers \cup {id}
  /\ UNCHANGED <<pending, promise, payload, streamVars, closed, minted>>

ChannelStep ==
  \/ \E id \in Ids : TimesOut(id) \/ GetsReply(id) \/ Answers(id)
  \/ GetsEvent \/ Close

-------------------------------------------------------------------------------
\* Requests that failed before anything was sent.
Unposted == {id \in Ids : promise[id] = "unposted"}

(***************************************************************************)
(* The registry has exactly the requests that are still waiting, and what  *)
(* throwing posts have left in it: a further entry would leak, a missing   *)
(* one would wait for ever; and a closed channel has none, nor a stream    *)
(* that goes on.                                                           *)
(***************************************************************************)
RegistryExact ==
  /\ pending = {id \in Ids : promise[id] = "waiting"} \cup (IF closed THEN {} ELSE Unposted)
  /\ eventSubs = {id \in Ids : promise[id] = "flowing"}
  /\ closed => pending = {} /\ eventSubs = {}

(***************************************************************************)
(* What the registry's comment promises of a channel whose stitches have a *)
(* timeout (here every attempt has one): the timeout bounds the map, an    *)
(* entry is one that a reply, an abort or the timeout will still remove.   *)
(* The code does not keep it when the post throws.                         *)
(***************************************************************************)
TimeoutBoundsRegistry == \A id \in pending : promise[id] = "waiting"

\* A request is resolved by the answer to itself, never to an earlier attempt or
\* another caller: "Match on id AND type".
AnswersMatch == \A id \in Ids : promise[id] = "replied" => payload[id] = id
===============================================================================
