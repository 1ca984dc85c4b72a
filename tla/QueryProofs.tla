----------------------------- MODULE QueryProofs ----------------------------
(* What holds of a query over a channel for every number of runs, attempts,  *)
(* listeners and events.                                                     *)
EXTENDS QueryRun, SequenceTheorems, TLAPS

LEMMA Bounds ==
  MaxId \in Nat /\ MaxEvent \in Nat /\ MaxToken \in Nat /\ Attempts \in Nat /\ Attempts > 0
BY ChannelAssumption, QueryAssumption

-------------------------------------------------------------------------------
(* A frame that has been taken off the stack, or put on it, moves the others. *)
Has(s, P) == \E i \in 1..Len(s) : s[i] \in P

LEMMA HasConcat ==
  ASSUME NEW S, NEW s \in Seq(S), NEW t \in Seq(S), NEW P
  PROVE  Has(s \o t, P) <=> Has(s, P) \/ Has(t, P)
<1>1. /\ Len(s \o t) = Len(s) + Len(t) /\ Len(s) \in Nat /\ Len(t) \in Nat
      /\ \A i \in 1..Len(s) : (s \o t)[i] = s[i]
      /\ \A i \in 1..Len(t) : (s \o t)[Len(s) + i] = t[i]
  OBVIOUS
<1>2. ASSUME NEW i \in 1..Len(s \o t), (s \o t)[i] \in P
      PROVE  Has(s, P) \/ Has(t, P)
  <2>1. CASE i <= Len(s)
    BY <1>1, <1>2, <2>1 DEF Has
  <2>2. CASE i > Len(s)
    <3>1. i - Len(s) \in 1..Len(t) /\ Len(s) + (i - Len(s)) = i
      BY <1>1, <2>2
    <3>2. t[i - Len(s)] \in P
      BY <1>1, <1>2, <3>1
    <3> QED BY <3>1, <3>2 DEF Has
  <2> QED BY <1>1, <2>1, <2>2
<1>3. ASSUME NEW i \in 1..Len(s), s[i] \in P
      PROVE  Has(s \o t, P)
  <2>1. i \in 1..Len(s \o t) /\ (s \o t)[i] \in P
    BY <1>1, <1>3
  <2> QED BY <2>1 DEF Has
<1>4. ASSUME NEW i \in 1..Len(t), t[i] \in P
      PROVE  Has(s \o t, P)
  <2>1. Len(s) + i \in 1..Len(s \o t) /\ (s \o t)[Len(s) + i] \in P
    BY <1>1, <1>4
  <2> QED BY <2>1 DEF Has
<1> QED BY <1>2, <1>3, <1>4 DEF Has

LEMMA HasTail ==
  ASSUME NEW S, NEW s \in Seq(S), s # <<>>, NEW P
  PROVE  /\ Tail(s) \in Seq(S) /\ Head(s) \in S
         /\ Has(s, P) <=> Head(s) \in P \/ Has(Tail(s), P)
<1>1. /\ Len(s) \in Nat /\ Len(s) > 0 /\ Len(Tail(s)) = Len(s) - 1
      /\ Head(s) = s[1] /\ Head(s) \in S /\ Tail(s) \in Seq(S)
      /\ \A i \in 1..Len(Tail(s)) : Tail(s)[i] = s[i + 1]
  OBVIOUS
<1>2. ASSUME NEW i \in 1..Len(s), s[i] \in P
      PROVE  Head(s) \in P \/ Has(Tail(s), P)
  <2>1. CASE i = 1
    BY <1>1, <1>2, <2>1
  <2>2. CASE i # 1
    <3>1. i - 1 \in 1..Len(Tail(s)) /\ (i - 1) + 1 = i
      BY <1>1, <2>2
    <3>2. Tail(s)[i - 1] \in P
      BY <1>1, <1>2, <3>1
    <3> QED BY <3>1, <3>2 DEF Has
  <2> QED BY <2>1, <2>2
<1>3. ASSUME NEW i \in 1..Len(Tail(s)), Tail(s)[i] \in P
      PROVE  Has(s, P)
  <2>1. i + 1 \in 1..Len(s) /\ s[i + 1] \in P
    BY <1>1, <1>3
  <2> QED BY <2>1 DEF Has
<1>4. Head(s) \in P => Has(s, P)
  <2>1. 1 \in 1..Len(s)
    BY <1>1
  <2> QED BY <1>1, <2>1 DEF Has
<1> QED BY <1>1, <1>2, <1>3, <1>4 DEF Has

LEMMA HasFew ==
  ASSUME NEW a, NEW b, NEW P
  PROVE  /\ ~Has(<<>>, P)
         /\ Has(<<a>>, P) <=> a \in P
         /\ Has(<<a, b>>, P) <=> a \in P \/ b \in P
<1>1. Len(<<>>) = 0 /\ Len(<<a>>) = 1 /\ Len(<<a, b>>) = 2
  OBVIOUS
<1>2. <<a>>[1] = a /\ <<a, b>>[1] = a /\ <<a, b>>[2] = b
  OBVIOUS
<1>3. 1..0 = {} /\ 1..1 = {1} /\ 1..2 = {1, 2}
  OBVIOUS
<1> QED BY <1>1, <1>2, <1>3 DEF Has

LEMMA HasSubset ==
  ASSUME NEW s, NEW P, NEW Q, Has(s, P), \A i \in 1..Len(s) : s[i] \in P => s[i] \in Q
  PROVE  Has(s, Q)
BY DEF Has

LEMMA FramesConcat ==
  \A s, t \in Seq(Frames) : \A P : Has(s \o t, P) <=> Has(s, P) \/ Has(t, P)
BY HasConcat

LEMMA FramesTyped ==
  /\ \A t \in Tokens : Launch(t) \in Frames
  /\ Callback \in Frames /\ User \in Frames
  /\ \A left \in SUBSET Listeners : [op |-> "notify", left |-> left] \in Frames
BY DEF Frames, Launch, Callback, User

-------------------------------------------------------------------------------
(* The channel's steps keep its types, and its registry exact.               *)
ChannelInv == ChannelTypeOK /\ RegistryExact /\ AnswersMatch

LEMMA MintKeeps ==
  ASSUME ChannelInv, Request \/ Listen
  PROVE  ChannelInv' /\ minted' = minted + 1 /\ minted' \in Ids
<1> USE Bounds DEF ChannelInv, ChannelTypeOK, Ids, Promises
<1>1. minted' = minted + 1 /\ minted' \in Ids /\ minted' \in 0..MaxId
      /\ 1..minted' = 1..minted \cup {minted'}
      /\ minted' \notin 1..minted
  BY DEF Request, Listen
<1>2. ChannelTypeOK'
  <2>1. CASE Request
    <3>1. promise' \in [Ids -> Promises]
      BY <1>1, <2>1 DEF Request
    <3>2. pending' \subseteq pending \cup {minted'} /\ asks' \subseteq asks \cup {minted'}
      BY <2>1 DEF Request
    <3>3. UNCHANGED <<payload, eventSubs, buffer, delivered, events, closed, answers>>
      BY <2>1 DEF Request, streamVars
    <3> QED BY <1>1, <3>1, <3>2, <3>3
  <2>2. CASE Listen
    BY <1>1, <2>2 DEF Listen, peerVars
  <2> QED BY <2>1, <2>2
<1>3. AnswersMatch'
  BY <1>1 DEF Request, Listen, streamVars, peerVars, AnswersMatch
<1>4. RegistryExact'
  <2>1. CASE Request
    <3>1. UNCHANGED <<eventSubs, closed>>
      BY <2>1 DEF Request, streamVars
    <3>2. CASE closed
      <4>1. promise' = [promise EXCEPT ![minted'] = "failed"] /\ pending' = pending
        BY <2>1, <3>2 DEF Request
      <4> QED BY <1>1, <3>1, <3>2, <4>1 DEF RegistryExact, Unposted
    <3>3. CASE ~closed
      <4>1. /\ pending' = pending \cup {minted'}
            /\ \/ promise' = [promise EXCEPT ![minted'] = "waiting"]
               \/ promise' = [promise EXCEPT ![minted'] = "unposted"]
        BY <2>1, <3>3 DEF Request
      <4>2. pending' = {id \in Ids : promise'[id] = "waiting"}
                         \cup {id \in Ids : promise'[id] = "unposted"}
        BY <1>1, <3>3, <4>1 DEF RegistryExact, Unposted
      <4>3. eventSubs = {id \in Ids : promise'[id] = "flowing"}
        BY <1>1, <4>1 DEF RegistryExact
      <4> QED BY <3>1, <3>3, <4>2, <4>3 DEF RegistryExact, Unposted
    <3> QED BY <3>2, <3>3
  <2>2. CASE Listen
    BY <1>1, <2>2 DEF Listen, RegistryExact, Unposted
  <2> QED BY <2>1, <2>2
<1> QED BY <1>1, <1>2, <1>3, <1>4

LEMMA ChannelStepKeeps ==
  ASSUME ChannelInv, ChannelStep
  PROVE  ChannelInv'
<1> USE Bounds DEF ChannelInv, ChannelTypeOK, Ids, Promises, RegistryExact, Unposted,
                      AnswersMatch
<1>1. ASSUME NEW id \in Ids, TimesOut(id)
      PROVE  ChannelInv'
  BY <1>1 DEF TimesOut, streamVars, peerVars
<1>2. ASSUME NEW id \in Ids, GetsReply(id)
      PROVE  ChannelInv'
  <2>1. CASE id \notin pending
    BY <1>2, <2>1 DEF GetsReply, Matches, streamVars
  <2>2. CASE id \in pending
    <3>1. /\ pending' = pending \ {id}
          /\ promise' = [promise EXCEPT ![id] = "replied"]
          /\ payload' = [payload EXCEPT ![id] = id]
          /\ answers' = answers \ {id}
          /\ UNCHANGED <<streamVars, closed, minted, asks>>
      BY <1>2, <2>2 DEF GetsReply, Matches
    <3> QED BY <2>2, <3>1 DEF streamVars
  <2> QED BY <2>1, <2>2
<1>3. ASSUME NEW id \in Ids, Answers(id)
      PROVE  ChannelInv'
  BY <1>3 DEF Answers, streamVars
<1>4. CASE GetsEvent
  <2>1. events' \in 1..MaxEvent /\ events' \in 0..MaxEvent
    BY <1>4 DEF GetsEvent
  <2>2. \A q \in Seq(1..MaxEvent) : Append(q, events') \in Seq(1..MaxEvent)
    BY <2>1
  <2>3. buffer' \in [Ids -> Seq(1..MaxEvent)] /\ delivered' \in [Ids -> Seq(1..MaxEvent)]
    BY <1>4, <2>2 DEF GetsEvent
  <2> QED BY <1>4, <2>1, <2>3 DEF GetsEvent, peerVars
<1>5. CASE Close
  BY <1>5 DEF Close, BuffersLeft, peerVars
<1> QED BY <1>1, <1>2, <1>3, <1>4, <1>5 DEF ChannelStep

-------------------------------------------------------------------------------
(* The query's own types, and what strengthens the properties.               *)
QueryTypeOK ==
  /\ streaming \in BOOLEAN /\ destroyed \in BOOLEAN
  /\ runToken \in 0..MaxToken /\ wanted \in 0..runToken
  /\ state.status \in Statuses /\ state.run \in 0..runToken
  /\ listeners \subseteq Listeners /\ stack \in Seq(Frames)
  /\ run \in [Tokens -> Runs]
  /\ tries \in [Tokens -> 0..Attempts]
  /\ call \in [Tokens -> {0} \cup Ids]

LEMMA Types == TypeOK <=> ChannelTypeOK /\ QueryTypeOK
BY DEF TypeOK, QueryTypeOK

\* A token that was not given out has no run.
Unstarted == \A t \in Tokens : t > runToken => run[t] = "none"

\* An attempt is executed only while there is one left.
TriesLeft == \A t \in Tokens : run[t] \in {"none", "launching", "calling"} => tries[t] < Attempts

\* start is under way only for a run that has not gone beyond its first attempt.
Strays == {f \in Frames : f.op = "launch" /\ run[f.run] \notin {"launching", "calling"}}
Launching == ~Has(stack, Strays)

\* A run that may publish is the one that was asked for.
Wanting == \A t \in Tokens : run[t] # "none" /\ Current(t) => wanted = t

\* A listener that has not seen the snapshot is still to be told of it.
Telling(l) == {f \in Frames : f.op = "notify" /\ l \in f.left}
ToldLater ==
  /\ seen = [l \in Listeners |-> seen[l]]
  /\ \A l \in listeners : seen[l] = state \/ Has(stack, Telling(l))

QueryInv ==
  ChannelInv /\ QueryTypeOK /\ Unstarted /\ TriesLeft /\ Launching /\ Wanting /\ ToldLater

LEMMA UserStack ==
  ASSUME stack \in Seq(Frames), UserRuns
  PROVE  /\ AfterCallback \in Seq(Frames)
         /\ \A l : Has(stack, Telling(l)) => Has(AfterCallback, Telling(l))
         /\ \A P : Has(AfterCallback, P) => Has(stack, P)
<1>1. CASE stack = <<>>
  <2>1. AfterCallback = stack
    BY <1>1 DEF AfterCallback, Quiet
  <2> QED BY <2>1
<1>2. CASE stack # <<>>
  <2>1. AfterCallback = Tail(stack) /\ Head(stack).op = "user"
    BY <1>2 DEF AfterCallback, UserRuns, Innermost, Quiet
  <2>2. \A l : Head(stack) \notin Telling(l)
    BY <2>1 DEF Telling
  <2> QED BY <1>2, <2>1, <2>2, HasTail
<1> QED BY <1>1, <1>2

LEMMA InitInv == Init => QueryInv
<1> SUFFICES ASSUME Init PROVE QueryInv
  OBVIOUS
<1>1. ChannelInv
  <2>1. ChannelTypeOK
    <3>1. <<>> \in Seq(1..MaxEvent)
      OBVIOUS
    <3>2. /\ minted = 0 /\ events = 0 /\ closed = FALSE
          /\ pending = {} /\ eventSubs = {} /\ asks = {} /\ answers = {}
          /\ promise \in [Ids -> Promises] /\ payload \in [Ids -> {0} \cup Ids]
      BY DEF Init, ChannelInit, Promises
    <3>3. buffer \in [Ids -> Seq(1..MaxEvent)] /\ delivered \in [Ids -> Seq(1..MaxEvent)]
      BY <3>1 DEF Init, ChannelInit
    <3>4. minted \in 0..MaxId /\ events \in 0..MaxEvent
      BY <3>2, Bounds
    <3>6. closed \in BOOLEAN
      BY <3>2, Zenon
    <3>5. pending \subseteq 1..minted /\ eventSubs \subseteq 1..minted
          /\ asks \cup answers \subseteq 1..minted
      BY <3>2
    <3> QED BY <3>2, <3>3, <3>4, <3>5, <3>6 DEF ChannelTypeOK
  <2>2. RegistryExact /\ AnswersMatch
    BY DEF Init, ChannelInit, RegistryExact, Unposted, AnswersMatch
  <2> QED BY <2>1, <2>2 DEF ChannelInv
<1>2. QueryTypeOK
  <2>1. /\ stack \in Seq(Frames) /\ listeners \subseteq Listeners
        /\ runToken = 0 /\ wanted = 0 /\ runToken \in 0..MaxToken /\ wanted \in 0..runToken
    BY Bounds DEF Init
  <2>2. run \in [Tokens -> Runs] /\ tries \in [Tokens -> 0..Attempts]
        /\ call \in [Tokens -> {0} \cup Ids]
    BY Bounds DEF Init, Runs
  <2>3. state.status \in Statuses /\ state.run = 0
    BY DEF Init, Snapshot, Statuses
  <2>4. streaming \in BOOLEAN /\ destroyed \in BOOLEAN
    BY Zenon DEF Init
  <2> QED BY <2>1, <2>2, <2>3, <2>4 DEF QueryTypeOK
<1>3. Launching /\ ToldLater
  BY HasFew DEF Init, Launching, ToldLater
<1>4. Unstarted /\ TriesLeft /\ Wanting
  BY Bounds DEF Init, Unstarted, TriesLeft, Wanting
<1> QED BY <1>1, <1>2, <1>3, <1>4 DEF QueryInv

LEMMA ChannelSame ==
  ASSUME ChannelInv, UNCHANGED channelVars
  PROVE  ChannelInv'
BY DEF ChannelInv, ChannelTypeOK, RegistryExact, Unposted, AnswersMatch, channelVars, streamVars, peerVars

\* What does not touch the runs and only takes frames off, or puts other ones on, keeps
\* what is said of the runs.
LEMMA StraysOf ==
  ASSUME QueryTypeOK, NEW s \in Seq(Frames), Has(s, Strays'),
         \A t \in Tokens : run[t] \in {"launching", "calling"} =>
                             run'[t] \in {"launching", "calling"}
  PROVE  Has(s, Strays)
<1>1. Strays' \subseteq Strays
  <2>1. ASSUME NEW f \in Strays' PROVE f \in Strays
    <3>1. f \in Frames /\ f.op = "launch" /\ run'[f.run] \notin {"launching", "calling"}
      BY <2>1 DEF Strays
    <3>2. f.run \in Tokens
      BY <3>1 DEF Frames
    <3>3. run[f.run] \notin {"launching", "calling"}
      BY <3>1, <3>2
    <3> QED BY <3>1, <3>3 DEF Strays
  <2> QED BY <2>1
<1> QED BY <1>1, HasSubset

LEMMA CancelKeeps ==
  ASSUME QueryInv, Cancel \/ UserReturns
  PROVE  QueryInv'
<1>1. /\ UNCHANGED <<channelVars, streaming, destroyed, state, listeners, seen, runVars>>
      /\ stack \in Seq(Frames) /\ UserRuns /\ stack' = AfterCallback
  BY DEF Cancel, UserReturns, QueryInv, QueryTypeOK, UserRuns, Returns, AfterCallback,
         Innermost, tokenVars
<1>2. stack' \in Seq(Frames)
  BY <1>1, UserStack
<1>3. \/ runToken' = runToken + 1 /\ runToken < MaxToken /\ wanted' = 0
      \/ runToken' = runToken /\ wanted' = wanted
  BY DEF Cancel, UserReturns, tokenVars
<1>4. /\ runToken \in Nat /\ runToken' \in 0..MaxToken /\ wanted' \in 0..runToken'
      /\ state.run \in 0..runToken' /\ runToken <= runToken'
  BY <1>3, Bounds DEF QueryInv, QueryTypeOK
<1>5. ChannelInv'
  BY <1>1, ChannelSame DEF QueryInv
<1>6. QueryTypeOK'
  BY <1>1, <1>2, <1>4 DEF QueryInv, QueryTypeOK, runVars
<1>7. Launching'
  <2>1. run' = run
    BY <1>1 DEF runVars
  <2>2. ~Has(stack, Strays)
    BY DEF QueryInv, Launching
  <2>3. ~Has(stack', Strays)
    BY <1>1, <2>2, UserStack
  <2> QED BY <1>2, <2>1, <2>3, StraysOf DEF Launching, QueryInv
<1>8. ToldLater'
  BY <1>1, UserStack DEF QueryInv, ToldLater, Telling
<1>9. Unstarted' /\ TriesLeft'
  BY <1>1, <1>4 DEF QueryInv, Unstarted, TriesLeft, runVars, Tokens
<1>10. Wanting'
  <2>1. CASE runToken' = runToken /\ wanted' = wanted
    BY <1>1, <2>1 DEF QueryInv, Wanting, Current, runVars
  <2>2. CASE runToken' = runToken + 1
    BY <1>1, <1>4, <2>2 DEF QueryInv, Unstarted, Wanting, Current, runVars, Tokens
  <2> QED BY <1>3, <2>1, <2>2
<1> QED BY <1>5, <1>6, <1>7, <1>8, <1>9, <1>10 DEF QueryInv

LEMMA DestroyKeeps ==
  ASSUME QueryInv, Destroy
  PROVE  QueryInv'
<1>1. /\ UNCHANGED <<channelVars, streaming, state, seen, runVars>>
      /\ stack \in Seq(Frames) /\ UserRuns /\ stack' = AfterCallback
      /\ listeners' = {} /\ destroyed' = TRUE
      /\ runToken' = runToken + 1 /\ runToken < MaxToken /\ wanted' = 0
  BY DEF Destroy, QueryInv, QueryTypeOK
<1>2. stack' \in Seq(Frames)
  BY <1>1, UserStack
<1>3. destroyed' \in BOOLEAN
  BY <1>1, Zenon
<1>4. /\ runToken \in Nat /\ runToken' \in 0..MaxToken /\ wanted' \in 0..runToken'
      /\ state.run \in 0..runToken' /\ runToken <= runToken'
  BY <1>1, Bounds DEF QueryInv, QueryTypeOK
<1>5. ChannelInv'
  BY <1>1, ChannelSame DEF QueryInv
<1>6. QueryTypeOK'
  <2>1. streaming' \in BOOLEAN /\ state'.status \in Statuses /\ state'.run \in 0..runToken'
    BY <1>1, <1>4, Zenon DEF QueryInv, QueryTypeOK
  <2>2. /\ run' \in [Tokens -> Runs] /\ tries' \in [Tokens -> 0..Attempts]
        /\ call' \in [Tokens -> {0} \cup Ids]
    BY <1>1 DEF QueryInv, QueryTypeOK, runVars
  <2> QED BY <1>1, <1>2, <1>3, <1>4, <2>1, <2>2 DEF QueryTypeOK
<1>7. Launching'
  <2>1. run' = run
    BY <1>1 DEF runVars
  <2>2. ~Has(stack, Strays)
    BY DEF QueryInv, Launching
  <2>3. ~Has(stack', Strays)
    BY <1>1, <2>2, UserStack
  <2> QED BY <1>2, <2>1, <2>3, StraysOf DEF Launching, QueryInv
<1>8. ToldLater'
  BY <1>1 DEF QueryInv, ToldLater
<1>9. Unstarted' /\ TriesLeft' /\ Wanting'
  BY <1>1, <1>4 DEF QueryInv, Unstarted, TriesLeft, runVars, Tokens, Wanting, Current
<1> QED BY <1>5, <1>6, <1>7, <1>8, <1>9 DEF QueryInv

LEMMA SubscribeKeeps ==
  ASSUME QueryInv, NEW l \in Listeners, Subscribe(l)
  PROVE  QueryInv'
<1>1. /\ UNCHANGED <<channelVars, streaming, tokenVars, state, stack, runVars>>
      /\ listeners' = listeners \cup {l} /\ seen' = [seen EXCEPT ![l] = state]
  BY DEF Subscribe
<1>2. ChannelInv'
  BY <1>1, ChannelSame DEF QueryInv
<1>3. QueryTypeOK'
  BY <1>1 DEF QueryInv, QueryTypeOK, runVars, tokenVars
<1>4. Launching'
  BY <1>1 DEF QueryInv, Launching, Strays, runVars
<1>5. ToldLater'
  BY <1>1 DEF QueryInv, ToldLater, Telling
<1>6. Unstarted' /\ TriesLeft' /\ Wanting'
  BY <1>1 DEF QueryInv, Unstarted, TriesLeft, Wanting, Current, runVars, tokenVars
<1> QED BY <1>2, <1>3, <1>4, <1>5, <1>6 DEF QueryInv

LEMMA NotifiesNextKeeps ==
  ASSUME QueryInv, NotifiesNext
  PROVE  QueryInv'
<1> DEFINE left == Head(stack).left \cap listeners
<1>1. /\ UNCHANGED <<channelVars, streaming, tokenVars, state, listeners, runVars>>
      /\ stack \in Seq(Frames) /\ stack # <<>> /\ Head(stack).op = "notify"
      /\ Head(stack) \in Frames /\ Tail(stack) \in Seq(Frames)
      /\ left \in SUBSET Listeners
  BY HasTail DEF NotifiesNext, QueryInv, QueryTypeOK, Innermost, Quiet
<1>2. ASSUME left = {}, Returns, UNCHANGED seen
      PROVE  stack' \in Seq(Frames) /\ ~Has(stack', Strays) /\ ToldLater'
  <2>1. stack' = Tail(stack) /\ stack' \in Seq(Frames)
    BY <1>1, <1>2 DEF Returns
  <2>2. \A k \in listeners : Head(stack) \notin Telling(k)
    BY <1>2 DEF Telling
  <2>3. \A k \in listeners : Has(stack, Telling(k)) => Has(stack', Telling(k))
    BY <1>1, <2>1, <2>2, HasTail
  <2>4. ~Has(stack', Strays)
    BY <1>1, <2>1, HasTail DEF QueryInv, Launching
  <2>5. ToldLater'
    BY <1>1, <1>2, <2>3 DEF QueryInv, ToldLater, Telling
  <2> QED BY <2>1, <2>4, <2>5
<1>3. ASSUME NEW l \in left, seen' = [seen EXCEPT ![l] = state],
             Then((IF l \in Reenters THEN <<User>> ELSE <<>>)
                    \o <<[op |-> "notify", left |-> left \ {l}]>>)
      PROVE  stack' \in Seq(Frames) /\ ~Has(stack', Strays) /\ ToldLater'
  <2> DEFINE first == IF l \in Reenters THEN <<User>> ELSE <<>>
             rest == [op |-> "notify", left |-> left \ {l}]
  <2>1. rest \in Frames /\ User \in Frames
    BY <1>1, FramesTyped
  <2>2. first \in Seq(Frames) /\ <<rest>> \in Seq(Frames)
    BY <2>1
  <2>3. first \o <<rest>> \in Seq(Frames)
    BY <2>2
  <2>4. stack' = (first \o <<rest>>) \o Tail(stack)
    BY <1>3 DEF Then
  <2>5. stack' \in Seq(Frames)
    BY <1>1, <2>3, <2>4
  <2> HIDE DEF first, rest
  <2>6. \A P : Has(stack', P) <=> Has(first, P) \/ rest \in P \/ Has(Tail(stack), P)
    <3>1. \A P : Has(first \o <<rest>>, P) <=> Has(first, P) \/ Has(<<rest>>, P)
      BY <2>2, FramesConcat
    <3>2. \A P : Has(stack', P) <=> Has(first \o <<rest>>, P) \/ Has(Tail(stack), P)
      BY <1>1, <2>3, <2>4, FramesConcat
    <3>3. \A P : Has(<<rest>>, P) <=> rest \in P
      BY HasFew
    <3> QED BY <3>1, <3>2, <3>3
  <2>7. ~Has(first, Strays) /\ rest \notin Strays
    <3>1. User \notin Strays /\ rest \notin Strays
      BY DEF Strays, User, rest
    <3> QED BY <3>1, HasFew DEF first
  <2>8. ~Has(Tail(stack), Strays)
    BY <1>1, HasTail DEF QueryInv, Launching
  <2>9. \A k \in listeners : seen'[k] = state \/ Has(stack', Telling(k))
    <3> SUFFICES ASSUME NEW k \in listeners, seen'[k] # state
                 PROVE  Has(stack', Telling(k))
      OBVIOUS
    <3>1. k \in Listeners /\ seen = [m \in Listeners |-> seen[m]]
      BY DEF QueryInv, QueryTypeOK, ToldLater
    <3>2. k # l /\ seen[k] # state
      BY <1>3, <3>1
    <3>3. Has(stack, Telling(k))
      BY <3>2 DEF QueryInv, ToldLater
    <3>4. Head(stack) \in Telling(k) \/ Has(Tail(stack), Telling(k))
      BY <1>1, <3>3, HasTail
    <3>5. Head(stack) \in Telling(k) => rest \in Telling(k)
      BY <2>1, <3>2 DEF Telling, rest
    <3> QED BY <2>6, <3>4, <3>5
  <2>10. seen' = [m \in Listeners |-> seen'[m]]
    BY <1>3 DEF QueryInv, ToldLater
  <2>11. ToldLater'
    BY <1>1, <2>9, <2>10 DEF ToldLater, Telling
  <2> QED BY <2>5, <2>6, <2>7, <2>8, <2>11
<1>4. stack' \in Seq(Frames) /\ ~Has(stack', Strays) /\ ToldLater'
  BY <1>2, <1>3 DEF NotifiesNext
<1>5. ChannelInv'
  BY <1>1, ChannelSame DEF QueryInv
<1>6. QueryTypeOK'
  BY <1>1, <1>4 DEF QueryInv, QueryTypeOK, runVars, tokenVars
<1>7. Launching'
  BY <1>1, <1>4 DEF Launching, Strays, runVars
<1>8. Unstarted' /\ TriesLeft' /\ Wanting'
  BY <1>1 DEF QueryInv, Unstarted, TriesLeft, Wanting, Current, runVars, tokenVars
<1> QED BY <1>4, <1>5, <1>6, <1>7, <1>8 DEF QueryInv

\* setState, where the functions that go on are `after`.
LEMMA PublishTells ==
  ASSUME QueryInv, NEW snapshot, NEW after \in Seq(Frames),
         Publish(snapshot, after), UNCHANGED <<listeners, seen>>
  PROVE  /\ stack' \in Seq(Frames)
         /\ \A P : Has(stack', P) <=> Notify \in P \/ Has(after, P)
         /\ ToldLater'
<1>1. Notify \in Frames /\ <<Notify>> \in Seq(Frames)
  BY FramesTyped DEF Notify, QueryInv, QueryTypeOK
<1>2. stack' = <<Notify>> \o after
  BY DEF Publish
<1>3. stack' \in Seq(Frames)
  BY <1>1, <1>2
<1>4. \A P : Has(<<Notify>>, P) <=> Notify \in P
  BY HasFew
<1>5. \A P : Has(stack', P) <=> Notify \in P \/ Has(after, P)
  BY <1>1, <1>2, <1>4, FramesConcat
<1>6. \A l \in listeners : Notify \in Telling(l)
  BY <1>1 DEF Telling, Notify
<1>7. ToldLater'
  BY <1>5, <1>6 DEF ToldLater, Telling, QueryInv
<1> QED BY <1>3, <1>5, <1>7

LEMMA RefetchKeeps ==
  ASSUME QueryInv, Refetch
  PROVE  QueryInv'
<1> DEFINE t == runToken'
<1>1. /\ UNCHANGED <<channelVars, streaming, destroyed, listeners, seen, tries, call>>
      /\ stack \in Seq(Frames) /\ UserRuns
      /\ runToken < MaxToken /\ runToken' = runToken + 1 /\ wanted' = runToken'
      /\ run' = [run EXCEPT ![t] = "launching"]
      /\ state' = Snapshot("pending", t, <<>>)
      /\ stack' = <<Notify, Launch(t)>> \o AfterCallback
  BY DEF Refetch, QueryInv, QueryTypeOK
<1>2. /\ runToken \in Nat /\ t \in 0..MaxToken /\ wanted' \in 0..t /\ t \in Tokens
      /\ t > runToken
  BY <1>1, Bounds DEF QueryInv, QueryTypeOK, Tokens
<1> HIDE DEF t
<1>3. Notify \in Frames /\ Launch(t) \in Frames /\ <<Notify, Launch(t)>> \in Seq(Frames)
  BY <1>2, FramesTyped DEF Notify, QueryInv, QueryTypeOK
<1>4. AfterCallback \in Seq(Frames) /\ \A P : Has(AfterCallback, P) => Has(stack, P)
  BY <1>1, UserStack
<1>5. stack' \in Seq(Frames)
  BY <1>1, <1>3, <1>4
<1>6. \A P : Has(stack', P) <=> Notify \in P \/ Launch(t) \in P \/ Has(AfterCallback, P)
  <2>1. \A P : Has(<<Notify, Launch(t)>>, P) <=> Notify \in P \/ Launch(t) \in P
    BY HasFew
  <2> QED BY <1>1, <1>3, <1>4, <2>1, FramesConcat
<1>7. ChannelInv'
  BY <1>1, ChannelSame DEF QueryInv
<1>8. QueryTypeOK'
  <2>1. state'.status \in Statuses /\ state'.run = t
    BY <1>1 DEF Snapshot, Statuses
  <2>2. run' \in [Tokens -> Runs]
    BY <1>1 DEF QueryInv, QueryTypeOK, Runs
  <2> QED BY <1>1, <1>2, <1>5, <2>1, <2>2 DEF QueryInv, QueryTypeOK, t
<1>9. Launching'
  <2>1. \A u \in Tokens : run[u] \in {"launching", "calling"} =>
                            run'[u] \in {"launching", "calling"}
    BY <1>1 DEF QueryInv, QueryTypeOK
  <2>2. run'[t] = "launching"
    BY <1>1, <1>2 DEF QueryInv, QueryTypeOK
  <2>3. Notify \notin Strays' /\ Launch(t) \notin Strays'
    BY <2>2 DEF Strays, Notify, Launch
  <2>4. ~Has(AfterCallback, Strays')
    BY <1>4, <2>1, StraysOf DEF QueryInv, Launching
  <2> QED BY <1>6, <2>3, <2>4 DEF Launching
<1>10. ToldLater'
  <2>1. \A l \in listeners : Notify \in Telling(l)
    BY <1>3 DEF Telling, Notify
  <2> QED BY <1>1, <1>6, <2>1 DEF ToldLater, Telling, QueryInv
<1>11. Unstarted' /\ TriesLeft'
  BY <1>1, <1>2 DEF QueryInv, QueryTypeOK, Unstarted, TriesLeft, Tokens, t
<1>12. Wanting'
  BY <1>1, <1>2 DEF Wanting, Current, t
<1> QED BY <1>7, <1>8, <1>9, <1>10, <1>11, <1>12 DEF QueryInv

\* What a step does that only moves a frame away, and perhaps lets its run go on.
LEMMA LaunchesKeeps ==
  ASSUME QueryInv, Launches
  PROVE  QueryInv'
<1> DEFINE t == Head(stack).run
<1>1. /\ UNCHANGED <<channelVars, streaming, tokenVars, state, listeners, seen, tries, call>>
      /\ stack \in Seq(Frames) /\ stack # <<>> /\ Head(stack).op = "launch"
      /\ run' = [run EXCEPT ![t] = "calling"] /\ stack' = Tail(stack)
  BY DEF Launches, QueryInv, QueryTypeOK, Innermost, Quiet, Returns
<1>2. /\ Head(stack) \in Frames /\ Tail(stack) \in Seq(Frames)
      /\ \A P : Has(stack, P) <=> Head(stack) \in P \/ Has(Tail(stack), P)
  BY <1>1, HasTail
<1>3. t \in Tokens /\ run[t] \in {"launching", "calling"}
  <2>1. t \in Tokens
    BY <1>1, <1>2 DEF Frames
  <2>2. Head(stack) \notin Strays
    BY <1>2 DEF QueryInv, Launching
  <2> QED BY <1>1, <1>2, <2>1, <2>2 DEF Strays
<1> HIDE DEF t
<1>4. ChannelInv'
  BY <1>1, ChannelSame DEF QueryInv
<1>5. QueryTypeOK'
  BY <1>1, <1>2 DEF QueryInv, QueryTypeOK, tokenVars, Runs
<1>6. Launching'
  <2>1. \A u \in Tokens : run[u] \in {"launching", "calling"} =>
                            run'[u] \in {"launching", "calling"}
    BY <1>1 DEF QueryInv, QueryTypeOK
  <2> QED BY <1>1, <1>2, <2>1, StraysOf DEF QueryInv, Launching
<1>7. ToldLater'
  <2>1. \A l : Head(stack) \notin Telling(l)
    BY <1>1 DEF Telling
  <2> QED BY <1>1, <1>2, <2>1 DEF ToldLater, Telling, QueryInv
<1>8. Unstarted' /\ TriesLeft' /\ Wanting'
  BY <1>1, <1>3 DEF QueryInv, QueryTypeOK, Unstarted, TriesLeft, Wanting, Current, tokenVars
<1> QED BY <1>4, <1>5, <1>6, <1>7, <1>8 DEF QueryInv

LEMMA CallsBackKeeps ==
  ASSUME QueryInv, CallsBack
  PROVE  QueryInv'
<1>1. /\ UNCHANGED <<channelVars, streaming, tokenVars, state, listeners, seen, runVars>>
      /\ stack \in Seq(Frames) /\ stack # <<>> /\ Head(stack).op = "callback"
      /\ stack' = <<User>> \o Tail(stack)
  BY DEF CallsBack, QueryInv, QueryTypeOK, Innermost, Quiet, Then
<1>2. /\ Head(stack) \in Frames /\ Tail(stack) \in Seq(Frames)
      /\ \A P : Has(stack, P) <=> Head(stack) \in P \/ Has(Tail(stack), P)
  BY <1>1, HasTail
<1>3. /\ stack' \in Seq(Frames)
      /\ \A P : Has(stack', P) <=> User \in P \/ Has(Tail(stack), P)
  <2>1. <<User>> \in Seq(Frames)
    BY FramesTyped
  <2>2. \A P : Has(<<User>>, P) <=> User \in P
    BY HasFew
  <2>3. stack' \in Seq(Frames)
    BY <1>1, <1>2, <2>1
  <2>4. \A P : Has(stack', P) <=> Has(<<User>>, P) \/ Has(Tail(stack), P)
    BY <1>1, <1>2, <2>1, FramesConcat
  <2> QED BY <2>2, <2>3, <2>4
<1>4. ChannelInv'
  BY <1>1, ChannelSame DEF QueryInv
<1>5. QueryTypeOK'
  BY <1>1, <1>3 DEF QueryInv, QueryTypeOK, tokenVars, runVars
<1>6. Launching'
  <2>1. User \notin Strays
    BY DEF User, Strays
  <2>2. ~Has(stack', Strays)
    BY <1>2, <1>3, <2>1 DEF QueryInv, Launching
  <2> QED BY <1>1, <2>2 DEF Launching, Strays, runVars
<1>7. ToldLater'
  <2>1. \A l : Head(stack) \notin Telling(l)
    BY <1>1 DEF Telling
  <2> QED BY <1>1, <1>2, <1>3, <2>1 DEF ToldLater, Telling, QueryInv
<1>8. Unstarted' /\ TriesLeft' /\ Wanting'
  BY <1>1 DEF QueryInv, Unstarted, TriesLeft, Wanting, Current, tokenVars, runVars
<1> QED BY <1>4, <1>5, <1>6, <1>7, <1>8 DEF QueryInv

\* The steps of a run while no function of the query is under way.
LEMMA QuietRuns ==
  ASSUME QueryInv, Quiet, NEW t \in Tokens, run[t] \notin {"none"},
         NEW next \in Runs \ {"none", "launching"},
         next = "calling" => tries'[t] < Attempts,
         run' = [run EXCEPT ![t] = next],
         tries' \in [Tokens -> 0..Attempts],
         \A u \in Tokens : u # t => tries'[u] = tries[u],
         UNCHANGED <<tokenVars, listeners>>
  PROVE  /\ run' \in [Tokens -> Runs]
         /\ Unstarted' /\ TriesLeft' /\ Wanting'
<1>1. run' \in [Tokens -> Runs]
  BY DEF QueryInv, QueryTypeOK
<1>2. Unstarted' /\ TriesLeft' /\ Wanting'
  BY DEF QueryInv, QueryTypeOK, Unstarted, TriesLeft, Wanting, Current, tokenVars
<1> QED BY <1>1, <1>2

LEMMA ExecuteKeeps ==
  ASSUME QueryInv, NEW t \in Tokens, Execute(t)
  PROVE  QueryInv'
<1>1. /\ Quiet /\ run[t] = "calling" /\ (Request \/ Listen)
      /\ run' = [run EXCEPT ![t] = "awaiting"]
      /\ tries' = [tries EXCEPT ![t] = @ + 1]
      /\ call' = [call EXCEPT ![t] = minted']
      /\ UNCHANGED <<streaming, tokenVars, shownVars>>
  BY DEF Execute
<1>2. ChannelInv' /\ minted' \in Ids
  BY <1>1, MintKeeps DEF QueryInv
<1>3. tries' \in [Tokens -> 0..Attempts]
  <2>1. tries[t] \in 0..Attempts /\ tries[t] < Attempts
    BY <1>1 DEF QueryInv, QueryTypeOK, TriesLeft
  <2>2. tries[t] + 1 \in 0..Attempts
    BY <2>1, Bounds
  <2> QED BY <1>1, <2>2 DEF QueryInv, QueryTypeOK
<1>4. /\ run' \in [Tokens -> Runs]
      /\ Unstarted' /\ TriesLeft' /\ Wanting'
  BY <1>1, <1>3, QuietRuns DEF Runs, shownVars, QueryInv, QueryTypeOK
<1>5. QueryTypeOK'
  BY <1>1, <1>2, <1>3, <1>4 DEF QueryInv, QueryTypeOK, tokenVars, shownVars
<1>6. Launching'
  BY <1>1, HasFew DEF Launching, Quiet, shownVars
<1>7. ToldLater'
  BY <1>1 DEF QueryInv, ToldLater, Telling, shownVars
<1> QED BY <1>2, <1>4, <1>5, <1>6, <1>7 DEF QueryInv

LEMMA AttemptKeeps ==
  ASSUME QueryInv, NEW t \in Tokens,
         StopsAtStart(t) \/ AttemptFails(t) \/ AttemptSucceeds(t)
  PROVE  QueryInv'
<1>1. PICK next \in {"calling", "rejected", "resolved", "stopped"} :
        /\ Quiet /\ run[t] \in {"calling", "awaiting"}
        /\ run' = [run EXCEPT ![t] = next]
        /\ next = "calling" => tries[t] < Attempts
        /\ UNCHANGED <<channelVars, streaming, tokenVars, shownVars, tries, call>>
  BY DEF StopsAtStart, AttemptFails, AttemptSucceeds
<1>2. ChannelInv'
  BY <1>1, ChannelSame DEF QueryInv
<1>3. /\ run' \in [Tokens -> Runs]
      /\ Unstarted' /\ TriesLeft' /\ Wanting'
  BY <1>1, QuietRuns DEF Runs, shownVars, QueryInv, QueryTypeOK
<1>4. QueryTypeOK'
  BY <1>1, <1>3 DEF QueryInv, QueryTypeOK, tokenVars, shownVars
<1>5. Launching'
  BY <1>1, HasFew DEF Launching, Quiet, shownVars
<1>6. ToldLater'
  BY <1>1 DEF QueryInv, ToldLater, Telling, shownVars
<1> QED BY <1>2, <1>3, <1>4, <1>5, <1>6 DEF QueryInv

LEMMA DeltaKeeps ==
  ASSUME QueryInv, NEW t \in Tokens, Delta(t)
  PROVE  QueryInv'
<1>1. /\ Quiet /\ run[t] = "awaiting" /\ buffer[call[t]] # <<>>
      /\ buffer' = [buffer EXCEPT ![call[t]] = Tail(@)]
      /\ UNCHANGED <<pending, promise, payload, eventSubs, delivered, events, closed, minted,
                     peerVars, streaming, tokenVars, listeners, seen, tries, call>>
  BY DEF Delta
<1>2. ChannelInv'
  <2>1. \A q \in Seq(1..MaxEvent) : q # <<>> => Tail(q) \in Seq(1..MaxEvent)
    OBVIOUS
  <2>2. buffer' \in [Ids -> Seq(1..MaxEvent)]
    BY <1>1, <2>1 DEF QueryInv, ChannelInv, ChannelTypeOK
  <2> QED BY <1>1, <2>2 DEF QueryInv, ChannelInv, ChannelTypeOK, RegistryExact, Unposted,
                            AnswersMatch,
                            peerVars
<1>3. CASE Current(t)
  <2>1. run' = run /\ Publish(Snapshot("streaming", t, collected'[t]), <<>>)
    BY <1>3 DEF Delta
  <2>2. /\ stack' \in Seq(Frames) /\ ToldLater'
        /\ \A P : Has(stack', P) <=> Notify \in P \/ Has(<<>>, P)
    <3>1. <<>> \in Seq(Frames)
      OBVIOUS
    <3> QED BY <1>1, <2>1, <3>1, PublishTells
  <2>3. ~Has(stack', Strays')
    <3>1. Notify \notin Strays'
      BY DEF Notify, Strays
    <3> QED BY <2>2, <3>1, HasFew
  <2>4. state'.status \in Statuses /\ state'.run = t /\ t = runToken
    BY <1>3, <2>1 DEF Publish, Snapshot, Statuses, Current
  <2>5. QueryTypeOK'
    <3>1. runToken' \in 0..MaxToken /\ runToken' = runToken /\ t \in 0..runToken'
      BY <1>1, <2>4 DEF QueryInv, QueryTypeOK, tokenVars
    <3> QED BY <1>1, <2>1, <2>2, <2>4, <3>1 DEF QueryInv, QueryTypeOK, tokenVars
  <2>6. Unstarted' /\ TriesLeft' /\ Wanting'
    BY <1>1, <2>1 DEF QueryInv, Unstarted, TriesLeft, Wanting, Current, tokenVars
  <2> QED BY <1>2, <2>2, <2>3, <2>5, <2>6 DEF QueryInv, Launching
<1>4. CASE ~Current(t)
  <2>1. run' = [run EXCEPT ![t] = "over"] /\ UNCHANGED <<state, stack>>
    BY <1>4 DEF Delta
  <2>2. run' \in [Tokens -> Runs] /\ Unstarted' /\ TriesLeft' /\ Wanting'
    BY <1>1, <2>1, QuietRuns DEF Runs, QueryInv, QueryTypeOK
  <2>3. QueryTypeOK'
    BY <1>1, <2>1, <2>2 DEF QueryInv, QueryTypeOK, tokenVars
  <2>4. Launching'
    BY <1>1, <2>1, HasFew DEF Launching, Quiet
  <2>5. ToldLater'
    BY <1>1, <2>1 DEF QueryInv, ToldLater, Telling
  <2> QED BY <1>2, <2>2, <2>3, <2>4, <2>5 DEF QueryInv
<1> QED BY <1>3, <1>4

LEMMA FinishKeeps ==
  ASSUME QueryInv, NEW t \in Tokens, Finish(t)
  PROVE  QueryInv'
<1>1. /\ Quiet /\ run[t] \in {"resolved", "rejected"}
      /\ run' = [run EXCEPT ![t] = "over"]
      /\ UNCHANGED <<channelVars, streaming, tokenVars, listeners, seen, tries, call>>
  BY DEF Finish
<1>2. ChannelInv'
  BY <1>1, ChannelSame DEF QueryInv
<1>3. run' \in [Tokens -> Runs] /\ Unstarted' /\ TriesLeft' /\ Wanting'
  BY <1>1, QuietRuns DEF Runs, QueryInv, QueryTypeOK
<1>4. CASE Current(t)
  <2>1. PICK status, data :
          status \in Statuses /\ Publish(Snapshot(status, t, data), <<Callback>>)
    BY <1>4 DEF Finish, Statuses
  <2>2. <<Callback>> \in Seq(Frames)
    BY FramesTyped
  <2>3. /\ stack' \in Seq(Frames) /\ ToldLater'
        /\ \A P : Has(stack', P) <=> Notify \in P \/ Has(<<Callback>>, P)
    BY <1>1, <2>1, <2>2, PublishTells
  <2>4. ~Has(stack', Strays')
    <3>1. Notify \notin Strays' /\ Callback \notin Strays'
      BY DEF Notify, Callback, Strays
    <3> QED BY <2>3, <3>1, HasFew
  <2>5. state'.status \in Statuses /\ state'.run = t /\ t = runToken
    BY <1>4, <2>1 DEF Publish, Snapshot, Current
  <2>6. QueryTypeOK'
    <3>1. runToken' \in 0..MaxToken /\ runToken' = runToken /\ t \in 0..runToken'
      BY <1>1, <2>5 DEF QueryInv, QueryTypeOK, tokenVars
    <3> QED BY <1>1, <1>3, <2>3, <2>5, <3>1 DEF QueryInv, QueryTypeOK, tokenVars
  <2> QED BY <1>2, <1>3, <2>3, <2>4, <2>6 DEF QueryInv, Launching
<1>5. CASE ~Current(t)
  <2>1. UNCHANGED <<state, stack>>
    BY <1>5 DEF Finish
  <2>2. QueryTypeOK'
    BY <1>1, <1>3, <2>1 DEF QueryInv, QueryTypeOK, tokenVars
  <2>3. Launching'
    BY <1>1, <2>1, HasFew DEF Launching, Quiet
  <2>4. ToldLater'
    BY <1>1, <2>1 DEF QueryInv, ToldLater, Telling
  <2> QED BY <1>2, <1>3, <2>2, <2>3, <2>4 DEF QueryInv
<1> QED BY <1>4, <1>5

LEMMA StutterKeeps ==
  ASSUME QueryInv, UNCHANGED queryVars, ChannelInv'
  PROVE  QueryInv'
<1>1. QueryTypeOK'
  BY DEF QueryInv, QueryTypeOK, queryVars, tokenVars, shownVars, runVars
<1>2. Launching' /\ ToldLater'
  BY DEF QueryInv, Launching, Strays, ToldLater, Telling, queryVars, shownVars, runVars
<1>3. Unstarted' /\ TriesLeft' /\ Wanting'
  BY DEF QueryInv, Unstarted, TriesLeft, Wanting, Current, queryVars, tokenVars, runVars
<1> QED BY <1>1, <1>2, <1>3 DEF QueryInv

LEMMA NextKeeps == QueryInv /\ [Next]_vars => QueryInv'
<1> SUFFICES ASSUME QueryInv, [Next]_vars PROVE QueryInv'
  OBVIOUS
<1>1. ASSUME NEW l \in Listeners, Subscribe(l) PROVE QueryInv'
  BY <1>1, SubscribeKeeps
<1>2. ASSUME NEW t \in Tokens, RunStep(t) PROVE QueryInv'
  BY <1>2, ExecuteKeeps, AttemptKeeps, DeltaKeeps, FinishKeeps DEF RunStep
<1>3. CASE FunctionStep
  BY <1>3, CancelKeeps, NotifiesNextKeeps, LaunchesKeeps, CallsBackKeeps DEF FunctionStep
<1>4. CASE ChannelStep /\ UNCHANGED queryVars
  BY <1>4, ChannelStepKeeps, StutterKeeps DEF QueryInv
<1>5. CASE UNCHANGED vars
  BY <1>5, ChannelSame, StutterKeeps DEF QueryInv, vars
<1>6. CASE Refetch \/ Cancel \/ Destroy
  BY <1>6, RefetchKeeps, CancelKeeps, DestroyKeeps
<1> QED BY <1>1, <1>2, <1>3, <1>4, <1>5, <1>6 DEF Next

THEOREM QueryInvariant == Spec => []QueryInv
BY InitInv, NextKeeps, PTL DEF Spec

(* The types of the channel's and the query's state: an attempt too many or  *)
(* an id beyond the last would break them.                                   *)
THEOREM QueryTypeCorrect == Spec => []TypeOK
<1>1. QueryInv => TypeOK
  BY Types DEF QueryInv, ChannelInv
<1> QED BY <1>1, QueryInvariant, PTL

(* `pending` and the subscriptions hold exactly what still waits or flows,   *)
(* and until close what a throwing post has left there (postmessage.ts,      *)
(* execute, onAbort, the demux and close).                                   *)
THEOREM RegistryStaysExact == Spec => []RegistryExact
<1>1. QueryInv => RegistryExact
  BY DEF QueryInv, ChannelInv
<1> QED BY <1>1, QueryInvariant, PTL

(* A request is resolved with the answer to itself, however late the answer  *)
(* to an earlier attempt (the demux's match on id and type).                 *)
THEOREM AnswersAlwaysMatch == Spec => []AnswersMatch
<1>1. QueryInv => AnswersMatch
  BY DEF QueryInv, ChannelInv
<1> QED BY <1>1, QueryInvariant, PTL

(* When no function of the query is under way each listener has looked at    *)
(* the last snapshot, however the notifications were nested (setState).      *)
THEOREM NobodyLeftUntold == Spec => []ListenersAreCurrent
<1>1. QueryInv => ListenersAreCurrent
  <2> SUFFICES ASSUME QueryInv, stack = <<>>, NEW l \in listeners PROVE seen[l] = state
    BY DEF ListenersAreCurrent, Quiet
  <2>1. ~Has(<<>>, Telling(l))
    BY HasFew
  <2> QED BY <2>1 DEF QueryInv, ToldLater
<1> QED BY <1>1, QueryInvariant, PTL

(* Nothing but the run last asked for changes the snapshot (the token checks *)
(* of runUnary and runStream).                                               *)
THEOREM AbandonedStaysSilent == Spec => AbandonedIsSilent
<1>1. ASSUME QueryInv, [Next]_vars, state' # state
      PROVE  state'.run = wanted'
  <2>1. CASE Refetch
    BY <2>1 DEF Refetch, Snapshot
  <2>2. ASSUME NEW t \in Tokens, RunStep(t) PROVE state'.run = wanted'
    <3>1. CASE Delta(t)
      <4>1. run[t] # "none" /\ UNCHANGED tokenVars
        BY <3>1 DEF Delta
      <4>2. Current(t) /\ state'.run = t
        BY <1>1, <3>1 DEF Delta, Publish, Snapshot
      <4> QED BY <1>1, <4>1, <4>2 DEF QueryInv, Wanting, tokenVars
    <3>2. CASE Finish(t)
      <4>1. run[t] # "none" /\ UNCHANGED tokenVars
        BY <3>2 DEF Finish
      <4>2. Current(t) /\ state'.run = t
        BY <1>1, <3>2 DEF Finish, Publish, Snapshot
      <4> QED BY <1>1, <4>1, <4>2 DEF QueryInv, Wanting, tokenVars
    <3>3. CASE Execute(t) \/ StopsAtStart(t) \/ AttemptFails(t) \/ AttemptSucceeds(t)
      <4>1. UNCHANGED shownVars
        BY <3>3 DEF Execute, StopsAtStart, AttemptFails, AttemptSucceeds
      <4> QED BY <1>1, <4>1 DEF shownVars
    <3> QED BY <2>2, <3>1, <3>2, <3>3 DEF RunStep
  <2>3. CASE Cancel \/ Destroy \/ FunctionStep
    BY <1>1, <2>3 DEF Cancel, Destroy, FunctionStep, UserReturns, NotifiesNext, Launches,
                      CallsBack
  <2>4. ASSUME NEW l \in Listeners, Subscribe(l) PROVE state'.run = wanted'
    BY <1>1, <2>4 DEF Subscribe
  <2>5. CASE ChannelStep /\ Quiet /\ UNCHANGED queryVars
    BY <1>1, <2>5 DEF queryVars, shownVars
  <2>6. CASE UNCHANGED vars
    BY <1>1, <2>6 DEF vars, queryVars, shownVars
  <2>7. Next \/ UNCHANGED vars
    BY <1>1
  <2>8. ASSUME Next PROVE state'.run = wanted'
    BY <2>1, <2>2, <2>3, <2>4, <2>5, <2>8 DEF Next
  <2> QED BY <2>6, <2>7, <2>8
<1> QED BY <1>1, QueryInvariant, PTL DEF Spec, AbandonedIsSilent

-------------------------------------------------------------------------------
(* Where the data of a snapshot comes from.                                  *)
Unexecuted == {"none", "launching", "calling", "stopped"}
Begun(t) == run[t] \notin Unexecuted

\* The calls of execute are the runs' own, and what was not opened holds nothing.
OwnCalls ==
  /\ \A t \in Tokens : call[t] <= minted /\ (Begun(t) => call[t] # 0)
  /\ \A t, u \in Tokens : t # u /\ call[t] = call[u] => call[t] = 0
  /\ \A id \in Ids : id > minted =>
       promise[id] = "none" /\ buffer[id] = <<>> /\ delivered[id] = <<>>

\* What a stream was given its run has read, or will read next.
ReadsOn ==
  /\ collected \in [Tokens -> Seq(1..MaxEvent)]
  /\ streaming =>
       \A t \in Tokens :
         IF run[t] \in {"awaiting", "resolved"}
           THEN delivered[call[t]] = collected[t] \o buffer[call[t]]
           ELSE ~Begun(t) => collected[t] = <<>>

\* A query over requests opens no stream, one over streams makes no request.
Kinds ==
  \A id \in Ids :
    promise[id] \notin (IF streaming THEN {"waiting", "unposted", "replied"}
                       ELSE {"flowing", "ended"})

\* A run that has resolved has its reply, or has read its stream to the end.
Settled ==
  \A t \in Tokens : run[t] = "resolved" =>
    IF streaming THEN promise[call[t]] = "ended" /\ buffer[call[t]] = <<>>
    ELSE promise[call[t]] = "replied"

\* What is shown came from the call of a run that makes no other, and what else its
\* stream was given came after it.
Shown ==
  /\ state.status \in {"success", "streaming"} =>
       state.run \in Tokens /\ Begun(state.run)
  /\ state.status = "success" =>
       /\ run[state.run] = "over"
       /\ IF streaming
            THEN promise[call[state.run]] = "ended"
                   /\ state.data = delivered[call[state.run]]
            ELSE state.data = <<call[state.run]>>
  /\ state.status = "streaming" =>
       /\ streaming /\ state.data \in Seq(1..MaxEvent)
       /\ \E rest \in Seq(1..MaxEvent) : delivered[call[state.run]] = state.data \o rest

DataInv == OwnCalls /\ ReadsOn /\ Kinds /\ Settled /\ Shown

LEMMA Events ==
  ASSUME NEW S, NEW c \in Seq(S), NEW b \in Seq(S), NEW e \in S
  PROVE  /\ c \o <<>> = c /\ <<>> \o c = c
         /\ Append(c, e) \in Seq(S) /\ Append(c, e) = c \o <<e>> /\ <<e>> \in Seq(S)
         /\ c \o Append(b, e) = Append(c \o b, e)
         /\ b # <<>> => /\ Head(b) \in S /\ Tail(b) \in Seq(S)
                        /\ Append(c, Head(b)) \o Tail(b) = c \o b
<1>1. c \o <<>> = c /\ <<>> \o c = c
  OBVIOUS
<1>2. Append(c, e) \in Seq(S) /\ Append(c, e) = c \o <<e>> /\ <<e>> \in Seq(S)
  OBVIOUS
<1>3. c \o Append(b, e) = Append(c \o b, e)
  OBVIOUS
<1>4. b # <<>> => Head(b) \in S /\ Tail(b) \in Seq(S)
  OBVIOUS
<1>5. b # <<>> => Append(c, Head(b)) \o Tail(b) = c \o b
  OBVIOUS
<1> QED BY <1>1, <1>2, <1>3, <1>4, <1>5

LEMMA EventsOf ==
  ASSUME NEW p \in Seq(1..MaxEvent), NEW q \in Seq(1..MaxEvent)
  PROVE
    /\ q # <<>> => /\ Head(q) \in 1..MaxEvent /\ Tail(q) \in Seq(1..MaxEvent)
                   /\ Append(p, Head(q)) \in Seq(1..MaxEvent)
                   /\ Append(p, Head(q)) \o Tail(q) = p \o q
    /\ \A e \in 1..MaxEvent : /\ p \o Append(q, e) = Append(p \o q, e)
                              /\ Append(p, e) = p \o <<e>> /\ <<e>> \in Seq(1..MaxEvent)
    /\ p \o q \in Seq(1..MaxEvent)
    /\ \A s \in Seq(1..MaxEvent) : (p \o q) \o s = p \o (q \o s)
<1>1. q # <<>> => Head(q) \in 1..MaxEvent /\ Tail(q) \in Seq(1..MaxEvent)
  BY HeadTailProperties
<1>2. q # <<>> => /\ Append(p, Head(q)) \in Seq(1..MaxEvent)
                  /\ Append(p, Head(q)) \o Tail(q) = p \o q
  BY <1>1, Events
<1>3. \A e \in 1..MaxEvent : /\ p \o Append(q, e) = Append(p \o q, e)
                             /\ Append(p, e) = p \o <<e>> /\ <<e>> \in Seq(1..MaxEvent)
  BY Events
<1>4. p \o q \in Seq(1..MaxEvent)
  BY ConcatProperties
<1>5. \A s \in Seq(1..MaxEvent) : (p \o q) \o s = p \o (q \o s)
  BY ConcatAssociative
<1> QED BY <1>1, <1>2, <1>3, <1>4, <1>5

LEMMA CallsTyped ==
  ASSUME QueryInv, DataInv
  PROVE  /\ minted \in Nat /\ run \in [Tokens -> Runs] /\ call \in [Tokens -> {0} \cup Ids]
         /\ \A t \in Tokens : call[t] \in Nat /\ (Begun(t) => call[t] \in Ids)
BY Bounds DEF QueryInv, ChannelInv, ChannelTypeOK, QueryTypeOK, DataInv, OwnCalls, Ids

LEMMA DataStays ==
  ASSUME DataInv, UNCHANGED <<channelVars, streaming, state, runVars>>
  PROVE  DataInv'
BY DEF DataInv, OwnCalls, ReadsOn, Kinds, Settled, Shown, Begun, Unexecuted, channelVars,
       streamVars, runVars

\* What a step must leave alone for what is shown to keep its source.
LEMMA ShownStays ==
  ASSUME QueryInv, DataInv, UNCHANGED <<streaming, state>>,
         \A t \in Tokens : run[t] = "over" \/ (streaming /\ Begun(t)) =>
                             run'[t] \notin Unexecuted
                               /\ call'[t] = call[t],
         \A t \in Tokens : run[t] = "over" => run'[t] = "over",
         \A id \in Ids : promise[id] = "ended" =>
                           promise'[id] = "ended" /\ delivered'[id] = delivered[id],
         \A id \in Ids : \E rest \in Seq(1..MaxEvent) : delivered'[id] = delivered[id] \o rest
  PROVE  Shown'
<1>1. Shown /\ \A t \in Tokens : Begun(t) => call[t] \in Ids
  BY CallsTyped DEF DataInv
<1> DEFINE r == state.run
<1>2. CASE state.status = "success"
  <2>1. r \in Tokens /\ run[r] = "over" /\ Begun(r) /\ call[r] \in Ids
    BY <1>1, <1>2 DEF Shown
  <2> QED BY <1>1, <1>2, <2>1 DEF Shown, Begun, Unexecuted
<1>3. CASE state.status = "streaming"
  <2>1. r \in Tokens /\ Begun(r) /\ call[r] \in Ids /\ streaming
    BY <1>1, <1>3 DEF Shown
  <2>2. PICK rest \in Seq(1..MaxEvent) : delivered[call[r]] = state.data \o rest
    BY <1>1, <1>3 DEF Shown
  <2>3. PICK more \in Seq(1..MaxEvent) : delivered'[call[r]] = delivered[call[r]] \o more
    BY <2>1
  <2>4. state.data \in Seq(1..MaxEvent)
    BY <1>1, <1>3 DEF Shown
  <2>5. /\ (state.data \o rest) \o more = state.data \o (rest \o more)
        /\ rest \o more \in Seq(1..MaxEvent)
    <3>1. \A p \in Seq(1..MaxEvent) : (p \o rest) \o more = p \o (rest \o more)
      BY EventsOf
    <3>2. rest \o more \in Seq(1..MaxEvent)
      BY EventsOf
    <3> QED BY <2>4, <3>1, <3>2
  <2>6. delivered'[call[r]] = state.data \o (rest \o more)
    BY <2>2, <2>3, <2>5, Zenon
  <2> QED BY <1>3, <2>1, <2>4, <2>5, <2>6 DEF Shown, Begun, Unexecuted
<1>4. CASE state.status \notin {"success", "streaming"}
  BY <1>4 DEF Shown
<1> QED BY <1>2, <1>3, <1>4

\* A run that moves on with its call, the channel standing still.
LEMMA RunMoves ==
  ASSUME QueryInv, DataInv, NEW t \in Tokens, NEW next \in Runs,
         run' = [run EXCEPT ![t] = next],
         UNCHANGED <<channelVars, streaming, call, collected>>,
         next \notin Unexecuted => Begun(t),
         next \in {"awaiting", "resolved"} => run[t] \in {"awaiting", "resolved"},
         next \in Unexecuted => ~streaming \/ ~Begun(t),
         next = "resolved" =>
           IF streaming THEN promise[call[t]] = "ended" /\ buffer[call[t]] = <<>>
           ELSE promise[call[t]] = "replied"
  PROVE  OwnCalls' /\ ReadsOn' /\ Kinds' /\ Settled'
<1>1. \A u \in Tokens : run'[u] = IF u = t THEN next ELSE run[u]
  BY CallsTyped
<1>2. UNCHANGED <<promise, buffer, delivered, minted>>
  BY DEF channelVars, streamVars
<1>3. OwnCalls'
  BY <1>1, <1>2 DEF DataInv, OwnCalls, Begun, Unexecuted
<1>4. ReadsOn'
  BY <1>1, <1>2 DEF DataInv, ReadsOn, Begun, Unexecuted
<1>5. Settled'
  BY <1>1, <1>2 DEF DataInv, Settled
<1>6. Kinds'
  BY <1>2 DEF DataInv, Kinds
<1> QED BY <1>3, <1>4, <1>5, <1>6

\* What is shown keeps its source when a run moves on, unless it is over.
LEMMA RunShows ==
  ASSUME QueryInv, DataInv, NEW t \in Tokens, NEW next \in Runs,
         run' = [run EXCEPT ![t] = next], run[t] # "over",
         UNCHANGED <<channelVars, streaming, state, call>>,
         next \in Unexecuted => ~streaming \/ ~Begun(t)
  PROVE  Shown'
<1>1. \A u \in Tokens : run'[u] = IF u = t THEN next ELSE run[u]
  BY CallsTyped
<1>2. UNCHANGED <<promise, delivered>>
  BY DEF channelVars, streamVars
<1>3. \A id \in Ids : \E rest \in Seq(1..MaxEvent) : delivered'[id] = delivered[id] \o rest
  <2>1. <<>> \in Seq(1..MaxEvent) /\ \A id \in Ids : delivered[id] \o <<>> = delivered[id]
    BY ConcatEmptySeq DEF QueryInv, ChannelInv, ChannelTypeOK
  <2> QED BY <1>2, <2>1
<1> QED BY <1>1, <1>2, <1>3, ShownStays DEF Begun, Unexecuted

LEMMA RefetchData ==
  ASSUME QueryInv, DataInv, Refetch
  PROVE  DataInv'
<1>1. PICK t \in Tokens : t = runToken'
  BY Bounds DEF Refetch, QueryInv, QueryTypeOK, Tokens
<1>2. run[t] = "none"
  BY <1>1 DEF Refetch, QueryInv, QueryTypeOK, Unstarted, Tokens
<1>3. /\ run' = [run EXCEPT ![t] = "launching"] /\ "launching" \in Runs
      /\ UNCHANGED <<channelVars, streaming, call, collected>>
  BY <1>1 DEF Refetch, Runs
<1>4. OwnCalls' /\ ReadsOn' /\ Kinds' /\ Settled'
  BY <1>2, <1>3, RunMoves DEF Begun, Unexecuted
<1>5. Shown'
  BY DEF Refetch, Shown, Snapshot
<1> QED BY <1>4, <1>5 DEF DataInv

LEMMA LaunchesData ==
  ASSUME QueryInv, DataInv, Launches
  PROVE  DataInv'
<1>1. PICK t : t = Head(stack).run
  OBVIOUS
<1>2. t \in Tokens /\ run[t] \in {"launching", "calling"}
  <2>1. stack \in Seq(Frames) /\ stack # <<>> /\ Head(stack).op = "launch"
    BY DEF Launches, Innermost, Quiet, QueryInv, QueryTypeOK
  <2>2. Head(stack) \in Frames /\ (Has(stack, Strays) <=> Head(stack) \in Strays
                                                            \/ Has(Tail(stack), Strays))
    BY <2>1, HasTail
  <2>3. t \in Tokens
    BY <1>1, <2>1, <2>2 DEF Frames
  <2> QED BY <1>1, <2>1, <2>2, <2>3 DEF QueryInv, Launching, Strays
<1>3. /\ run' = [run EXCEPT ![t] = "calling"] /\ "calling" \in Runs
      /\ UNCHANGED <<channelVars, streaming, state, call, collected>>
  BY <1>1 DEF Launches, Runs
<1> QED BY <1>2, <1>3, RunMoves, RunShows DEF DataInv, Begun, Unexecuted

LEMMA AttemptData ==
  ASSUME QueryInv, DataInv, NEW t \in Tokens, AttemptFails(t) \/ AttemptSucceeds(t)
  PROVE  DataInv'
<1>1. PICK next \in Runs :
        /\ run' = [run EXCEPT ![t] = next] /\ run[t] = "awaiting"
        /\ UNCHANGED <<channelVars, streaming, state, call, collected>>
        /\ next \in {"calling", "rejected", "resolved"} /\ (next = "calling" => ~streaming)
        /\ next = "resolved" => \/ promise[call[t]] = "replied"
                                \/ promise[call[t]] = "ended" /\ buffer[call[t]] = <<>>
  BY DEF AttemptFails, AttemptSucceeds, Runs, shownVars
<1>2. call[t] \in Ids /\ Begun(t)
  BY <1>1, CallsTyped DEF Begun, Unexecuted
<1>3. next = "resolved" =>
        IF streaming THEN promise[call[t]] = "ended" /\ buffer[call[t]] = <<>>
        ELSE promise[call[t]] = "replied"
  BY <1>1, <1>2 DEF DataInv, Kinds
<1> QED BY <1>1, <1>2, <1>3, RunMoves, RunShows DEF DataInv, Unexecuted

LEMMA StopData ==
  ASSUME QueryInv, DataInv, NEW t \in Tokens, StopsAtStart(t)
  PROVE  DataInv'
<1>1. /\ run' = [run EXCEPT ![t] = "stopped"] /\ "stopped" \in Runs /\ run[t] = "calling"
      /\ UNCHANGED <<channelVars, streaming, state, call, collected>>
  BY DEF StopsAtStart, Runs, shownVars
<1>2. ~Begun(t)
  BY <1>1 DEF Begun, Unexecuted
<1> QED BY <1>1, <1>2, RunMoves, RunShows DEF DataInv, Unexecuted

LEMMA ExecuteData ==
  ASSUME QueryInv, DataInv, NEW t \in Tokens, Execute(t)
  PROVE  DataInv'
<1>1. /\ run[t] = "calling" /\ (IF streaming THEN Listen ELSE Request)
      /\ run' = [run EXCEPT ![t] = "awaiting"]
      /\ call' = [call EXCEPT ![t] = minted']
      /\ UNCHANGED <<streaming, state, collected>>
  BY DEF Execute, shownVars
<1>2. minted' = minted + 1 /\ minted' \in Ids
  BY <1>1, MintKeeps DEF QueryInv
<1>3. PICK new \in Ids : new = minted' /\ new = minted + 1
  BY <1>2
<1>4. /\ UNCHANGED <<buffer, delivered>> /\ promise' = [promise EXCEPT ![new] = promise'[new]]
      /\ promise'[new] \in (IF streaming THEN {"flowing", "failed"}
                            ELSE {"waiting", "unposted", "failed"})
  BY <1>1, <1>3 DEF Request, Listen, streamVars, QueryInv, ChannelInv, ChannelTypeOK
<1>5. /\ \A u \in Tokens : /\ run'[u] = IF u = t THEN "awaiting" ELSE run[u]
                           /\ call'[u] = IF u = t THEN new ELSE call[u]
      /\ \A id \in Ids : id # new => promise'[id] = promise[id]
  BY <1>1, <1>3, <1>4, CallsTyped DEF QueryInv, ChannelInv, ChannelTypeOK
<1>6. \A u \in Tokens : call[u] \in Nat /\ call[u] <= minted /\ call[u] # new
                          /\ (Begun(u) => call[u] \in Ids)
  BY <1>3, CallsTyped DEF DataInv, OwnCalls
<1>7. minted \in Nat /\ new # 0
  BY <1>3, CallsTyped
<1>8. OwnCalls'
  BY <1>3, <1>4, <1>5, <1>6, <1>7 DEF DataInv, OwnCalls, Begun, Unexecuted, Ids
<1>9. ReadsOn'
  <2>1. buffer[new] = <<>> /\ delivered[new] = <<>> /\ <<>> = <<>> \o <<>>
    BY <1>3, <1>7 DEF DataInv, OwnCalls
  <2>2. streaming => collected[t] = <<>>
    BY <1>1 DEF DataInv, ReadsOn, Begun, Unexecuted
  <2>3. ASSUME NEW u \in Tokens, u # t, streaming
        PROVE  IF run'[u] \in {"awaiting", "resolved"}
                 THEN delivered'[call'[u]] = collected'[u] \o buffer'[call'[u]]
                 ELSE ~Begun(u)' => collected'[u] = <<>>
    BY <1>1, <1>4, <1>5, <2>3 DEF DataInv, ReadsOn, Begun, Unexecuted
  <2>4. streaming => delivered'[call'[t]] = collected'[t] \o buffer'[call'[t]]
    BY <1>1, <1>4, <1>5, <2>1, <2>2
  <2>5. run'[t] = "awaiting" /\ UNCHANGED <<streaming, collected>>
    BY <1>1, <1>5
  <2> QED BY <2>3, <2>4, <2>5 DEF DataInv, ReadsOn
<1>10. Kinds'
  BY <1>1, <1>4, <1>5 DEF DataInv, Kinds
<1>11. Settled'
  BY <1>1, <1>4, <1>5, <1>6 DEF DataInv, Settled, Begun, Unexecuted
<1>12. Shown'
  <2>1. \A id \in Ids : promise[id] = "ended" => id # new
    BY <1>3, <1>7 DEF DataInv, OwnCalls, Ids
  <2>2. \A id \in Ids : \E rest \in Seq(1..MaxEvent) : delivered'[id] = delivered[id] \o rest
    <3>1. <<>> \in Seq(1..MaxEvent) /\ \A id \in Ids : delivered[id] \o <<>> = delivered[id]
      BY ConcatEmptySeq DEF QueryInv, ChannelInv, ChannelTypeOK
    <3> QED BY <1>4, <3>1
  <2> QED BY <1>1, <1>4, <1>5, <2>1, <2>2, ShownStays DEF Begun, Unexecuted
<1> QED BY <1>8, <1>9, <1>10, <1>11, <1>12 DEF DataInv

LEMMA DeltaData ==
  ASSUME QueryInv, DataInv, NEW t \in Tokens, Delta(t)
  PROVE  DataInv'
<1>1. PICK c \in Ids : c = call[t] /\ run[t] = "awaiting" /\ streaming /\ buffer[c] # <<>>
  BY CallsTyped DEF Delta, Begun, Unexecuted
<1>2. /\ buffer' = [buffer EXCEPT ![c] = Tail(@)]
      /\ UNCHANGED <<promise, delivered, minted, streaming, call>>
  BY <1>1 DEF Delta
<1>3. /\ delivered[c] \in Seq(1..MaxEvent) /\ buffer[c] \in Seq(1..MaxEvent)
      /\ buffer \in [Ids -> Seq(1..MaxEvent)]
      /\ collected \in [Tokens -> Seq(1..MaxEvent)]
      /\ delivered[c] = collected[t] \o buffer[c]
  BY <1>1 DEF QueryInv, ChannelInv, ChannelTypeOK, DataInv, ReadsOn
<1>4. /\ \A id \in Ids : id # c => buffer'[id] = buffer[id]
      /\ buffer'[c] = Tail(buffer[c])
      /\ \A u \in Tokens : u # t => call[u] # c
      /\ \A u \in Tokens : Begun(u) => call[u] \in Ids
      /\ c <= minted /\ minted \in Nat /\ c \in Nat
  BY <1>1, <1>2, <1>3, CallsTyped DEF DataInv, OwnCalls, Ids
<1>5. Kinds'
  BY <1>2 DEF DataInv, Kinds
<1>6. CASE Current(t)
  <2> DEFINE head == Head(buffer[c])
             rest == Tail(buffer[c])
             read == Append(collected[t], head)
  <2>1. /\ collected' = [collected EXCEPT ![t] = read] /\ run' = run
        /\ state' = Snapshot("streaming", t, collected'[t])
    BY <1>1, <1>6 DEF Delta, Publish
  <2>2. /\ head \in 1..MaxEvent /\ rest \in Seq(1..MaxEvent) /\ read \in Seq(1..MaxEvent)
        /\ delivered[c] = read \o rest
    <3>1. collected[t] \in Seq(1..MaxEvent)
      BY <1>3
    <3> QED BY <1>1, <1>3, <3>1, EventsOf, Zenon
  <2> HIDE DEF head, rest, read
  <2>3. /\ collected' \in [Tokens -> Seq(1..MaxEvent)] /\ collected'[t] = read
        /\ \A u \in Tokens : u # t => collected'[u] = collected[u]
    BY <1>3, <2>1, <2>2
  <2>4. buffer'[c] = rest
    BY <1>4 DEF rest
  <2>5. OwnCalls'
    BY <1>2, <1>4, <2>1 DEF DataInv, OwnCalls, Begun, Unexecuted
  <2>6. ReadsOn'
    <3>1. ASSUME NEW u \in Tokens, u # t
          PROVE  IF run'[u] \in {"awaiting", "resolved"}
                   THEN delivered'[call'[u]] = collected'[u] \o buffer'[call'[u]]
                   ELSE ~Begun(u)' => collected'[u] = <<>>
      BY <1>1, <1>2, <1>4, <2>1, <2>3, <3>1 DEF DataInv, ReadsOn, Begun, Unexecuted
    <3>2. run'[t] = "awaiting" /\ delivered'[call'[t]] = collected'[t] \o buffer'[call'[t]]
      BY <1>1, <1>2, <2>1, <2>2, <2>3, <2>4
    <3> QED BY <2>3, <3>1, <3>2 DEF ReadsOn
  <2>7. Settled'
    BY <1>1, <1>2, <1>4, <2>1 DEF DataInv, Settled, Begun, Unexecuted
  <2>8. Shown'
    BY <1>1, <1>2, <2>1, <2>2, <2>3 DEF Shown, Snapshot, Begun, Unexecuted
  <2> QED BY <1>5, <2>5, <2>6, <2>7, <2>8 DEF DataInv
<1>7. CASE ~Current(t)
  <2>1. /\ run' = [run EXCEPT ![t] = "over"] /\ UNCHANGED <<collected, state>>
        /\ \A u \in Tokens : run'[u] = IF u = t THEN "over" ELSE run[u]
    BY <1>7, CallsTyped DEF Delta
  <2>2. \A u \in Tokens : Begun(u)' <=> Begun(u)
    BY <1>1, <2>1 DEF Begun, Unexecuted
  <2>3. OwnCalls'
    BY <1>1, <1>2, <1>4, <2>1, <2>2 DEF DataInv, OwnCalls
  <2>4. ReadsOn'
    <3>1. ASSUME NEW u \in Tokens
          PROVE  IF run'[u] \in {"awaiting", "resolved"}
                   THEN delivered'[call'[u]] = collected'[u] \o buffer'[call'[u]]
                   ELSE ~Begun(u)' => collected'[u] = <<>>
      <4>1. CASE run'[u] \in {"awaiting", "resolved"}
        <5>1. u # t /\ run[u] = run'[u] /\ Begun(u)
          BY <2>1, <4>1 DEF Begun, Unexecuted
        <5>2. buffer'[call[u]] = buffer[call[u]]
          BY <1>4, <5>1
        <5>3. delivered[call[u]] = collected[u] \o buffer[call[u]]
          BY <1>1, <4>1, <5>1 DEF DataInv, ReadsOn
        <5> QED BY <1>2, <2>1, <4>1, <5>2, <5>3
      <4>2. CASE run'[u] \notin {"awaiting", "resolved"}
        <5>1. ~Begun(u)' => u # t /\ run[u] = run'[u] /\ ~Begun(u)
          BY <1>1, <2>1, <2>2 DEF Begun, Unexecuted
        <5>2. ~Begun(u)' => collected[u] = <<>>
          BY <1>1, <4>2, <5>1 DEF DataInv, ReadsOn
        <5> QED BY <2>1, <4>2, <5>2
      <4> QED BY <4>1, <4>2
    <3>2. collected' = collected
      BY <2>1
    <3> QED BY <3>1, <3>2 DEF DataInv, ReadsOn
  <2>5. Settled'
    <3>1. \A u \in Tokens : run'[u] = "resolved" =>
            run[u] = "resolved" /\ u # t /\ Begun(u)
      BY <2>1 DEF Begun, Unexecuted
    <3>2. \A u \in Tokens : run'[u] = "resolved" =>
            buffer'[call[u]] = buffer[call[u]]
      BY <1>4, <3>1
    <3> QED BY <1>2, <3>1, <3>2 DEF DataInv, Settled
  <2>6. Shown'
    <3>1. Shown /\ run'[t] = "over" /\ run[t] = "awaiting"
      BY <1>1, <2>1 DEF DataInv
    <3>2. state.run \in Tokens => (run[state.run] = "over" => run'[state.run] = "over")
      BY <2>1
    <3> QED BY <1>2, <2>1, <2>2, <3>1, <3>2 DEF Shown
  <2> QED BY <1>5, <2>3, <2>4, <2>5, <2>6 DEF DataInv
<1> QED BY <1>6, <1>7

LEMMA FinishData ==
  ASSUME QueryInv, DataInv, NEW t \in Tokens, Finish(t)
  PROVE  DataInv'
<1>1. /\ run[t] \in {"resolved", "rejected"} /\ "over" \in Runs
      /\ run' = [run EXCEPT ![t] = "over"] /\ run'[t] = "over"
      /\ UNCHANGED <<channelVars, streaming, call, collected>>
  BY CallsTyped DEF Finish, Runs
<1>2. OwnCalls' /\ ReadsOn' /\ Kinds' /\ Settled'
  BY <1>1, RunMoves DEF Begun, Unexecuted
<1>3. CASE ~Current(t)
  <2>1. UNCHANGED state
    BY <1>3 DEF Finish
  <2>2. "over" \notin Unexecuted
    BY DEF Unexecuted
  <2> QED BY <1>1, <1>2, <2>1, <2>2, RunShows DEF DataInv
<1>4. CASE Current(t) /\ run[t] = "rejected"
  <2>1. state' = Snapshot("error", t, <<>>)
    BY <1>4 DEF Finish, Publish
  <2> QED BY <1>2, <2>1 DEF DataInv, Shown, Snapshot
<1>5. CASE Current(t) /\ run[t] = "resolved"
  <2>1. state' = Snapshot("success", t, IF streaming THEN collected[t] ELSE <<payload[call[t]]>>)
    BY <1>5 DEF Finish, Publish
  <2>2. call[t] \in Ids
    BY <1>5, CallsTyped DEF Begun, Unexecuted
  <2>3. CASE streaming
    <3>1. promise[call[t]] = "ended" /\ buffer[call[t]] = <<>>
      BY <1>5, <2>3 DEF DataInv, Settled
    <3>2. delivered[call[t]] = collected[t] \o <<>> /\ collected[t] \in Seq(1..MaxEvent)
      BY <1>5, <2>3, <3>1 DEF DataInv, ReadsOn
    <3>3. delivered[call[t]] = collected[t]
      BY <3>2, ConcatEmptySeq
    <3> QED BY <1>1, <1>2, <2>1, <2>3, <3>1, <3>3
            DEF DataInv, Shown, Snapshot, Begun, Unexecuted, channelVars, streamVars
  <2>4. CASE ~streaming
    <3>1. payload[call[t]] = call[t]
      BY <1>5, <2>2, <2>4 DEF DataInv, Settled, QueryInv, ChannelInv, AnswersMatch
    <3> QED BY <1>1, <1>2, <2>1, <2>4, <3>1 DEF DataInv, Shown, Snapshot, Begun, Unexecuted
  <2> QED BY <2>3, <2>4
<1> QED BY <1>1, <1>3, <1>4, <1>5

\* The channel's own steps: an open stream is given an event, an ended one nothing.
LEMMA ChannelData ==
  ASSUME QueryInv, DataInv, ChannelStep, UNCHANGED queryVars
  PROVE  DataInv'
<1> USE DEF QueryInv, ChannelInv
<1>1. UNCHANGED <<streaming, state, run, call, collected>>
  BY DEF queryVars, shownVars, runVars
<1>2. \A id \in Ids : /\ promise[id] = "ended" => promise'[id] = "ended"
                      /\ promise[id] = "replied" => promise'[id] = "replied"
                      /\ promise'[id] # promise[id] =>
                           \/ /\ promise[id] \in {"waiting", "unposted"}
                              /\ promise'[id] \in {"failed", "replied"}
                           \/ promise[id] = "flowing" /\ promise'[id] = "ended"
  <2>1. ASSUME NEW id \in Ids, TimesOut(id) \/ GetsReply(id) \/ Answers(id) PROVE <1>2
    BY <2>1 DEF TimesOut, GetsReply, Matches, Answers, RegistryExact, Unposted,
                ChannelTypeOK
  <2>2. CASE GetsEvent
    BY <2>2 DEF GetsEvent
  <2>3. CASE Close
    BY <2>3 DEF Close, RegistryExact, Unposted
  <2> QED BY <2>1, <2>2, <2>3 DEF ChannelStep
<1>3. minted' = minted
  BY DEF ChannelStep, TimesOut, GetsReply, Answers, GetsEvent, Close
<1>4. \A id \in Ids :
        \/ UNCHANGED <<buffer[id], delivered[id]>>
        \/ /\ promise[id] = "flowing" /\ id <= minted
           /\ \E e \in 1..MaxEvent : /\ buffer'[id] = Append(buffer[id], e)
                                     /\ delivered'[id] = Append(delivered[id], e)
  <2>1. CASE GetsEvent
    <3>1. events' \in 1..MaxEvent
      BY <2>1, Bounds DEF GetsEvent, ChannelTypeOK
    <3>2. \A id \in eventSubs : promise[id] = "flowing" /\ id <= minted
      BY DEF RegistryExact, ChannelTypeOK
    <3> QED BY <2>1, <3>1, <3>2 DEF GetsEvent
  <2>2. CASE ~GetsEvent
    BY <2>2 DEF ChannelStep, TimesOut, GetsReply, Answers, Close, BuffersLeft, streamVars
  <2> QED BY <2>1, <2>2
<1>5. \A t \in Tokens : Begun(t) => call[t] \in Ids
  BY CallsTyped
<1>6. OwnCalls'
  <2>1. \A id \in Ids : id > minted => promise[id] = "none" /\ id # 0 /\ minted \in Nat
    BY CallsTyped DEF DataInv, OwnCalls, Ids
  <2>2. \A id \in Ids : id > minted =>
          promise'[id] = "none" /\ buffer'[id] = <<>> /\ delivered'[id] = <<>>
    BY <1>2, <1>4, <2>1 DEF DataInv, OwnCalls
  <2> QED BY <1>1, <1>3, <2>2 DEF DataInv, OwnCalls, Begun, Unexecuted
<1>7. ReadsOn'
  <2>1. ASSUME NEW t \in Tokens, streaming, run[t] \in {"awaiting", "resolved"}
        PROVE  delivered'[call[t]] = collected[t] \o buffer'[call[t]]
    <3>1. PICK c \in Ids : c = call[t]
      BY <1>5, <2>1 DEF Begun, Unexecuted
    <3>2. /\ delivered[c] = collected[t] \o buffer[c]
          /\ collected[t] \in Seq(1..MaxEvent) /\ buffer[c] \in Seq(1..MaxEvent)
      BY <2>1, <3>1 DEF DataInv, ReadsOn, ChannelTypeOK
    <3>3. ASSUME NEW e \in 1..MaxEvent, buffer'[c] = Append(buffer[c], e),
                 delivered'[c] = Append(delivered[c], e)
          PROVE  delivered'[c] = collected[t] \o buffer'[c]
      <4>1. collected[t] \o Append(buffer[c], e) = Append(collected[t] \o buffer[c], e)
        <5>1. \A p, q \in Seq(1..MaxEvent) : p \o Append(q, e) = Append(p \o q, e)
          BY EventsOf
        <5> QED BY <3>2, <5>1, Zenon
      <4> QED BY <3>2, <3>3, <4>1, Zenon
    <3> QED BY <1>4, <3>1, <3>2, <3>3
  <2> QED BY <1>1, <2>1 DEF DataInv, ReadsOn, Begun, Unexecuted
<1>8. Kinds'
  BY <1>1, <1>2 DEF DataInv, Kinds
<1>9. Settled'
  BY <1>1, <1>2, <1>4, <1>5 DEF DataInv, Settled, Begun, Unexecuted
<1>10. Shown'
  <2>1. \A id \in Ids : \E rest \in Seq(1..MaxEvent) : delivered'[id] = delivered[id] \o rest
    <3>1. ASSUME NEW id \in Ids
          PROVE  \E rest \in Seq(1..MaxEvent) : delivered'[id] = delivered[id] \o rest
      <4>1. delivered[id] \in Seq(1..MaxEvent) /\ <<>> \in Seq(1..MaxEvent)
        BY DEF ChannelTypeOK
      <4>2. CASE delivered'[id] = delivered[id]
        BY <4>1, <4>2, ConcatEmptySeq
      <4>3. ASSUME NEW e \in 1..MaxEvent, delivered'[id] = Append(delivered[id], e)
            PROVE  \E rest \in Seq(1..MaxEvent) : delivered'[id] = delivered[id] \o rest
        <5>1. /\ Append(delivered[id], e) = delivered[id] \o <<e>>
              /\ <<e>> \in Seq(1..MaxEvent)
          BY <4>1, EventsOf
        <5> QED BY <4>3, <5>1, Zenon
      <4> QED BY <1>4, <4>2, <4>3
    <3> QED BY <3>1
  <2>2. \A id \in Ids : promise[id] = "ended" =>
                          promise'[id] = "ended" /\ delivered'[id] = delivered[id]
    BY <1>2, <1>4
  <2>3. /\ \A t \in Tokens : run[t] = "over" \/ (streaming /\ Begun(t)) =>
                               run'[t] \notin Unexecuted
                                 /\ call'[t] = call[t]
        /\ \A t \in Tokens : run[t] = "over" => run'[t] = "over"
    BY <1>1 DEF Begun, Unexecuted
  <2> QED BY <1>1, <2>1, <2>2, <2>3, ShownStays
<1> QED BY <1>6, <1>7, <1>8, <1>9, <1>10 DEF DataInv

LEMMA InitData == Init => DataInv
<1> SUFFICES ASSUME Init PROVE DataInv
  OBVIOUS
<1>1. /\ minted = 0 /\ state.status = "idle"
      /\ \A t \in Tokens : call[t] = 0 /\ run[t] = "none" /\ collected[t] = <<>>
      /\ \A id \in Ids : buffer[id] = <<>> /\ delivered[id] = <<>> /\ promise[id] = "none"
  BY DEF Init, ChannelInit, Snapshot
<1>2. collected \in [Tokens -> Seq(1..MaxEvent)]
  <2>1. <<>> \in Seq(1..MaxEvent)
    OBVIOUS
  <2> QED BY <2>1 DEF Init
<1> QED BY <1>1, <1>2 DEF DataInv, OwnCalls, ReadsOn, Kinds, Settled, Shown, Begun, Unexecuted

LEMMA NextData == QueryInv /\ DataInv /\ [Next]_vars => DataInv'
<1> SUFFICES ASSUME QueryInv, DataInv, [Next]_vars PROVE DataInv'
  OBVIOUS
<1>1. CASE Cancel \/ Destroy \/ UserReturns \/ NotifiesNext \/ CallsBack
  BY <1>1, DataStays DEF Cancel, Destroy, UserReturns, NotifiesNext, CallsBack
<1>2. ASSUME NEW l \in Listeners, Subscribe(l) PROVE DataInv'
  BY <1>2, DataStays DEF Subscribe
<1>3. ASSUME NEW t \in Tokens, RunStep(t) PROVE DataInv'
  BY <1>3, ExecuteData, StopData, AttemptData, DeltaData, FinishData DEF RunStep
<1>4. CASE Refetch \/ Launches
  BY <1>4, RefetchData, LaunchesData
<1>5. CASE ChannelStep /\ UNCHANGED queryVars
  BY <1>5, ChannelData
<1>6. CASE UNCHANGED vars
  BY <1>6, DataStays DEF vars, queryVars, shownVars
<1> QED BY <1>1, <1>2, <1>3, <1>4, <1>5, <1>6 DEF Next, FunctionStep

(* The data shown is the answer to a request of the run shown, or the events *)
(* that arrived while its stream was open, in their order and without a gap: *)
(* an answer to an earlier attempt, a chunk of a superseded run's stream or  *)
(* one lost at the close of the channel would break it.                      *)
THEOREM DataIsItsRuns == Spec => []DataIsTheRuns
<1>1. QueryInv /\ DataInv => DataIsTheRuns
  <2> SUFFICES ASSUME QueryInv, DataInv PROVE DataIsTheRuns
    OBVIOUS
  <2>1. CASE state.status = "streaming"
    <3>1. PICK rest \in Seq(1..MaxEvent) : delivered[call[state.run]] = state.data \o rest
      BY <2>1 DEF DataInv, Shown
    <3>2. state.data \in Seq(1..MaxEvent)
      BY <2>1 DEF DataInv, Shown
    <3> DEFINE data == state.data
    <3> HIDE DEF data
    <3>3. data \in Seq(1..MaxEvent) => data = SubSeq(data \o rest, 1, Len(data))
      BY ConcatProperties
    <3> QED BY <2>1, <3>1, <3>2, <3>3 DEF DataIsTheRuns, data
  <2>2. CASE state.status = "success"
    BY <2>2 DEF DataIsTheRuns, DataInv, Shown
  <2> QED BY <2>1, <2>2 DEF DataIsTheRuns
<1>2. Init => DataInv
  BY InitData
<1>3. Spec => []DataInv
  BY <1>2, QueryInvariant, NextData, PTL DEF Spec
<1> QED BY <1>1, <1>3, QueryInvariant, PTL

-------------------------------------------------------------------------------
(* What takes a run on.                                                      *)
StartsLater == \A t \in Tokens : run[t] = "launching" => Has(stack, {Launch(t)})

Alive ==
  /\ destroyed => state.run # runToken
  /\ state.status \in {"pending", "streaming"} /\ state.run = runToken =>
       runToken \in Tokens /\ run[runToken] \notin {"none", "over", "stopped"}
  /\ \A t \in Tokens : run[t] = "awaiting" => promise[call[t]] # "none"

PendingInv == QueryInv /\ DataInv /\ StartsLater /\ Alive

LEMMA OtherFrames ==
  ASSUME stack \in Seq(Frames), stack # <<>>, NEW t, Head(stack) # Launch(t)
  PROVE  Has(stack, {Launch(t)}) <=> Has(Tail(stack), {Launch(t)})
BY HasTail

LEMMA LaunchFrames ==
  /\ \A t : User # Launch(t) /\ Callback # Launch(t) /\ Notify # Launch(t)
  /\ \A t, u : Launch(t) = Launch(u) => t = u
<1>1. /\ User.op = "user" /\ Callback.op = "callback" /\ Notify.op = "notify"
      /\ \A t : Launch(t).op = "launch" /\ Launch(t).run = t
  BY DEF User, Callback, Notify, Launch
<1> QED BY <1>1

LEMMA UserStarts ==
  ASSUME QueryInv, StartsLater, UserRuns, NEW t \in Tokens, run[t] = "launching"
  PROVE  Has(AfterCallback, {Launch(t)})
<1>1. stack \in Seq(Frames) /\ Has(stack, {Launch(t)})
  BY DEF QueryInv, QueryTypeOK, StartsLater
<1>2. CASE stack = <<>>
  BY <1>1, <1>2 DEF AfterCallback, Quiet
<1>3. CASE stack # <<>>
  <2>1. AfterCallback = Tail(stack) /\ Head(stack).op = "user"
    BY <1>3 DEF AfterCallback, UserRuns, Innermost, Quiet
  <2>2. Head(stack) # Launch(t)
    BY <2>1 DEF Launch
  <2> QED BY <1>1, <1>3, <2>1, <2>2, OtherFrames
<1> QED BY <1>2, <1>3

LEMMA NobodyStarts ==
  ASSUME StartsLater, Quiet, NEW t \in Tokens
  PROVE  run[t] # "launching"
BY HasFew DEF StartsLater, Quiet

LEMMA FunctionsStart ==
  ASSUME QueryInv, StartsLater, FunctionStep
  PROVE  StartsLater'
<1>1. stack \in Seq(Frames) /\ stack # <<>> /\ Tail(stack) \in Seq(Frames)
  BY HasTail DEF QueryInv, QueryTypeOK, FunctionStep, UserReturns, NotifiesNext, Launches,
                 CallsBack, Innermost, Quiet
<1>2. PICK head \in Frames : head = Head(stack)
  BY <1>1, HasTail
<1>3. ASSUME head.op # "launch", UNCHANGED run,
             NEW front \in Seq(Frames), stack' = front \o Tail(stack)
      PROVE  StartsLater'
  <2> SUFFICES ASSUME NEW t \in Tokens, run[t] = "launching"
               PROVE  Has(stack', {Launch(t)})
    BY <1>3 DEF StartsLater
  <2>1. Head(stack) # Launch(t)
    BY <1>2, <1>3 DEF Launch
  <2>2. Has(Tail(stack), {Launch(t)})
    BY <1>1, <2>1, OtherFrames DEF StartsLater
  <2> QED BY <1>1, <1>3, <2>2, FramesConcat
<1>4. <<>> \in Seq(Frames) /\ <<User>> \in Seq(Frames) /\ <<>> \o Tail(stack) = Tail(stack)
  BY <1>1, FramesTyped, ConcatEmptySeq
<1>5. CASE UserReturns
  BY <1>2, <1>3, <1>4, <1>5 DEF UserReturns, Innermost, Returns, runVars
<1>6. CASE CallsBack
  BY <1>2, <1>3, <1>4, <1>6 DEF CallsBack, Innermost, Then, runVars
<1>7. CASE NotifiesNext
  <2> DEFINE left == head.left \cap listeners
  <2>1. head.op # "launch" /\ UNCHANGED run /\ left \in SUBSET Listeners
    BY <1>2, <1>7 DEF NotifiesNext, Innermost, runVars, QueryInv, QueryTypeOK
  <2>2. \/ Returns
        \/ \E l \in left :
             Then((IF l \in Reenters THEN <<User>> ELSE <<>>)
                    \o <<[op |-> "notify", left |-> left \ {l}]>>)
    BY <1>2, <1>7 DEF NotifiesNext
  <2>3. CASE Returns
    BY <1>3, <1>4, <2>1, <2>3 DEF Returns
  <2>4. ASSUME NEW l \in left,
               Then((IF l \in Reenters THEN <<User>> ELSE <<>>)
                      \o <<[op |-> "notify", left |-> left \ {l}]>>)
        PROVE  StartsLater'
    <3> DEFINE first == IF l \in Reenters THEN <<User>> ELSE <<>>
               rest == <<[op |-> "notify", left |-> left \ {l}]>>
    <3>1. first \in Seq(Frames)
      BY <1>4
    <3>2. rest \in Seq(Frames)
      <4>1. left \ {l} \in SUBSET Listeners
        BY <2>1
      <4>2. [op |-> "notify", left |-> left \ {l}] \in Frames
        BY <4>1, FramesTyped
      <4> QED BY <4>2
    <3>3. stack' = (first \o rest) \o Tail(stack)
      BY <2>4 DEF Then
    <3> HIDE DEF first, rest
    <3>4. first \o rest \in Seq(Frames)
      BY <3>1, <3>2, ConcatProperties
    <3> QED BY <1>3, <2>1, <3>3, <3>4
  <2> QED BY <2>2, <2>3, <2>4
<1>8. CASE Launches
  <2>1. PICK u \in Tokens : u = head.run
    BY <1>2, <1>8 DEF Launches, Innermost, Frames
  <2>2. run' = [run EXCEPT ![u] = "calling"] /\ stack' = Tail(stack)
    BY <1>2, <1>8, <2>1 DEF Launches, Returns
  <2>3. ASSUME NEW t \in Tokens, run'[t] = "launching"
        PROVE  Has(stack', {Launch(t)})
    <3>1. t # u /\ run[t] = "launching"
      BY <2>2, <2>3 DEF QueryInv, QueryTypeOK
    <3>2. Head(stack) # Launch(t)
      BY <1>2, <2>1, <3>1 DEF Launch
    <3> QED BY <1>1, <2>2, <3>1, <3>2, OtherFrames DEF StartsLater
  <2> QED BY <2>3 DEF StartsLater
<1> QED BY <1>5, <1>6, <1>7, <1>8 DEF FunctionStep

LEMMA FunctionsLive ==
  ASSUME QueryInv, Alive, FunctionStep
  PROVE  Alive'
<1>1. UNCHANGED <<channelVars, tokenVars, state, call>>
  BY DEF FunctionStep, UserReturns, NotifiesNext, Launches, CallsBack, runVars
<1>2. \A t \in Tokens : run'[t] \in {run[t], "calling"}
  BY DEF FunctionStep, UserReturns, NotifiesNext, Launches, CallsBack, runVars, QueryInv,
         QueryTypeOK
<1> QED BY <1>1, <1>2 DEF Alive, tokenVars, channelVars

LEMMA UserLives ==
  ASSUME QueryInv, DataInv, StartsLater, Alive, Refetch \/ Cancel \/ Destroy
  PROVE  StartsLater' /\ Alive'
<1> USE Bounds DEF QueryInv, QueryTypeOK
<1>1. /\ UserRuns /\ runToken \in Nat /\ runToken' = runToken + 1 /\ runToken' \in Tokens
      /\ state.run \in 0..runToken /\ UNCHANGED <<channelVars, call>>
  BY DEF Refetch, Cancel, Destroy, Tokens, runVars
<1>2. state.run # runToken' /\ promise' = promise
  BY <1>1 DEF channelVars
<1>3. CASE Cancel \/ Destroy
  <2>1. stack' = AfterCallback /\ UNCHANGED <<run, state>>
    BY <1>3 DEF Cancel, Destroy, runVars
  <2>2. StartsLater'
    BY <1>1, <2>1, UserStarts DEF StartsLater
  <2> QED BY <1>1, <1>2, <2>1, <2>2 DEF Alive
<1>4. CASE Refetch
  <2>1. PICK t \in Tokens : t = runToken'
    BY <1>1
  <2>2. /\ run' = [run EXCEPT ![t] = "launching"] /\ state' = Snapshot("pending", t, <<>>)
        /\ stack' = <<Notify, Launch(t)>> \o AfterCallback /\ ~destroyed /\ ~destroyed'
    BY <1>4, <2>1 DEF Refetch
  <2>3. \A u \in Tokens : run'[u] = IF u = t THEN "launching" ELSE run[u]
    BY <2>2
  <2>4. <<Notify, Launch(t)>> \in Seq(Frames) /\ AfterCallback \in Seq(Frames)
    <3>1. Notify \in Frames /\ Launch(t) \in Frames
      BY FramesTyped DEF Notify
    <3> QED BY <1>1, <3>1, UserStack
  <2>5. StartsLater'
    <3>1. \A u : Has(stack', {Launch(u)}) <=>
                   Has(<<Notify, Launch(t)>>, {Launch(u)}) \/ Has(AfterCallback, {Launch(u)})
      BY <2>2, <2>4, FramesConcat
    <3>2. Has(<<Notify, Launch(t)>>, {Launch(t)})
      BY HasFew
    <3> QED BY <1>1, <2>3, <3>1, <3>2, UserStarts DEF StartsLater
  <2>6. Alive'
    BY <1>1, <1>2, <2>1, <2>2, <2>3 DEF Alive, Snapshot
  <2> QED BY <2>5, <2>6
<1> QED BY <1>3, <1>4

LEMMA RunsLive ==
  ASSUME QueryInv, DataInv, StartsLater, Alive, NEW t \in Tokens, RunStep(t)
  PROVE  StartsLater' /\ Alive'
<1>1. Quiet /\ UNCHANGED tokenVars /\ run[t] \notin {"none", "launching", "over"}
  BY DEF RunStep, Execute, StopsAtStart, AttemptFails, AttemptSucceeds, Delta, Finish
<1> DEFINE Goes(next) ==
        /\ \A u \in Tokens : run'[u] = IF u = t THEN next ELSE run[u]
        /\ next = "awaiting" => Execute(t) \/ run[t] = "awaiting"
        /\ next \in {"over", "stopped"} =>
             \/ ~Current(t) /\ UNCHANGED state
             \/ Current(t) /\ state'.status \in {"success", "error"}
<1>2. PICK next \in Runs \ {"none", "launching"} : Goes(next)
  <2>1. CASE Execute(t)
    BY <2>1, CallsTyped DEF Execute, Runs
  <2>2. CASE StopsAtStart(t)
    <3>1. Goes("stopped")
      BY <2>2, CallsTyped DEF StopsAtStart, shownVars
    <3> QED BY <3>1 DEF Runs
  <2>3. CASE AttemptFails(t) \/ AttemptSucceeds(t)
    BY <2>3, CallsTyped DEF AttemptFails, AttemptSucceeds, Runs
  <2>4. CASE Delta(t)
    <3>1. CASE Current(t)
      <4>1. Goes("awaiting")
        BY <2>4, <3>1, CallsTyped DEF Delta
      <4> QED BY <4>1 DEF Runs
    <3>2. CASE ~Current(t)
      <4>1. Goes("over")
        BY <2>4, <3>2, CallsTyped DEF Delta
      <4> QED BY <4>1 DEF Runs
    <3> QED BY <3>1, <3>2
  <2>5. CASE Finish(t)
    <3>1. run' = [run EXCEPT ![t] = "over"] /\ (~Current(t) => UNCHANGED state)
      BY <2>5 DEF Finish
    <3>2. Current(t) => state'.status \in {"success", "error"}
      BY <2>5 DEF Finish, Publish, Snapshot
    <3>3. Goes("over")
      BY <3>1, <3>2, CallsTyped
    <3> QED BY <3>3 DEF Runs
  <2> QED BY <2>1, <2>2, <2>3, <2>4, <2>5 DEF RunStep
<1>3. UNCHANGED state \/ (Current(t) /\ state'.run = t)
  BY DEF RunStep, Execute, StopsAtStart, AttemptFails, AttemptSucceeds, Delta, Finish, Publish,
         Snapshot, shownVars
<1>4. StartsLater'
  BY <1>1, <1>2, NobodyStarts DEF StartsLater
<1>5. destroyed' => state'.run # runToken'
  BY <1>1, <1>3 DEF Alive, Current, tokenVars
<1>6. state'.status \in {"pending", "streaming"} /\ state'.run = runToken' =>
        runToken' \in Tokens /\ run'[runToken'] \notin {"none", "over", "stopped"}
  <2> SUFFICES ASSUME state'.status \in {"pending", "streaming"}, state'.run = runToken'
               PROVE  runToken' \in Tokens /\ run'[runToken'] \notin {"none", "over", "stopped"}
    OBVIOUS
  <2>1. CASE Current(t) /\ state'.run = t
    BY <1>1, <1>2, <2>1 DEF Current, tokenVars, Alive
  <2>2. CASE UNCHANGED state
    <3>1. ~destroyed /\ runToken' = runToken /\ runToken \in Tokens
          /\ run[runToken] \notin {"none", "over", "stopped"}
      BY <1>1, <2>2 DEF Alive, tokenVars
    <3> QED BY <1>2, <2>2, <3>1 DEF Current
  <2> QED BY <1>3, <2>1, <2>2
<1>7. \A u \in Tokens : run'[u] = "awaiting" => promise'[call'[u]] # "none"
  <2>1. CASE Execute(t)
    <3>1. minted' = minted + 1 /\ minted' \in Ids
      BY <2>1, MintKeeps DEF Execute, QueryInv
    <3>2. call' = [call EXCEPT ![t] = minted']
      BY <2>1 DEF Execute
    <3>3. /\ promise'[minted'] # "none"
          /\ \A id \in Ids : id # minted' => promise'[id] = promise[id]
      BY <2>1, <3>1 DEF Execute, Request, Listen, QueryInv, ChannelInv, ChannelTypeOK
    <3>4. \A u \in Tokens : u # t /\ run[u] = "awaiting" =>
            call'[u] = call[u] /\ call[u] \in Ids /\ call[u] # minted'
      BY <3>1, <3>2, CallsTyped DEF DataInv, OwnCalls, Begun, Unexecuted
    <3>5. call'[t] = minted'
      BY <3>2, CallsTyped
    <3> QED BY <1>2, <3>3, <3>4, <3>5 DEF Alive
  <2>2. CASE ~Execute(t)
    <3>1. UNCHANGED <<promise, call>>
      BY <2>2 DEF RunStep, StopsAtStart, AttemptFails, AttemptSucceeds, Delta, Finish,
                  channelVars
    <3> QED BY <1>2, <2>2, <3>1 DEF Alive
  <2> QED BY <2>1, <2>2
<1> QED BY <1>4, <1>5, <1>6, <1>7 DEF Alive

LEMMA ChannelLives ==
  ASSUME QueryInv, DataInv, StartsLater, Alive, ChannelStep, UNCHANGED queryVars
  PROVE  StartsLater' /\ Alive'
<1>1. UNCHANGED <<runToken, destroyed, state, stack, run, call>>
  BY DEF queryVars, tokenVars, shownVars, runVars
<1>2. \A id \in Ids : promise[id] # "none" => promise'[id] # "none"
  <2>1. ASSUME NEW id \in Ids, TimesOut(id) \/ GetsReply(id) \/ Answers(id) PROVE <1>2
    BY <2>1 DEF TimesOut, GetsReply, Answers, QueryInv, ChannelInv, ChannelTypeOK
  <2>2. CASE GetsEvent \/ Close
    BY <2>2 DEF GetsEvent, Close
  <2> QED BY <2>1, <2>2 DEF ChannelStep
<1>3. \A t \in Tokens : run[t] = "awaiting" => call[t] \in Ids
  BY CallsTyped DEF Begun, Unexecuted
<1> QED BY <1>1, <1>2, <1>3 DEF StartsLater, Alive

LEMMA InitPending == Init => PendingInv
<1> SUFFICES ASSUME Init PROVE PendingInv
  OBVIOUS
<1>1. QueryInv /\ DataInv
  BY InitInv, InitData
<1>2. \A t \in Tokens : run[t] = "none"
  BY DEF Init
<1>3. ~destroyed /\ state.status = "idle"
  BY DEF Init, Snapshot
<1> QED BY <1>1, <1>2, <1>3 DEF PendingInv, StartsLater, Alive

LEMMA NextPending == PendingInv /\ [Next]_vars => PendingInv'
<1> SUFFICES ASSUME PendingInv, [Next]_vars PROVE StartsLater' /\ Alive'
  BY NextKeeps, NextData DEF PendingInv
<1> USE DEF PendingInv
<1>1. CASE Refetch \/ Cancel \/ Destroy
  BY <1>1, UserLives
<1>2. ASSUME NEW l \in Listeners, Subscribe(l) PROVE StartsLater' /\ Alive'
  BY <1>2 DEF Subscribe, StartsLater, Alive, channelVars, tokenVars, runVars
<1>3. CASE FunctionStep
  BY <1>3, FunctionsStart, FunctionsLive
<1>4. ASSUME NEW t \in Tokens, RunStep(t) PROVE StartsLater' /\ Alive'
  BY <1>4, RunsLive
<1>5. CASE ChannelStep /\ UNCHANGED queryVars
  BY <1>5, ChannelLives
<1>6. CASE UNCHANGED vars
  BY <1>6 DEF vars, queryVars, channelVars, tokenVars, shownVars, runVars, StartsLater, Alive
<1> QED BY <1>1, <1>2, <1>3, <1>4, <1>5, <1>6 DEF Next

(* A snapshot that says pending or streaming, and was not given up, has a    *)
(* run that is taken on: start is still to call the stitch, the engine is    *)
(* about to go on, or the channel has what the run awaits or has settled it  *)
(* (start, setState's re-entrant listeners, onAbort and close).              *)
THEOREM PendingStaysUnderWay == Spec => []PendingIsUnderWay
<1>1. PendingInv => PendingIsUnderWay
  <2> SUFFICES ASSUME PendingInv, state.status \in {"pending", "streaming"},
                      state.run = runToken
               PROVE  UnderWay(runToken)
    BY DEF PendingIsUnderWay
  <2>1. runToken \in Tokens /\ run[runToken] \in Runs \ {"none", "over", "stopped"}
    BY CallsTyped DEF PendingInv, Alive
  <2>2. CASE run[runToken] = "launching"
    BY <2>1, <2>2 DEF PendingInv, StartsLater, Has, UnderWay
  <2>3. CASE run[runToken] = "awaiting"
    <3>1. call[runToken] \in Ids /\ promise[call[runToken]] \in Promises \ {"none"}
      BY <2>1, <2>3, CallsTyped
         DEF PendingInv, Alive, Begun, Unexecuted, QueryInv, ChannelInv, ChannelTypeOK
    <3> QED BY <2>3, <3>1 DEF PendingInv, QueryInv, ChannelInv, RegistryExact, Unposted,
                              Promises, UnderWay
  <2> QED BY <2>1, <2>2, <2>3 DEF Runs, UnderWay
<1> QED BY <1>1, InitPending, NextPending, PTL DEF Spec
===============================================================================
