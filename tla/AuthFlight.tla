------------------------------ MODULE AuthFlight ------------------------------
(***************************************************************************)
(* One auth strategy (oauth2, cookieSession) with its vault entry, and the *)
(* calls of one process that need it.  attemptLoop awaits auth.apply and   *)
(* auth.refresh inside the try, that is, while the call holds its slot of  *)
(* the limiter; whoever finds no token joins the strategy's single flight. *)
(* oauth2's flight is a request of its own adapter; cookieSession's is the *)
(* login stitch, a call like any other, which takes a slot of the same     *)
(* limiter if both are pooled on the host.                                 *)
(*                                                                         *)
(* Tokens (or sessions) are numbered as the server mints them, 0 is none.  *)
(* An entry of the vault that is no longer fresh counts as none.  The      *)
(* vault may be shared with other workers, and its get and set take time.  *)
(***************************************************************************)
EXTENDS Throttle

CONSTANTS
  Login,     \* the login stitch's call, as a caller of the limiter
  MaxMint    \* bound: how many tokens the server mints

Users == Calls \ {Login}

ASSUME AuthFlightAssumption ==
  /\ Login \in Calls
  /\ RateOnly = {}
  /\ MaxMint \in Nat

VARIABLES
  strategy,   \* which strategy it is; it never changes
  vault,      \* the token in the vault
  minted,     \* the newest token
  valid,      \* the tokens the server accepts
  flight,     \* where the in-flight fetch or login stands
  fetched,    \* the token it has come back with
  pc,         \* where each call stands
  carried,    \* the token in each call's request
  refreshed,  \* attemptLoop's `refreshed`
  rejected,   \* the token each call was refused with
  owed        \* whether the flight each refresh joined had yet to be answered

authVars == <<strategy, vault, minted, valid, flight, fetched,
              pc, carried, refreshed, rejected, owed>>
vars == <<throttleVars, authVars>>

(***************************************************************************)
(* "oauth2"   the token endpoint is asked directly                         *)
(* "session"  cookieSession, whose login has a limiter of its own or none  *)
(* "pooled"   cookieSession, whose login draws on the calls' limiter       *)
(***************************************************************************)
Strategies == {"oauth2", "session", "pooled"}

(***************************************************************************)
(* "asking"   the login waits for a slot                                   *)
(* "posting"  the request is out                                           *)
(* "storing"  it brought a token, vault.set is out                         *)
(* "settling" it is about to resolve; "failing", to reject                 *)
(***************************************************************************)
FlightStates == {"none", "asking", "posting", "storing", "settling", "failing"}

(***************************************************************************)
(* "asking"    acquireWithin awaits a slot                                 *)
(* "reading"   apply awaits vault.get                                      *)
(* "missed"    it brought nothing fresh                                    *)
(* "waiting"   apply awaits the flight                                     *)
(* "rereading" cookieSession's apply awaits vault.get once more            *)
(* "sending"   the request is out                                          *)
(* "walled"    the answer was the wall: shouldRefresh says so              *)
(* "renewing"  refresh awaits the flight                                   *)
(* "renewed"   it resolved: the attempt's finally is due, then its redo    *)
(* "retry"     at the top of the loop again                                *)
(* "ending"    the call's last attempt is over, its finally is due         *)
(***************************************************************************)
PCs == {"idle", "asking", "reading", "missed", "waiting", "rereading", "sending",
        "walled", "renewing", "renewed", "retry", "ending"}

Tokens == 0..MaxMint

TypeOK ==
  /\ ThrottleTypeOK
  /\ strategy \in Strategies
  /\ vault \in Tokens /\ minted \in Tokens /\ fetched \in Tokens
  /\ valid \subseteq 1..minted
  /\ flight \in FlightStates
  /\ pc \in [Users -> PCs]
  /\ carried \in [Users -> Tokens]
  /\ refreshed \in [Users -> BOOLEAN]
  /\ rejected \in [Users -> Tokens]
  /\ owed \in [Users -> BOOLEAN]

Init ==
  /\ ThrottleInit
  /\ strategy \in Strategies
  /\ vault = 0 /\ minted = 0 /\ fetched = 0 /\ valid = {}
  /\ flight = "none"
  /\ pc = [c \in Users |-> "idle"]
  /\ carried = [c \in Users |-> 0]
  /\ refreshed = [c \in Users |-> FALSE]
  /\ rejected = [c \in Users |-> 0]
  /\ owed = [c \in Users |-> FALSE]

Goto(c, label) == pc' = [pc EXCEPT ![c] = label]

serverVars == <<vault, minted, valid>>
flightVars == <<strategy, flight, fetched>>
localVars == <<carried, refreshed, rejected, owed>>

-------------------------------------------------------------------------------
\* A call starts, or redoes its attempt: it asks for a slot.
Ask(c) ==
  /\ pc[c] \in {"idle", "retry"}
  /\ Acquire(c)
  /\ Goto(c, "asking")
  /\ UNCHANGED <<serverVars, flightVars, localVars>>

\* The continuation of an acquire, the login's among them; no rate is set.
AcquireProceeds(c) ==
  /\ Slotted(c)
  /\ acq'[c] = "resolved"
  /\ UNCHANGED authVars

\* The slot is granted, auth.apply calls vault.get.
Apply(c) ==
  /\ pc[c] = "asking" /\ acq[c] = "resolved"
  /\ Goto(c, "reading")
  /\ UNCHANGED <<throttleVars, serverVars, flightVars, localVars>>

\* The vault answers: there is a token, the request goes out with it.
Hit(c) ==
  /\ pc[c] = "reading" /\ vault # 0
  /\ carried' = [carried EXCEPT ![c] = vault]
  /\ Goto(c, "sending")
  /\ UNCHANGED <<throttleVars, serverVars, flightVars, refreshed, rejected, owed>>

\* The vault answers: there is none. What that leads to comes in a later step.
Miss(c) ==
  /\ pc[c] = "reading" /\ vault = 0
  /\ Goto(c, "missed")
  /\ UNCHANGED <<throttleVars, serverVars, flightVars, localVars>>

\* Whoever joins the flight now awaits an answer that has yet to come.
Unanswered == flight \in {"none", "asking", "posting"}

\* flight(key, run): the fetch under way is shared, else one is started.
JoinFlight ==
  /\ flight' = IF flight # "none" THEN flight
               ELSE IF strategy = "pooled" THEN "asking" ELSE "posting"
  /\ UNCHANGED <<strategy, fetched>>

\* apply joins the flight.
ApplyJoins(c) ==
  /\ pc[c] = "missed"
  /\ JoinFlight
  /\ Goto(c, "waiting")
  /\ UNCHANGED <<throttleVars, serverVars, localVars>>

\* cookieSession's second vault.get: whatever is there goes out, a login that set no
\* cookie leaves the request without one.
Reread(c) ==
  /\ pc[c] = "rereading"
  /\ carried' = [carried EXCEPT ![c] = vault]
  /\ Goto(c, "sending")
  /\ UNCHANGED <<throttleVars, serverVars, flightVars, refreshed, rejected, owed>>

\* The server answers the request: it goes by the tokens it accepts. An answer to a
\* token it accepts ends the call, for better or worse.
Serve(c) ==
  /\ pc[c] = "sending"
  /\ Goto(c, IF carried[c] \in valid THEN "ending" ELSE "walled")
  /\ UNCHANGED <<throttleVars, serverVars, flightVars, localVars>>

\* Mutant: refresh is satisfied with what the vault holds, as apply is.
WallTrustsVault(c) ==
  /\ pc[c] = "walled" /\ ~refreshed[c]
  /\ refreshed' = [refreshed EXCEPT ![c] = TRUE]
  /\ rejected' = [rejected EXCEPT ![c] = carried[c]]
  /\ owed' = [owed EXCEPT ![c] = Unanswered]
  /\ IF vault # 0 THEN Goto(c, "renewed") /\ UNCHANGED flightVars
                  ELSE JoinFlight /\ Goto(c, "renewing")
  /\ UNCHANGED <<throttleVars, serverVars, carried>>

\* The wall, for the first time: auth.refresh joins the flight, whatever the vault
\* holds. A second one is the call's end.
Wall(c) ==
  /\ pc[c] = "walled"
  /\ IF refreshed[c]
       THEN Goto(c, "ending") /\ UNCHANGED <<flightVars, refreshed, rejected, owed>>
       ELSE /\ refreshed' = [refreshed EXCEPT ![c] = TRUE]
            /\ rejected' = [rejected EXCEPT ![c] = carried[c]]
            /\ owed' = [owed EXCEPT ![c] = Unanswered]
            /\ JoinFlight
            /\ Goto(c, "renewing")
  /\ UNCHANGED <<throttleVars, serverVars, carried>>

\* The attempt's finally gives the slot back before the redo.
Redo(c) ==
  /\ pc[c] = "renewed"
  /\ Release(WithoutGrant(c))
  /\ Goto(c, "retry")
  /\ UNCHANGED <<serverVars, flightVars, localVars>>

\* The last attempt's finally, and the call is over.
End(c) ==
  /\ pc[c] = "ending"
  /\ Release(WithoutGrant(c))
  /\ Goto(c, "idle")
  /\ carried' = [carried EXCEPT ![c] = 0]
  /\ refreshed' = [refreshed EXCEPT ![c] = FALSE]
  /\ rejected' = [rejected EXCEPT ![c] = 0]
  /\ owed' = [owed EXCEPT ![c] = FALSE]
  /\ UNCHANGED <<serverVars, flightVars>>

-------------------------------------------------------------------------------
\* The pooled login call asks for its slot.
LoginAsks ==
  /\ flight = "asking" /\ acq[Login] = "none"
  /\ Acquire(Login)
  /\ UNCHANGED authVars

\* It has it: the request goes out.
LoginPosts ==
  /\ flight = "asking" /\ acq[Login] = "resolved"
  /\ flight' = "posting"
  /\ UNCHANGED <<throttleVars, serverVars, strategy, fetched, pc, localVars>>

\* The server mints a token; some servers revoke the ones before it.
Mint ==
  /\ minted < MaxMint
  /\ minted' = minted + 1
  /\ valid' \in {valid \cup {minted + 1}, {minted + 1}}

\* The login's own call ends with its answer, and gives back the slot it had.
LoginLeaves ==
  IF strategy = "pooled" THEN Release(WithoutGrant(Login)) ELSE UNCHANGED throttleVars

\* The answer brings a token.
FetchBrings ==
  /\ flight = "posting"
  /\ Mint
  /\ fetched' = minted'
  /\ flight' = "storing"
  /\ LoginLeaves
  /\ UNCHANGED <<strategy, vault, pc, localVars>>

\* A login answered without the cookie: nothing is stored, and nothing thrown.
LoginBringsNothing ==
  /\ flight = "posting" /\ strategy # "oauth2"
  /\ fetched' = 0
  /\ flight' = "settling"
  /\ LoginLeaves
  /\ UNCHANGED <<serverVars, strategy, pc, localVars>>

\* The request failed, or its answer was an error.
FetchFails ==
  /\ flight = "posting"
  /\ flight' = "failing"
  /\ LoginLeaves
  /\ UNCHANGED <<serverVars, strategy, fetched, pc, localVars>>

\* vault.set takes effect.
Stored ==
  /\ flight = "storing"
  /\ vault' = fetched
  /\ flight' = "settling"
  /\ UNCHANGED <<throttleVars, minted, valid, strategy, fetched, pc, localVars>>

\* vault.set is rejected.
NotStored ==
  /\ flight = "storing"
  /\ flight' = "failing" /\ fetched' = 0
  /\ UNCHANGED <<throttleVars, serverVars, strategy, pc, localVars>>

\* The flight resolves: its entry is gone before whoever awaits it goes on. oauth2's
\* apply is given the token itself, cookieSession's looks in the vault again.
Settle ==
  /\ flight = "settling"
  /\ flight' = "none"
  /\ pc' = [c \in Users |->
             IF pc[c] = "renewing" THEN "renewed"
             ELSE IF pc[c] # "waiting" THEN pc[c]
             ELSE IF strategy = "oauth2" THEN "sending" ELSE "rereading"]
  /\ carried' = [c \in Users |-> IF pc[c] = "waiting" /\ strategy = "oauth2" THEN fetched
                                 ELSE carried[c]]
  /\ owed' = [c \in Users |-> owed[c] /\ (pc[c] = "renewing" => fetched # 0)]
  /\ fetched' = 0
  /\ UNCHANGED <<throttleVars, serverVars, strategy, refreshed, rejected>>

\* Mutant: a rejected flight stays in the map.
FailPoisons ==
  /\ flight = "failing"
  /\ pc' = [c \in Users |-> IF pc[c] \in {"waiting", "renewing"} THEN "ending" ELSE pc[c]]
  /\ UNCHANGED <<throttleVars, serverVars, flightVars, localVars>>

\* Mutant: only the call that started the flight is told.
FailTellsOne ==
  /\ flight = "failing"
  /\ flight' = "none"
  /\ \E c \in Users :
       /\ pc[c] \in {"waiting", "renewing"}
       /\ Goto(c, "ending")
  /\ UNCHANGED <<throttleVars, serverVars, strategy, fetched, localVars>>

\* The flight rejects: so does the apply or refresh of everyone that awaits it.
Fail ==
  /\ flight = "failing"
  /\ flight' = "none"
  /\ pc' = [c \in Users |-> IF pc[c] \in {"waiting", "renewing"} THEN "ending" ELSE pc[c]]
  /\ UNCHANGED <<throttleVars, serverVars, strategy, fetched, localVars>>

-------------------------------------------------------------------------------
\* The entry's time is up: its ttl, or the margin `skew` before it.
Lapse ==
  /\ vault # 0
  /\ vault' = 0
  /\ UNCHANGED <<throttleVars, minted, valid, flightVars, pc, localVars>>

\* The server stops accepting a token.
Revoke ==
  /\ \E t \in valid : valid' = valid \ {t}
  /\ UNCHANGED <<throttleVars, vault, minted, flightVars, pc, localVars>>

\* Another worker stores a token of its own under the same key.
OtherWorkerStores ==
  /\ Mint
  /\ vault' = minted'
  /\ UNCHANGED <<throttleVars, flightVars, pc, localVars>>

UserStep(c) ==
  \/ Apply(c) \/ Hit(c) \/ Miss(c) \/ ApplyJoins(c) \/ Reread(c)
  \/ Serve(c) \/ Wall(c) \/ Redo(c) \/ End(c)
  \/ (pc[c] = "retry" /\ Ask(c))

FlightStep ==
  \/ LoginAsks \/ LoginPosts
  \/ FetchBrings \/ LoginBringsNothing \/ FetchFails
  \/ Stored \/ NotStored \/ Settle \/ Fail

Next ==
  \/ \E c \in Users : Ask(c) \/ UserStep(c)
  \/ \E c \in Calls : AcquireProceeds(c)
  \/ FlightStep
  \/ Lapse \/ Revoke \/ OtherWorkerStores

Spec == Init /\ [][Next]_vars

\* Requests are answered, the vault answers, continuations run. Nobody has to call.
FairSpec ==
  /\ Spec
  /\ \A c \in Users : WF_vars(UserStep(c))
  /\ \A c \in Calls : WF_vars(AcquireProceeds(c))
  /\ WF_vars(FlightStep)

-------------------------------------------------------------------------------
(***************************************************************************)
(* Whoever awaits a flight awaits one that is under way: no settled or     *)
(* rejected flight keeps a caller, or stays in the map for the next one    *)
(* ("cleared on settle, so a rejected run never poisons later retries"),   *)
(* and the login holds a slot only while there is a flight.                *)
(***************************************************************************)
FlightExact ==
  /\ \A c \in Users : pc[c] \in {"waiting", "renewing"} => flight # "none"
  /\ flight # "none" => \E c \in Users : pc[c] \in {"waiting", "renewing"}
  /\ acq[Login] # "none" => strategy = "pooled" /\ flight \in {"asking", "posting"}

(***************************************************************************)
(* A refresh is worth its round trip: the redone attempt does not carry    *)
(* the token it was refused with ("Force a fresh token, ignoring the       *)
(* cache"), if the flight it joined had yet to be answered ("an in-flight  *)
(* fetch IS the freshest token") and set a cookie.  A flight that was only *)
(* waiting for vault.set to return is not: what it stored may have been    *)
(* replaced, used and refused in the meantime.                             *)
(***************************************************************************)
RedoCarriesAnother ==
  \A c \in Users :
    pc[c] = "sending" /\ owed[c] /\ rejected[c] # 0 => carried[c] # rejected[c]

\* Every slot is held by a call that awaits the flight, whose login awaits a slot.
SelfBlocked ==
  /\ flight = "asking" /\ acq[Login] = "queued"
  /\ \A c \in Owners : pc[c] \in {"waiting", "renewing"}

(***************************************************************************)
(* Every call ends, whatever expires, is revoked or fails, unless the      *)
(* calls have locked their own login out: the one way to get stuck.        *)
(***************************************************************************)
CallsEnd == \A c \in Users : pc[c] # "idle" ~> pc[c] = "idle" \/ SelfBlocked
===============================================================================
