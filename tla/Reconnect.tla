----------------------------- MODULE Reconnect -----------------------------
(* One run of a streaming stitch (`runStreaming`, engine.ts): it opens the  *)
(* body, decodes it into deltas, and reopens a dropped body where it can     *)
(* resume it.  The origin's feed is the events 1 .. Length; those in `ids`   *)
(* carry an id.                                                              *)
EXTENDS Naturals, Sequences, Functions

CONSTANTS
    Length,      \* events of the origin's feed
    MaxAttempts, \* `reconnect.attempts`: opens after the first one
    CanResume,   \* `sse.reconnect` is set and the surface has the resume hooks
    Contract,    \* `output` is set: each event is validated, over an await
    Throws,      \* the validator may throw instead of reporting an issue
    Signal,      \* the caller passed a signal and may abort
    Budget       \* `timeout.total` is set and may run out

ASSUME SizesAssumption == Length \in Nat /\ MaxAttempts \in Nat
ASSUME FlagsAssumption ==
    {CanResume, Contract, Throws, Signal, Budget} \subseteq BOOLEAN

Event == 1 .. Length
NoToken == 0

VARIABLES
    at,        \* the await or yield the run stands at
    attempt,   \* opens so far
    lastToken, \* the id of the last event that carried one
    delivered, \* `chunks`, each of which was yielded as a delta
    aborted,   \* the caller's signal
    ending,    \* what the consumer saw last: see Endings
    ids,       \* the events that carry an id (fixed by the origin)
    position,  \* the event of the open body that was read last
    threw      \* history: the events on which the validator threw

reconnectVars == <<at, attempt, lastToken, delivered, aborted, ending, ids, position, threw>>

Places == {"opening", "charging", "sending", "reading", "validating", "resting", "over"}
Endings == {"none",     \* the stream goes on
            "finished", \* `result`, then `done`
            "failed",   \* `error`, then `done`
            "thrown"}   \* the generator threw, with neither

ReconnectInit ==
    /\ at = "opening" /\ attempt = 0
    /\ lastToken = NoToken /\ delivered = <<>>
    /\ aborted = FALSE /\ ending = "none"
    /\ ids \in SUBSET Event /\ position = 0 /\ threw = {}

EndRun(how) == at' = "over" /\ ending' = how

(* The open body broke, or the open did.  What is delivered already must not *)
(* be asked for again: there is a resume point, or nothing was delivered.    *)
RecoverableAlways == TRUE \* mutant

Recoverable == lastToken # NoToken \/ delivered = <<>>

MayReopen == ~aborted /\ CanResume /\ Recoverable /\ attempt <= MaxAttempts

Drop ==
    IF MayReopen THEN at' = "resting" /\ UNCHANGED ending
                 ELSE EndRun("failed")

----------------------------------------------------------------------------
(* `openAndDecode`: count the open and, unless aborted, ask for the rate.    *)
Open ==
    /\ at = "opening"
    /\ attempt' = attempt + 1
    /\ IF aborted THEN EndRun("failed")
                  ELSE at' = "charging" /\ UNCHANGED ending
    /\ UNCHANGED <<lastToken, delivered, aborted, ids, position, threw>>

(* A grant may have been won before the abort that follows it.               *)
Charged ==
    /\ at = "charging"
    /\ at' = "sending"
    /\ UNCHANGED <<attempt, lastToken, delivered, aborted, ending, ids, position, threw>>

(* The budget ran out, the caller aborted, or the limiter's store rejected.  *)
NotCharged ==
    /\ at = "charging"
    /\ EndRun("failed")
    /\ UNCHANGED <<attempt, lastToken, delivered, aborted, ids, position, threw>>

(* The origin serves what follows the event whose id the request replays, or *)
(* all of the feed.  A first open has no id to replay yet.                   *)
Opened ==
    /\ at = "sending"
    /\ at' = "reading"
    /\ position' = lastToken
    /\ UNCHANGED <<attempt, lastToken, delivered, aborted, ending, ids, threw>>

(* `auth.apply`, a hook or the transport threw.                              *)
UnreachableIsNoOpen == \* mutant
    /\ at = "sending"
    /\ attempt' = attempt - 1
    /\ Drop
    /\ UNCHANGED <<lastToken, delivered, aborted, ids, position, threw>>

Unreachable ==
    /\ at = "sending"
    /\ Drop
    /\ UNCHANGED <<attempt, lastToken, delivered, aborted, ids, position, threw>>

(* The origin answered with a status that is a failure.                      *)
Refused ==
    /\ at = "sending"
    /\ EndRun("failed")
    /\ UNCHANGED <<attempt, lastToken, delivered, aborted, ids, position, threw>>

----------------------------------------------------------------------------
(* An event arrives.  Its id counts before the event has been validated.     *)
Receive ==
    /\ at = "reading" /\ ~aborted /\ position < Length
    /\ position' = position + 1
    /\ lastToken' = IF position' \in ids THEN position' ELSE lastToken
    /\ IF Contract
       THEN at' = "validating" /\ UNCHANGED delivered
       ELSE delivered' = Append(delivered, position') /\ UNCHANGED at
    /\ UNCHANGED <<attempt, aborted, ending, ids, threw>>

(* The next event arrives after the abort, or the body breaks.               *)
BodyDrops ==
    /\ at = "reading"
    /\ Drop
    /\ UNCHANGED <<attempt, lastToken, delivered, aborted, ids, position, threw>>

BodyEnds ==
    /\ at = "reading" /\ position = Length
    /\ EndRun("finished")
    /\ UNCHANGED <<attempt, lastToken, delivered, aborted, ids, position, threw>>

(* The signal is looked at again: validation was an await.                   *)
ValidUnchecked == \* mutant
    /\ at = "validating"
    /\ delivered' = Append(delivered, position)
    /\ at' = "reading"
    /\ UNCHANGED <<attempt, lastToken, aborted, ending, ids, position, threw>>

Valid ==
    /\ at = "validating"
    /\ IF aborted
       THEN Drop /\ UNCHANGED delivered
       ELSE /\ delivered' = Append(delivered, position)
            /\ at' = "reading"
            /\ UNCHANGED ending
    /\ UNCHANGED <<attempt, lastToken, aborted, ids, position, threw>>

InvalidIsADrop == \* mutant
    /\ at = "validating"
    /\ Drop
    /\ UNCHANGED <<attempt, lastToken, delivered, aborted, ids, position, threw>>

Invalid ==
    /\ at = "validating"
    /\ EndRun("failed")
    /\ UNCHANGED <<attempt, lastToken, delivered, aborted, ids, position, threw>>

(* The `try` around the body catches this like a broken body.                *)
ValidatorThrows ==
    /\ Throws /\ at = "validating"
    /\ threw' = threw \union {position}
    /\ Drop
    /\ UNCHANGED <<attempt, lastToken, delivered, aborted, ids, position>>

----------------------------------------------------------------------------
(* `sleepWithin`: the backoff ends, or is cut short, which nobody catches.   *)
Rested ==
    /\ at = "resting" /\ ~aborted
    /\ at' = "opening"
    /\ UNCHANGED <<attempt, lastToken, delivered, aborted, ending, ids, position, threw>>

RestCut ==
    /\ at = "resting" /\ (aborted \/ Budget)
    /\ EndRun("thrown")
    /\ UNCHANGED <<attempt, lastToken, delivered, aborted, ids, position, threw>>

Abort ==
    /\ Signal /\ ~aborted /\ at # "over"
    /\ aborted' = TRUE
    /\ UNCHANGED <<at, attempt, lastToken, delivered, ending, ids, position, threw>>

Step ==
    \/ Open \/ Charged \/ NotCharged
    \/ Opened \/ Unreachable \/ Refused
    \/ Receive \/ BodyDrops \/ BodyEnds
    \/ Valid \/ Invalid \/ ValidatorThrows
    \/ Rested \/ RestCut

Over == at = "over" /\ UNCHANGED reconnectVars

ReconnectNext == Step \/ Abort \/ Over

ReconnectSpec == ReconnectInit /\ [][ReconnectNext]_reconnectVars /\ WF_reconnectVars(Step)

----------------------------------------------------------------------------
(* Types.  A run opens at most 1 + `reconnect.attempts` bodies.              *)
ReconnectTypeOK ==
    /\ at \in Places /\ ending \in Endings
    /\ attempt \in 0 .. MaxAttempts + 1
    /\ lastToken \in {NoToken} \union ids /\ ids \subseteq Event
    /\ position \in 0 .. Length /\ threw \subseteq Event
    /\ delivered \in Seq(Event) /\ aborted \in BOOLEAN

(* An event that carries an id is delivered once, however often the body     *)
(* drops; so is every event ahead of the first id.  Hence a feed without ids *)
(* is never replayed.                                                        *)
DeliveredOnce ==
    \A m, n \in DOMAIN delivered :
        delivered[m] = delivered[n] /\ m # n =>
            /\ delivered[m] \notin ids
            /\ \E e \in ids : e < delivered[m]

(* A stream that ends well delivered the whole feed, apart from events on    *)
(* which the validator threw.                                                *)
NoGap ==
    ending = "finished" => Event \ threw \subseteq Range(delivered)

(* Once the caller has aborted, nothing more is delivered, whatever awaits   *)
(* the abort falls into.                                                     *)
SilentOnceAborted == [][aborted => UNCHANGED delivered]_reconnectVars

(* Every run comes to its end, whatever breaks how often.                    *)
StreamEnds == <>(at = "over")

(* What the docs say of a resumed stream: it "continues from where it        *)
(* broke", from "the last id delivered".  Not so when the validator throws:  *)
(* the id of the event it threw on counts as seen, and the reopened body     *)
(* starts behind an event nobody got.                                        *)
ContinuesWhereItBroke ==
    ending = "finished" => Event \subseteq Range(delivered)


(* The inductive invariant.  `Reached` is how far the feed has been served:  *)
(* what lies behind was delivered or threw, and what was delivered beyond is *)
(* due to come again, which is why it must have no id and follow one.        *)
Reached == CASE at = "reading"    -> position
             [] at = "validating" -> position - 1
             [] OTHER             -> lastToken

ServedInOrder == at # "over" => 1 .. Reached \subseteq Range(delivered) \union threw

ComesAgain ==
    at # "over" =>
        \A n \in DOMAIN delivered :
            delivered[n] > Reached =>
                delivered[n] \notin ids /\ \E e \in ids : e <= Reached

IdsSeen == \A n \in DOMAIN delivered : delivered[n] \in ids => delivered[n] <= lastToken

TokenBehind ==
    /\ at = "reading" => lastToken <= position
    /\ at = "validating" => /\ position >= 1 /\ lastToken <= position
                            /\ position \in ids => lastToken = position

OpensLeft == at \in {"opening", "resting"} => attempt <= MaxAttempts

ReconnectInv ==
    /\ ReconnectTypeOK /\ OpensLeft /\ ServedInOrder /\ ComesAgain /\ IdsSeen /\ TokenBehind
    /\ DeliveredOnce /\ NoGap
=============================================================================
