----------------------------- MODULE LimitedJev -----------------------------
(***************************************************************************)
(* The judge's asker as internal/app/app.go builds it: the Limiter of      *)
(* internal/budget wrapped around the Client of internal/jev.  The limiter *)
(* counts calls of Ask; the client may make several requests of one.  What *)
(* the two make of the ceilings together is seen at the API: in the        *)
(* requests that leave and in what they cost.                              *)
(***************************************************************************)
EXTENDS Limiter, Integers

CONSTANTS MaxRetriesOption, RetryAfters, NoHeader     \* the client's

\* What JevClient assumes of them.
ASSUME LimitedAssumption ==
    /\ MaxRetriesOption \in Int /\ MaxRetriesOption <= 35
    /\ RetryAfters \subseteq Nat /\ NoHeader \notin RetryAfters

VARIABLES
    place, until, ended, requests,          \* the client's
    http,       \* history: when each request left
    afterTrip   \* history: how many left after the breaker tripped

callVars    == <<place, until, ended, requests>>
limitedVars == <<vars, callVars, http, afterTrip>>

Client == INSTANCE JevClient

LimitedInit ==
    /\ Init /\ Client!ClientInit
    /\ http = <<>> /\ afterTrip = 0

\* reserve; the caller has no call of the client's open.
Reserve(a) ==
    /\ place[a] = "idle"
    /\ RefuseSpend(a) \/ RefuseRate(a) \/ Check(a) \/ Claim(a)
    /\ UNCHANGED <<callVars, http, afterTrip>>

Call(a) ==
    /\ pc[a] = "calling"
    /\ Client!Start(a)
    /\ UNCHANGED <<vars, http, afterTrip>>

\* The client's call goes on; each request that leaves is written down.
Proceed(a) ==
    /\ \/ Client!Attempt(a) \/ Client!Wake(a) \/ Client!SleepEnds(a) \/ Client!Expire(a)
    /\ http' = IF Client!Send(a) THEN Append(http, clock) ELSE http
    /\ afterTrip' = IF Client!Send(a) /\ tripped THEN afterTrip + 1 ELSE afterTrip
    /\ UNCHANGED vars

Finish(a) ==
    /\ Client!Return(a)
    /\ IF place[a] = "answered"
       THEN \E cost \in Costs : Record(a, cost)
       ELSE CallFails(a)
    /\ UNCHANGED <<http, afterTrip>>

LimitedTick == Tick /\ Client!ClientTick /\ UNCHANGED <<http, afterTrip>>

LimitedNext ==
    \/ \E a \in Callers : Reserve(a) \/ Call(a) \/ Proceed(a) \/ Finish(a)
    \/ LimitedTick

LimitedSpec == LimitedInit /\ [][LimitedNext]_limitedVars

-----------------------------------------------------------------------------
(* What leaves within a window is bounded: by the retries of the calls the  *)
(* ceiling lets through and of those still in flight.                       *)
RequestRateBounded ==
    MaxCalls > 0 =>
        \A i \in 1 .. Len(http) :
            LET span == (MaxCalls + Cardinality(Callers)) * (Client!maxRetries + 1)
            IN  i + span <= Len(http) => http[i] + Window <= http[i + span]

(* Once the breaker has tripped, only calls of the other callers that were  *)
(* in flight still send: all of their attempts at most.                     *)
RequestsAfterTrip ==
    afterTrip <= (Cardinality(Callers) - 1) * (Client!maxRetries + 1)
=============================================================================
