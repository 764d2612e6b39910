----------------------------- MODULE JevClient -----------------------------
(***************************************************************************)
(* internal/jev/jev.go: Client.Ask.  A call sends a request to the model's *)
(* API and sends it again, at most maxRetries times, while the API answers *)
(* with a rate limit or a server fault; it waits in between, as long as    *)
(* the answer's Retry-After says or else for an exponential backoff, and   *)
(* it ends when its context does.  A client is used by many goroutines at  *)
(* a time and keeps nothing between calls.                                 *)
(*                                                                         *)
(* A tick is the backoff's unit, a quarter of a second.  Callers ask at    *)
(* least one question and their questions can be encoded; what is in a     *)
(* request or an answer does not matter here.  A request that cannot be    *)
(* built or sent, whose connection breaks or whose answer cannot be read   *)
(* or decoded is "broken"; an answer other than 200, 429 and 5xx is        *)
(* "fatal".                                                                *)
(***************************************************************************)
EXTENDS Integers, Sequences

CONSTANTS Callers,
          MaxRetriesOption,   \* Options.MaxRetries
          RetryAfters,        \* the waits that answers ask for, in ticks
          NoHeader,           \* an answer without a usable Retry-After
          MaxClock            \* bound: the time at which the model stops

\* From the 36th retry on the code's doubling overflows to a wait below zero, and
\* so does a Retry-After of centuries; nothing sets such an option.
ASSUME ClientAssumption ==
    /\ MaxRetriesOption \in Int /\ MaxRetriesOption <= 35
    /\ RetryAfters \subseteq Nat /\ NoHeader \notin RetryAfters
    /\ MaxClock \in Nat

VARIABLES
    clock,
    place,     \* where each caller is in Ask
    until,     \* when its backoff is over
    ended,     \* its context has been cancelled or has expired
    requests   \* history: the requests of each caller's call and their answers

clientVars == <<clock, place, until, ended, requests>>

\* New's default.
maxRetries == IF MaxRetriesOption = 0 THEN 2 ELSE MaxRetriesOption

Answers == {"none", "ok", "broken", "fatal", "retry"}

Requests == [sent : 0 .. MaxClock, over : 0 .. MaxClock, answer : Answers,
             wait : RetryAfters \cup {NoHeader}]

ClientTypeOK ==
    /\ clock \in 0 .. MaxClock
    /\ place \in [Callers -> {"idle", "ready", "sent", "waiting", "answered", "failed"}]
    /\ until \in [Callers -> Nat]
    /\ ended \in [Callers -> BOOLEAN]
    /\ requests \in [Callers -> Seq(Requests)]

ClientInit ==
    /\ clock = 0
    /\ place = [a \in Callers |-> "idle"]
    /\ until = [a \in Callers |-> 0]
    /\ ended = [a \in Callers |-> FALSE]
    /\ requests = [a \in Callers |-> <<>>]

Became(a, state) == place' = [place EXCEPT ![a] = state]

backoffDeaf(attempt, wait) == 2 ^ attempt      \* mutated: Retry-After ignored
backoffSigned(attempt, wait) ==                \* mutated: a date in the past
    IF wait # NoHeader THEN wait - 1 ELSE 2 ^ attempt

\* backoff: the server's Retry-After if there was one, else 250 ms doubled for
\* each attempt and 8 s at most, which the fifth reaches.
backoff(attempt, wait) ==
    IF wait # NoHeader THEN wait ELSE IF attempt < 5 THEN 2 ^ attempt ELSE 32

\* The context's end; the caller's deadline, if it has one, or a cancellation.
Expire(a) ==
    /\ place[a] \in {"ready", "sent", "waiting"} /\ ~ended[a]
    /\ ended' = [ended EXCEPT ![a] = TRUE]
    /\ UNCHANGED <<clock, place, until, requests>>

-----------------------------------------------------------------------------
\* A negative maxRetries makes no attempt at all.
Start(a) ==
    /\ place[a] = "idle"
    /\ Became(a, IF maxRetries < 0 THEN "failed" ELSE "ready")
    /\ UNCHANGED <<clock, until, ended, requests>>

\* attempt: a request whose context has ended is not sent.
Send(a) ==
    /\ place[a] = "ready" /\ ~ended[a]
    /\ Became(a, "sent")
    /\ requests' = [requests EXCEPT ![a] =
                       Append(@, [sent |-> clock, over |-> clock, answer |-> "none",
                                  wait |-> NoHeader])]
    /\ UNCHANGED <<clock, until, ended>>

SendFails(a) ==
    /\ place[a] = "ready" /\ ended[a]
    /\ Became(a, "failed")
    /\ UNCHANGED <<clock, until, ended, requests>>

Answered(a, answer, wait) ==
    requests' = [requests EXCEPT ![a][Len(requests[a])] =
                    [@ EXCEPT !.over = clock, !.answer = answer, !.wait = wait]]

Succeed(a) ==
    /\ place[a] = "sent"
    /\ Answered(a, "ok", NoHeader)
    /\ Became(a, "answered")
    /\ UNCHANGED <<clock, until, ended>>

\* Errors that are not retried.
Fail(a) ==
    /\ place[a] = "sent"
    /\ \E answer \in {"broken", "fatal"} : Answered(a, answer, NoHeader)
    /\ Became(a, "failed")
    /\ UNCHANGED <<clock, until, ended>>

RetryEager(a, wait) ==      \* mutated: one attempt too many
    /\ place[a] = "sent"
    /\ Answered(a, "retry", wait)
    /\ LET attempt == Len(requests[a])
           pause   == backoff(attempt, wait)
       IN  IF ended[a] \/ attempt > maxRetries + 1
           THEN Became(a, "failed") /\ UNCHANGED until
           ELSE /\ Became(a, IF pause = 0 THEN "ready" ELSE "waiting")
                /\ until' = [until EXCEPT ![a] = IF pause = 0 THEN 0 ELSE clock + pause]
    /\ UNCHANGED <<clock, ended>>

RetryLazy(a, wait) ==      \* mutated: one attempt too few
    /\ place[a] = "sent"
    /\ Answered(a, "retry", wait)
    /\ LET attempt == Len(requests[a])
           pause   == backoff(attempt, wait)
       IN  IF ended[a] \/ attempt >= maxRetries
           THEN Became(a, "failed") /\ UNCHANGED until
           ELSE /\ Became(a, IF pause = 0 THEN "ready" ELSE "waiting")
                /\ until' = [until EXCEPT ![a] = IF pause = 0 THEN 0 ELSE clock + pause]
    /\ UNCHANGED <<clock, ended>>

\* A 429 or 5xx.  The context is asked first; then the attempts are counted,
\* and a wait of nothing is no wait.
Retry(a, wait) ==
    /\ place[a] = "sent"
    /\ Answered(a, "retry", wait)
    /\ LET attempt == Len(requests[a])
           pause   == backoff(attempt, wait)
       IN  IF ended[a] \/ attempt > maxRetries
           THEN Became(a, "failed") /\ UNCHANGED until
           ELSE /\ Became(a, IF pause = 0 THEN "ready" ELSE "waiting")
                /\ until' = [until EXCEPT ![a] = IF pause = 0 THEN 0 ELSE clock + pause]
    /\ UNCHANGED <<clock, ended>>

\* sleep: the timer, or the context; with both due either may win.
Wake(a) ==
    /\ place[a] = "waiting" /\ clock >= until[a]
    /\ Became(a, "ready")
    /\ until' = [until EXCEPT ![a] = 0]
    /\ UNCHANGED <<clock, ended, requests>>

SleepDeaf(a) == FALSE /\ UNCHANGED clientVars      \* mutated: time.Sleep

SleepEnds(a) ==
    /\ place[a] = "waiting" /\ ended[a]
    /\ Became(a, "failed")
    /\ until' = [until EXCEPT ![a] = 0]
    /\ UNCHANGED <<clock, ended, requests>>

\* The caller has the outcome, and nothing is left of the call.
Return(a) ==
    /\ place[a] \in {"answered", "failed"}
    /\ Became(a, "idle")
    /\ ended' = [ended EXCEPT ![a] = FALSE]
    /\ requests' = [requests EXCEPT ![a] = <<>>]
    /\ UNCHANGED <<clock, until>>

ClientTick ==
    /\ clock < MaxClock
    /\ clock' = clock + 1
    /\ UNCHANGED <<place, until, ended, requests>>

Attempt(a) ==
    \/ Send(a) \/ SendFails(a) \/ Succeed(a) \/ Fail(a)
    \/ \E wait \in RetryAfters \cup {NoHeader} : Retry(a, wait)

ClientNext ==
    \/ \E a \in Callers : Start(a) \/ Attempt(a) \/ Wake(a) \/ SleepEnds(a) \/ Expire(a)
                          \/ Return(a)
    \/ ClientTick

ClientSpec == ClientInit /\ [][ClientNext]_clientVars

\* Every call has a deadline (JudgeTimeout), the HTTP client returns when the
\* context has ended, and a goroutine that can run runs in the end.  Nothing
\* is assumed of the API.
Unblock(a) ==
    \/ Send(a) \/ SendFails(a) \/ Wake(a) \/ SleepEnds(a)
    \/ ended[a] /\ Fail(a)

FairClientSpec ==
    /\ ClientSpec
    /\ \A a \in Callers : WF_clientVars(Unblock(a)) /\ WF_clientVars(Expire(a))

-----------------------------------------------------------------------------
Attempts(a) == Len(requests[a])

(* A call sends no more than 1 + maxRetries requests, and sends another one *)
(* only after an answer that a retry could better.                          *)
RetriesJustified ==
    \A a \in Callers :
        /\ Attempts(a) <= maxRetries + 1 \/ requests[a] = <<>>
        /\ \A i \in 1 .. Attempts(a) - 1 : requests[a][i].answer = "retry"

(* No request leaves before the wait the last answer asked for is over, and *)
(* without Retry-After the waits double up to 8 s: whatever else happens.   *)
WaitsHonoured ==
    \A a \in Callers : \A i \in 1 .. Attempts(a) - 1 :
        LET asked == requests[a][i].wait
        IN  requests[a][i + 1].sent - requests[a][i].over >=
                (IF asked # NoHeader THEN asked ELSE IF i < 5 THEN 2 ^ i ELSE 32)

(* A call fails only for a reason: its context ended, an error no retry     *)
(* betters, or all the attempts it had.  An answer is never lost.           *)
OutcomeExplained ==
    \A a \in Callers :
        LET last == requests[a][Attempts(a)]
        IN  /\ place[a] = "failed" =>
                 \/ ended[a]
                 \/ Attempts(a) > 0 /\ last.answer \in {"broken", "fatal"}
                 \/ Attempts(a) >= maxRetries + 1
            /\ Attempts(a) > 0 /\ last.answer = "ok" => place[a] = "answered"
            /\ place[a] = "answered" => Attempts(a) > 0 /\ last.answer = "ok"

(* "A hung call must not outlive its deadline": every call comes to an end, *)
(* however long a Retry-After and whether or not the API answers.           *)
CallEnds ==
    \A a \in Callers : place[a] = "ready" ~> place[a] \in {"answered", "failed"}
=============================================================================
