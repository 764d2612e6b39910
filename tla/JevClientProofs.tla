-------------------------- MODULE JevClientProofs --------------------------
(***************************************************************************)
(* A call of the client: what its place in Ask says of the requests it has *)
(* made (CallInv), and of the time since the last answer (WaitInv).  Calls *)
(* share nothing, so each step is looked at for the caller that takes it.  *)
(***************************************************************************)
EXTENDS JevClient, SequenceTheorems, TLAPS

\* The requests of a call, by its place.
CallInv(a) ==
    LET r == requests[a]
        n == Len(requests[a])
    IN  /\ \A i \in 1 .. n - 1 : r[i].answer = "retry"
        /\ n > 0 => n <= maxRetries + 1
        /\ place[a] = "idle" => n = 0 /\ ~ended[a]
        /\ place[a] \in {"ready", "waiting"} =>
              n <= maxRetries /\ (n > 0 => r[n].answer = "retry")
        /\ place[a] = "waiting" => n > 0
        /\ place[a] = "sent" => n > 0 /\ r[n].answer = "none"
        /\ place[a] = "answered" => n > 0 /\ r[n].answer = "ok"
        /\ place[a] = "failed" =>
              /\ n > 0 => r[n].answer # "ok"
              /\ \/ ended[a]
                 \/ n > 0 /\ r[n].answer \in {"broken", "fatal"}
                 \/ n >= maxRetries + 1

\* The wait before each request, and before the next one.
WaitInv(a) ==
    LET r == requests[a]
        n == Len(requests[a])
    IN  /\ \A i \in 1 .. n - 1 : r[i + 1].sent - r[i].over >= backoff(i, r[i].wait)
        /\ \A i \in 1 .. n : r[i].over <= clock
        /\ place[a] = "ready" /\ n > 0 => clock - r[n].over >= backoff(n, r[n].wait)
        /\ place[a] = "waiting" => until[a] - r[n].over >= backoff(n, r[n].wait)

IInv == ClientTypeOK /\ \A a \in Callers : CallInv(a) /\ WaitInv(a)

-----------------------------------------------------------------------------
LEMMA MaxRetriesInt == maxRetries \in Int
BY ClientAssumption DEF maxRetries

LEMMA BackoffNat ==
    ASSUME NEW attempt \in Nat \ {0}, NEW wait \in RetryAfters \cup {NoHeader}
    PROVE  backoff(attempt, wait) \in Nat
<1>1. CASE wait # NoHeader
  BY <1>1, ClientAssumption DEF backoff
<1>2. CASE wait = NoHeader /\ attempt >= 5
  BY <1>2 DEF backoff
<1>3. CASE wait = NoHeader /\ attempt < 5
  <2>1. attempt = 1 \/ attempt = 2 \/ attempt = 3 \/ attempt = 4
    BY <1>3
  <2>2. 2 ^ 1 = 2 /\ 2 ^ 2 = 4 /\ 2 ^ 3 = 8 /\ 2 ^ 4 = 16
    OBVIOUS
  <2>3. CASE attempt = 1
    BY <2>2, <2>3, <1>3 DEF backoff
  <2>4. CASE attempt = 2
    BY <2>2, <2>4, <1>3 DEF backoff
  <2>5. CASE attempt = 3
    BY <2>2, <2>5, <1>3 DEF backoff
  <2>6. CASE attempt = 4
    BY <2>2, <2>6, <1>3 DEF backoff
  <2> QED BY <2>1, <2>3, <2>4, <2>5, <2>6
<1> QED BY <1>1, <1>2, <1>3

LEMMA RequestTypes ==
    ASSUME ClientTypeOK, NEW a \in Callers, NEW i \in 1 .. Len(requests[a])
    PROVE  /\ requests[a][i].sent \in Nat /\ requests[a][i].over \in Nat /\ clock \in Nat
           /\ backoff(i, requests[a][i].wait) \in Nat
<1>1. requests[a] \in Seq(Requests) /\ clock \in Nat /\ MaxClock \in Nat
  BY ClientAssumption DEF ClientTypeOK
<1>2. requests[a][i] \in Requests /\ i \in Nat \ {0}
  BY <1>1
<1>3. requests[a][i].wait \in RetryAfters \cup {NoHeader}
  BY <1>2 DEF Requests
<1> QED BY <1>1, <1>2, <1>3, BackoffNat DEF Requests

\* What Send does to the requests of a call, and what the end of a request does.
LEMMA Appended ==
    ASSUME NEW r \in Seq(Requests), NEW e \in Requests
    PROVE  /\ Append(r, e) \in Seq(Requests)
           /\ Len(Append(r, e)) = Len(r) + 1
           /\ Append(r, e)[Len(r) + 1] = e
           /\ \A i \in 1 .. Len(r) : Append(r, e)[i] = r[i]
OBVIOUS

LEMMA Ended ==
    ASSUME NEW a \in Callers, NEW answer \in Answers, NEW wait \in RetryAfters \cup {NoHeader},
           ClientTypeOK, Len(requests[a]) > 0, Answered(a, answer, wait)
    PROVE  LET r == requests[a]
               n == Len(requests[a])
           IN  /\ requests' \in [Callers -> Seq(Requests)]
               /\ \A b \in Callers \ {a} : requests'[b] = requests[b]
               /\ Len(requests'[a]) = n
               /\ \A i \in 1 .. n - 1 : requests'[a][i] = r[i]
               /\ requests'[a][n] \in Requests
               /\ requests'[a][n].sent = r[n].sent /\ requests'[a][n].over = clock
               /\ requests'[a][n].answer = answer /\ requests'[a][n].wait = wait
<1> DEFINE r == requests[a]
           n == Len(requests[a])
           e == [r[n] EXCEPT !.over = clock, !.answer = answer, !.wait = wait]
<1>1. r \in Seq(Requests) /\ n \in Nat \ {0} /\ r[n] \in Requests /\ clock \in 0 .. MaxClock
  BY DEF ClientTypeOK
<1>2. /\ e \in Requests
      /\ e.sent = r[n].sent /\ e.over = clock /\ e.answer = answer /\ e.wait = wait
  BY <1>1 DEF Requests
<1>3. requests' = [requests EXCEPT ![a] = [r EXCEPT ![n] = e]]
  BY DEF Answered, ClientTypeOK
<1>4. requests'[a] = [r EXCEPT ![n] = e] /\ \A b \in Callers \ {a} : requests'[b] = requests[b]
  BY <1>3 DEF ClientTypeOK
<1> HIDE DEF e
<1>5. [r EXCEPT ![n] = e] \in Seq(Requests) /\ Len([r EXCEPT ![n] = e]) = n
  BY <1>1, <1>2, ExceptSeq
<1>6. [r EXCEPT ![n] = e][n] = e /\ \A i \in 1 .. n - 1 : [r EXCEPT ![n] = e][i] = r[i]
  BY <1>1
<1>7. requests' \in [Callers -> Seq(Requests)]
  BY <1>3, <1>5 DEF ClientTypeOK
<1> QED BY <1>2, <1>4, <1>5, <1>6, <1>7

-----------------------------------------------------------------------------
LEMMA InitIInv == ClientInit => IInv
BY ClientAssumption DEF ClientInit, IInv, ClientTypeOK, CallInv, WaitInv

\* A step of caller a that keeps the others, and what it has to show.
LEMMA Others ==
    ASSUME IInv, NEW a \in Callers, clock' = clock,
           \A b \in Callers \ {a} : /\ place'[b] = place[b] /\ until'[b] = until[b]
                                    /\ ended'[b] = ended[b] /\ requests'[b] = requests[b]
    PROVE  \A b \in Callers \ {a} : CallInv(b)' /\ WaitInv(b)'
BY DEF IInv, CallInv, WaitInv

\* The end of a request: what is left to say depends on the place the call goes to.
LEMMA Answer ==
    ASSUME IInv, NEW a \in Callers, place[a] = "sent",
           NEW answer \in Answers, NEW wait \in RetryAfters \cup {NoHeader},
           Answered(a, answer, wait)
    PROVE  LET s == requests'[a]
               n == Len(requests[a])
           IN  /\ requests' \in [Callers -> Seq(Requests)]
               /\ \A b \in Callers \ {a} : requests'[b] = requests[b]
               /\ n \in Nat /\ n > 0 /\ n <= maxRetries + 1 /\ Len(s) = n
               /\ \A i \in 1 .. n - 1 : s[i].answer = "retry"
               /\ s[n].over = clock /\ s[n].answer = answer /\ s[n].wait = wait
               /\ \A i \in 1 .. n - 1 : s[i + 1].sent - s[i].over >= backoff(i, s[i].wait)
               /\ \A i \in 1 .. n : s[i].over <= clock
<1> DEFINE r == requests[a]
           s == requests'[a]
           n == Len(requests[a])
<1>1. ClientTypeOK /\ CallInv(a) /\ WaitInv(a)
  BY DEF IInv
<1>2. n \in Nat /\ n > 0 /\ n <= maxRetries + 1 /\ clock \in Nat
  BY <1>1 DEF CallInv, ClientTypeOK
<1>3. /\ requests' \in [Callers -> Seq(Requests)]
      /\ \A b \in Callers \ {a} : requests'[b] = requests[b]
      /\ Len(s) = n
      /\ \A i \in 1 .. n - 1 : s[i] = r[i]
      /\ s[n].sent = r[n].sent /\ s[n].over = clock
      /\ s[n].answer = answer /\ s[n].wait = wait
  BY <1>1, <1>2, Ended
<1>4. \A i \in 1 .. n - 1 : s[i].answer = "retry"
  BY <1>1, <1>3 DEF CallInv
<1>5. ASSUME NEW i \in 1 .. n - 1
      PROVE  s[i + 1].sent - s[i].over >= backoff(i, s[i].wait)
  <2>1. r[i + 1].sent - r[i].over >= backoff(i, r[i].wait)
    BY <1>1 DEF WaitInv
  <2>2. s[i] = r[i] /\ s[i + 1].sent = r[i + 1].sent
    <3>1. i + 1 \in 1 .. n - 1 \/ i + 1 = n
      BY <1>2
    <3> QED BY <1>3, <3>1
  <2> QED BY <2>1, <2>2
<1>6. ASSUME NEW i \in 1 .. n PROVE s[i].over <= clock
  <2>1. i \in 1 .. n - 1 \/ i = n
    BY <1>2
  <2> QED BY <1>1, <1>2, <1>3, <2>1 DEF WaitInv
<1> QED BY <1>2, <1>3, <1>4, <1>5, <1>6

LEMMA StepIInv == IInv /\ [ClientNext]_clientVars => IInv'
<1> SUFFICES ASSUME IInv, [ClientNext]_clientVars PROVE IInv'
  OBVIOUS
<1>t. ClientTypeOK /\ maxRetries \in Int
  BY MaxRetriesInt DEF IInv
<1>1. CASE UNCHANGED clientVars
  BY <1>1 DEF clientVars, IInv, ClientTypeOK, CallInv, WaitInv
<1>2. CASE ClientTick
  <2>1. ClientTypeOK'
    BY <1>2, <1>t, ClientAssumption DEF ClientTick, ClientTypeOK
  <2>2. ASSUME NEW a \in Callers PROVE CallInv(a)'
    BY <1>2 DEF ClientTick, IInv, CallInv
  <2>3. ASSUME NEW a \in Callers PROVE WaitInv(a)'
    <3>1. requests[a] \in Seq(Requests) /\ Len(requests[a]) \in Nat
      BY <1>t DEF ClientTypeOK
    <3>2. ASSUME NEW i \in 1 .. Len(requests[a])
          PROVE  /\ requests[a][i].over <= clock => requests[a][i].over <= clock + 1
                 /\ clock - requests[a][i].over >= backoff(i, requests[a][i].wait) =>
                       clock + 1 - requests[a][i].over >= backoff(i, requests[a][i].wait)
      BY <1>t, RequestTypes
    <3>3. clock' = clock + 1 /\ UNCHANGED <<place, until, requests>> /\ WaitInv(a)
      BY <1>2 DEF ClientTick, IInv
    <3>4. Len(requests[a]) > 0 => Len(requests[a]) \in 1 .. Len(requests[a])
      BY <3>1
    <3>5. \A i \in 1 .. Len(requests[a]) : requests[a][i].over <= clock'
      BY <3>2, <3>3 DEF WaitInv
    <3>6. place[a] = "ready" /\ Len(requests[a]) > 0 =>
              clock + 1 - requests[a][Len(requests[a])].over >=
                  backoff(Len(requests[a]), requests[a][Len(requests[a])].wait)
      BY <3>2, <3>3, <3>4 DEF WaitInv
    <3>7. clock' = clock + 1 /\ place' = place /\ until' = until /\ requests' = requests
      BY <3>3
    <3>8. \A i \in 1 .. Len(requests'[a]) - 1 :
              requests'[a][i + 1].sent - requests'[a][i].over >= backoff(i, requests'[a][i].wait)
      BY <3>3, <3>7 DEF WaitInv
    <3>9. place'[a] = "ready" /\ Len(requests'[a]) > 0 =>
              clock' - requests'[a][Len(requests'[a])].over >=
                  backoff(Len(requests'[a]), requests'[a][Len(requests'[a])].wait)
      <4>1. Len(requests[a]) > 0 =>
                /\ requests[a][Len(requests[a])].over \in Nat /\ clock \in Nat
                /\ backoff(Len(requests[a]), requests[a][Len(requests[a])].wait) \in Nat
        BY <1>t, <3>4, RequestTypes
      <4> QED BY <3>6, <3>7, <4>1
    <3>10. place'[a] = "waiting" =>
              until'[a] - requests'[a][Len(requests'[a])].over >=
                  backoff(Len(requests'[a]), requests'[a][Len(requests'[a])].wait)
      BY <3>3, <3>7 DEF WaitInv
    <3>11. \A i \in 1 .. Len(requests'[a]) : requests'[a][i].over <= clock'
      BY <3>5, <3>7
    <3> QED BY <3>8, <3>9, <3>10, <3>11 DEF WaitInv
  <2> QED BY <2>1, <2>2, <2>3 DEF IInv
<1>3. ASSUME NEW a \in Callers, Start(a) PROVE IInv'
  <2>1. ClientTypeOK'
    BY <1>3, <1>t DEF Start, Became, ClientTypeOK
  <2>2. requests[a] = <<>>
    BY <1>3, <1>t DEF IInv, CallInv, Start, ClientTypeOK
  <2>3. CallInv(a)' /\ WaitInv(a)'
    BY <1>3, <1>t, <2>2 DEF Start, Became, ClientTypeOK, CallInv, WaitInv, IInv
  <2> QED BY <1>3, <1>t, <2>1, <2>3, Others DEF Start, Became, ClientTypeOK, IInv
<1>4. ASSUME NEW a \in Callers, Send(a) PROVE IInv'
  <2> DEFINE e == [sent |-> clock, over |-> clock, answer |-> "none", wait |-> NoHeader]
  <2>1. e \in Requests
    BY <1>t DEF ClientTypeOK, Requests, Answers
  <2>2. requests[a] \in Seq(Requests) /\ Len(requests[a]) \in Nat
    BY <1>t DEF ClientTypeOK
  <2>3. requests'[a] = Append(requests[a], e)
    BY <1>4, <1>t DEF Send, ClientTypeOK
  <2>4. ClientTypeOK'
    BY <1>4, <1>t, <2>1, <2>2, Appended DEF Send, Became, ClientTypeOK
  <2>5. CallInv(a)'
    BY <1>4, <1>t, <2>1, <2>2, <2>3, Appended DEF Send, Became, ClientTypeOK, CallInv, IInv
  <2>6. WaitInv(a)'
    <3> DEFINE r == requests[a]
               s == requests'[a]
               n == Len(requests[a])
    <3>1. /\ n \in Nat /\ Len(s) = n + 1 /\ s[n + 1] = e
          /\ \A i \in 1 .. n : s[i] = r[i]
      BY <2>1, <2>2, <2>3, Appended
    <3>2. place'[a] = "sent" /\ clock' = clock /\ place[a] = "ready" /\ WaitInv(a) /\ clock \in Nat
      BY <1>4, <1>t DEF Send, Became, ClientTypeOK, IInv
    <3>3. e.sent = clock /\ e.over = clock
      OBVIOUS
    <3> HIDE DEF e
    <3>4. \A i \in 1 .. n - 1 : s[i + 1].sent - s[i].over >= backoff(i, s[i].wait)
      <4> TAKE i \in 1 .. n - 1
      <4>1. i \in 1 .. n /\ i + 1 \in 1 .. n
        BY <3>1
      <4>2. s[i] = r[i] /\ s[i + 1] = r[i + 1]
        BY <3>1, <4>1
      <4> QED BY <3>2, <4>2 DEF WaitInv
    <3>5. n > 0 => s[n + 1].sent - s[n].over >= backoff(n, s[n].wait)
      BY <3>1, <3>2, <3>3 DEF WaitInv
    <3>6. \A i \in 1 .. n + 1 : s[i].over <= clock
      BY <3>1, <3>2, <3>3 DEF WaitInv
    <3>7. \A i \in 1 .. n : i \in 1 .. n - 1 \/ i = n
      BY <3>1
    <3> QED BY <3>1, <3>2, <3>4, <3>5, <3>6, <3>7 DEF WaitInv
  <2> QED BY <1>4, <1>t, <2>4, <2>5, <2>6, Others DEF Send, Became, ClientTypeOK, IInv
<1>5. ASSUME NEW a \in Callers, SendFails(a) PROVE IInv'
  <2>1. ClientTypeOK' /\ CallInv(a)' /\ WaitInv(a)'
    BY <1>5, <1>t DEF SendFails, Became, ClientTypeOK, CallInv, WaitInv, IInv
  <2> QED BY <1>5, <1>t, <2>1, Others DEF SendFails, Became, ClientTypeOK, IInv
<1>6. ASSUME NEW a \in Callers, Succeed(a) PROVE IInv'
  <2>1. /\ place[a] = "sent" /\ place' = [place EXCEPT ![a] = "answered"]
        /\ Answered(a, "ok", NoHeader) /\ "ok" \in Answers
        /\ UNCHANGED <<clock, until, ended>>
    BY <1>6 DEF Succeed, Became, Answers
  <2>2. ClientTypeOK'
    BY <1>t, <2>1, Answer DEF ClientTypeOK
  <2>3. CallInv(a)'
    BY <1>t, <2>1, Answer DEF ClientTypeOK, CallInv
  <2>4. WaitInv(a)'
    BY <1>t, <2>1, Answer DEF ClientTypeOK, WaitInv
  <2> QED BY <1>t, <2>1, <2>2, <2>3, <2>4, Answer, Others DEF ClientTypeOK, IInv
<1>7. ASSUME NEW a \in Callers, Fail(a) PROVE IInv'
  <2>1. PICK answer \in {"broken", "fatal"} : Answered(a, answer, NoHeader)
    BY <1>7 DEF Fail
  <2>2. /\ place[a] = "sent" /\ place' = [place EXCEPT ![a] = "failed"]
        /\ answer \in Answers /\ UNCHANGED <<clock, until, ended>>
    BY <1>7 DEF Fail, Became, Answers
  <2>3. ClientTypeOK'
    BY <1>t, <2>1, <2>2, Answer DEF ClientTypeOK
  <2>4. CallInv(a)'
    BY <1>t, <2>1, <2>2, Answer DEF ClientTypeOK, CallInv
  <2>5. WaitInv(a)'
    BY <1>t, <2>1, <2>2, Answer DEF ClientTypeOK, WaitInv
  <2>6. \A b \in Callers \ {a} :
           place'[b] = place[b] /\ until'[b] = until[b] /\ requests'[b] = requests[b]
    BY <1>t, <2>1, <2>2, Answer DEF ClientTypeOK
  <2> QED BY <2>2, <2>3, <2>4, <2>5, <2>6, Others DEF IInv
<1>8. ASSUME NEW a \in Callers, NEW wait \in RetryAfters \cup {NoHeader}, Retry(a, wait)
      PROVE  IInv'
  <2> DEFINE n == Len(requests[a])
             pause == backoff(n, wait)
  <2>1. /\ place[a] = "sent" /\ Answered(a, "retry", wait) /\ "retry" \in Answers
        /\ UNCHANGED <<clock, ended>>
    BY <1>8 DEF Retry, Answers
  <2>2. n \in Nat /\ n > 0 /\ clock \in Nat
    BY <1>t, <2>1, Answer DEF ClientTypeOK
  <2>3. pause \in Nat
    BY <2>2, BackoffNat
  <2>4. \/ /\ ended[a] \/ n > maxRetries
           /\ place' = [place EXCEPT ![a] = "failed"] /\ until' = until
        \/ /\ ~ended[a] /\ n <= maxRetries /\ pause = 0
           /\ place' = [place EXCEPT ![a] = "ready"] /\ until' = [until EXCEPT ![a] = 0]
        \/ /\ ~ended[a] /\ n <= maxRetries /\ pause # 0
           /\ place' = [place EXCEPT ![a] = "waiting"]
           /\ until' = [until EXCEPT ![a] = clock + pause]
    BY <1>8, <1>t, <2>2 DEF Retry, Became
  <2>5. pause = backoff(n, wait)
    OBVIOUS
  <2> HIDE DEF pause
  <2>6. ClientTypeOK'
    <3>1. requests' \in [Callers -> Seq(Requests)]
      BY <2>1, Answer
    <3>2. clock + pause \in Nat
      BY <2>2, <2>3
    <3>3. place' \in [Callers -> {"idle", "ready", "sent", "waiting", "answered", "failed"}]
      BY <1>t, <2>4 DEF ClientTypeOK
    <3>4. until' \in [Callers -> Nat]
      BY <1>t, <2>4, <3>2 DEF ClientTypeOK
    <3> QED BY <1>t, <2>1, <3>1, <3>3, <3>4 DEF ClientTypeOK
  <2>7. CallInv(a)'
    BY <1>t, <2>1, <2>2, <2>4, Answer DEF ClientTypeOK, CallInv
  <2>8. WaitInv(a)'
    BY <1>t, <2>1, <2>2, <2>3, <2>4, <2>5, Answer DEF ClientTypeOK, WaitInv
  <2>9. \A b \in Callers \ {a} : place'[b] = place[b] /\ until'[b] = until[b]
    BY <1>t, <2>4 DEF ClientTypeOK
  <2> QED BY <1>t, <2>1, <2>6, <2>7, <2>8, <2>9, Answer, Others DEF ClientTypeOK, IInv
<1>9. ASSUME NEW a \in Callers, Wake(a) PROVE IInv'
  <2>1. ClientTypeOK' /\ CallInv(a)'
    BY <1>9, <1>t DEF Wake, Became, ClientTypeOK, CallInv, IInv
  <2>2. WaitInv(a)'
    <3> DEFINE n == Len(requests[a])
    <3>1. n \in Nat /\ n > 0 /\ n \in 1 .. n
      BY <1>9, <1>t DEF Wake, CallInv, IInv, ClientTypeOK
    <3>2. requests[a][n].over \in Nat /\ clock \in Nat /\ backoff(n, requests[a][n].wait) \in Nat
      BY <1>t, <3>1, RequestTypes
    <3>3. /\ until[a] - requests[a][n].over >= backoff(n, requests[a][n].wait)
          /\ until[a] \in Nat /\ clock >= until[a]
      BY <1>9, <1>t DEF Wake, WaitInv, IInv, ClientTypeOK
    <3>4. clock - requests[a][n].over >= backoff(n, requests[a][n].wait)
      BY <3>2, <3>3
    <3> QED BY <1>9, <1>t, <3>4 DEF Wake, Became, ClientTypeOK, WaitInv, IInv
  <2> QED BY <1>9, <1>t, <2>1, <2>2, Others DEF Wake, Became, ClientTypeOK, IInv
<1>10. ASSUME NEW a \in Callers, SleepEnds(a) PROVE IInv'
  <2>1. ClientTypeOK' /\ CallInv(a)' /\ WaitInv(a)'
    BY <1>10, <1>t DEF SleepEnds, Became, ClientTypeOK, CallInv, WaitInv, IInv
  <2> QED BY <1>10, <1>t, <2>1, Others DEF SleepEnds, Became, ClientTypeOK, IInv
<1>11. ASSUME NEW a \in Callers, Expire(a) PROVE IInv'
  <2>1. ClientTypeOK' /\ CallInv(a)' /\ WaitInv(a)'
    BY <1>11, <1>t DEF Expire, ClientTypeOK, CallInv, WaitInv, IInv
  <2> QED BY <1>11, <1>t, <2>1, Others DEF Expire, ClientTypeOK, IInv
<1>12. ASSUME NEW a \in Callers, Return(a) PROVE IInv'
  <2>1. ClientTypeOK' /\ CallInv(a)' /\ WaitInv(a)'
    BY <1>12, <1>t DEF Return, Became, ClientTypeOK, CallInv, WaitInv, IInv
  <2> QED BY <1>12, <1>t, <2>1, Others DEF Return, Became, ClientTypeOK, IInv
<1> QED BY <1>1, <1>2, <1>3, <1>4, <1>5, <1>6, <1>7, <1>8, <1>9, <1>10, <1>11, <1>12
        DEF ClientNext, Attempt

LEMMA IInvInvariant == ClientSpec => []IInv
BY InitIInv, StepIInv, PTL DEF ClientSpec

-----------------------------------------------------------------------------
(* Every state of a call has its type, for any answers and any options.     *)
THEOREM TypeCorrect == ClientSpec => []ClientTypeOK
<1>1. IInv => ClientTypeOK
  BY DEF IInv
<1> QED BY <1>1, IInvInvariant, PTL

(* A call never sends more requests than it has attempts, nor one that the  *)
(* last answer gave it no reason for.                                       *)
THEOREM Retries == ClientSpec => []RetriesJustified
<1>1. IInv => RetriesJustified
  <2> SUFFICES ASSUME IInv, NEW a \in Callers
               PROVE  /\ Attempts(a) <= maxRetries + 1 \/ requests[a] = <<>>
                      /\ \A i \in 1 .. Attempts(a) - 1 : requests[a][i].answer = "retry"
    BY DEF RetriesJustified
  <2>1. requests[a] \in Seq(Requests) /\ CallInv(a)
    BY DEF IInv, ClientTypeOK
  <2>2. Len(requests[a]) \in Nat /\ (Len(requests[a]) = 0 => requests[a] = <<>>)
    BY <2>1, EmptySeq
  <2> QED BY <2>1, <2>2 DEF CallInv, Attempts
<1> QED BY <1>1, IInvInvariant, PTL

(* No request leaves before the wait of the answer before it is over.       *)
THEOREM Waits == ClientSpec => []WaitsHonoured
<1>1. IInv => WaitsHonoured
  BY DEF IInv, WaitInv, WaitsHonoured, Attempts, backoff
<1> QED BY <1>1, IInvInvariant, PTL

(* A failure has a reason, and an answer is never lost.                     *)
THEOREM Outcomes == ClientSpec => []OutcomeExplained
<1>1. IInv => OutcomeExplained
  <2> SUFFICES ASSUME IInv, NEW a \in Callers
               PROVE  LET last == requests[a][Attempts(a)]
                      IN  /\ place[a] = "failed" =>
                               \/ ended[a]
                               \/ Attempts(a) > 0 /\ last.answer \in {"broken", "fatal"}
                               \/ Attempts(a) >= maxRetries + 1
                          /\ Attempts(a) > 0 /\ last.answer = "ok" => place[a] = "answered"
                          /\ place[a] = "answered" => Attempts(a) > 0 /\ last.answer = "ok"
    BY DEF OutcomeExplained
  <2>1. /\ CallInv(a) /\ Len(requests[a]) \in Nat
        /\ place[a] \in {"idle", "ready", "sent", "waiting", "answered", "failed"}
    BY DEF IInv, ClientTypeOK
  <2>2. Len(requests[a]) > 0 /\ requests[a][Len(requests[a])].answer = "ok" => place[a] = "answered"
    BY <2>1 DEF CallInv
  <2> QED BY <2>1, <2>2 DEF CallInv, Attempts
<1> QED BY <1>1, IInvInvariant, PTL
=============================================================================
