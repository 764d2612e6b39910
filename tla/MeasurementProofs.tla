------------------------- MODULE MeasurementProofs -------------------------
(***************************************************************************)
(* A measurement run.  Its pace keeps it clear of the limiter's rate       *)
(* ceiling: each request claims its slot soon after it was due, and the    *)
(* due times are an interval apart; Spaced says how far back the claims of *)
(* a run must lie.  Its file gives an analysis what the run observed, and  *)
(* its reports call nothing a change of decision that is not one:          *)
(* ReplayInv follows the file and the observations answer by answer.  And  *)
(* its projection keeps it clear of the ceiling on spend.                  *)
(*                                                                         *)
(* The sums, the picks from the file and FlattenSeq are recursive          *)
(* functions: SetInduction, which the pigeonhole principle gives, takes    *)
(* the place of induction over an operator.                                *)
(***************************************************************************)
EXTENDS Measurement, Integers, FiniteSetTheorems, SequenceTheorems, TLAPS

PaceTypeOK ==
    /\ clock \in Nat /\ last \in Nat /\ step \in Nat
    /\ pc \in [{Harness} -> {"idle", "claiming", "calling"}]
    /\ claimed \in Seq(Nat)
    /\ recent \in SUBSET (1 .. Len(claimed))

\* When the n-th request is the latest that was due, the i-th claim lies n - i
\* intervals before its slack is over.
Spaced(n) ==
    \A i \in 1 .. Len(claimed) : claimed[i] + n * Interval <= last + Slack + i * Interval

\* A request has one claim, and makes it within the slack.
PaceInv ==
    /\ stage # "asking" => pc[Harness] = "idle"
    /\ stage \in {"flags", "planned"} => step = 0 /\ claimed = <<>>
    /\ stage = "pacing" => Len(claimed) = step /\ Spaced(step)
    /\ stage = "asking" =>
          /\ Len(claimed) = IF pc[Harness] = "calling" THEN step + 1 ELSE step
          /\ pc[Harness] # "calling" => last <= clock /\ clock <= last + Slack
          /\ Spaced(step + 1)

-----------------------------------------------------------------------------
(* The invariant.                                                           *)

\* The types.
LEMMA PaceTypeStep == PaceTypeOK /\ [Next]_vars => PaceTypeOK'
<1> SUFFICES ASSUME PaceTypeOK, [Next]_vars PROVE PaceTypeOK'
  OBVIOUS
<1> USE DEF PaceTypeOK
<1>1. CASE UNCHANGED limiterVars /\ UNCHANGED <<last, step>>
  BY <1>1 DEF limiterVars
<1>2. CASE ReadFlags \/ DryRun \/ Decline \/ Begin \/ TooSmall \/ Expire \/ UNCHANGED vars
  BY <1>1, <1>2 DEF ReadFlags, DryRun, Decline, Begin, TooSmall, Expire, vars
<1>3. CASE Pace
  BY <1>3 DEF Pace, limiterVars
<1>4. CASE Reserve
  <2>1. CASE Limiter!Check(Harness)
    BY <1>4, <2>1 DEF Reserve, Limiter!Check, Limiter!Goto, Limiter!Kept
  <2>2. CASE Limiter!Claim(Harness)
    <3>1. /\ claimed' = Append(claimed, clock) /\ recent' = recent \cup {Len(claimed) + 1}
          /\ pc' \in [{Harness} -> {"idle", "claiming", "calling"}]
          /\ UNCHANGED <<clock, last, step>>
      BY <1>4, <2>2 DEF Reserve, Limiter!Claim, Limiter!Goto
    <3>2. claimed' \in Seq(Nat) /\ Len(claimed') = Len(claimed) + 1 /\ Len(claimed) \in Nat
      BY <3>1
    <3>3. \A i \in 1 .. Len(claimed) : i \in 1 .. Len(claimed) + 1
      BY <3>2
    <3>4. Len(claimed) + 1 \in 1 .. Len(claimed) + 1
      BY <3>2
    <3>5. recent' \subseteq 1 .. Len(claimed')
      BY <3>1, <3>2, <3>3, <3>4
    <3> QED
      BY <3>1, <3>2, <3>5
  <2> QED
    BY <1>4, <2>1, <2>2 DEF Reserve
<1>5. CASE Refused
  BY <1>5 DEF Refused, Limiter!RefuseSpend, Limiter!RefuseRate, Limiter!CallFails,
              Limiter!Goto, Limiter!Kept
<1>6. CASE Answer
  BY <1>6 DEF Answer, Limiter!Record, Limiter!Goto
<1>7. CASE Tick
  BY <1>7 DEF Tick, Limiter!Tick
<1> QED
  BY <1>2, <1>3, <1>4, <1>5, <1>6, <1>7 DEF Next

\* The claims are an interval further back once the next request is due.
LEMMA SpacedNext ==
    ASSUME PaceTypeOK, step = 0 \/ clock >= last + Interval,
           Len(claimed) = step, Spaced(step),
           last' = clock, UNCHANGED <<claimed, step>>
    PROVE  Spaced(step + 1)'
<1> SUFFICES ASSUME NEW i \in 1 .. Len(claimed)
             PROVE  claimed[i] + (step + 1) * Interval <= clock + Slack + i * Interval
  BY DEF Spaced
<1>1. /\ clock \in Nat /\ last \in Nat /\ step \in Nat /\ Interval \in Nat /\ Slack \in Nat
      /\ i \in Nat /\ claimed[i] \in Nat
  BY MeasurementAssumption DEF PaceTypeOK
<1>2. clock >= last + Interval
  BY <1>1
<1>3. claimed[i] + step * Interval <= last + Slack + i * Interval
  BY DEF Spaced
<1>4. step * Interval \in Nat /\ i * Interval \in Nat
  BY <1>1
<1>5. (step + 1) * Interval = step * Interval + Interval
  BY <1>1
<1> QED
  BY <1>1, <1>2, <1>3, <1>4, <1>5

\* The pace is inductive.
LEMMA PaceStep ==
    ASSUME PaceTypeOK, MaxCalls > 0, PaceInv, [Next]_vars
    PROVE  PaceInv'
<1>0. /\ clock \in Nat /\ last \in Nat /\ step \in Nat /\ Interval \in Nat /\ Slack \in Nat
      /\ pc[Harness] \in {"idle", "claiming", "calling"} /\ Len(claimed) \in Nat
  BY MeasurementAssumption DEF PaceTypeOK
<1>1. CASE UNCHANGED vars
  BY <1>1 DEF PaceInv, Spaced, vars, limiterVars
<1>2. CASE ReadFlags \/ DryRun \/ Decline \/ TooSmall \/ Expire
  BY <1>2 DEF PaceInv, ReadFlags, DryRun, Decline, TooSmall, Expire, limiterVars
<1>3. CASE Begin
  BY <1>3 DEF PaceInv, Spaced, Begin, limiterVars
<1>4. CASE Pace
  <2>1. /\ stage = "pacing" /\ stage' = "asking" /\ last' = clock
        /\ UNCHANGED <<clock, claimed, pc, step>>
        /\ step = 0 \/ clock >= last + Interval
    BY <1>4 DEF Pace, PaceKept, limiterVars
  <2>2. Spaced(step + 1)'
    BY <2>1, SpacedNext DEF PaceInv
  <2> QED
    BY <1>0, <2>1, <2>2 DEF PaceInv
<1>5. CASE Reserve
  <2>0. stage = "asking" /\ UNCHANGED <<stage, step, last, clock>>
    BY <1>5 DEF Reserve, Limiter!Check, Limiter!Claim
  <2>1. CASE Limiter!Check(Harness)
    <3>1. pc[Harness] = "idle" /\ pc'[Harness] = "claiming" /\ UNCHANGED claimed
      BY <2>1, MeasurementAssumption DEF Limiter!Check, Limiter!Goto, PaceTypeOK
    <3> QED
      BY <2>0, <3>1 DEF PaceInv, Spaced
  <2>2. CASE Limiter!Claim(Harness)
    <3>1. /\ pc[Harness] = "claiming" /\ pc'[Harness] = "calling"
          /\ claimed' = Append(claimed, clock)
      BY <2>2 DEF Limiter!Claim, Limiter!Goto, PaceTypeOK
    <3>2. /\ Len(claimed) = step /\ clock <= last + Slack /\ Spaced(step + 1)
      BY <2>0, <3>1 DEF PaceInv
    <3>3. /\ Len(claimed') = step + 1 /\ claimed'[step + 1] = clock
          /\ \A i \in 1 .. step : claimed'[i] = claimed[i]
      BY <3>1, <3>2 DEF PaceTypeOK
    <3>4. Spaced(step + 1)'
      <4> SUFFICES ASSUME NEW i \in 1 .. step + 1
                   PROVE  claimed'[i] + (step + 1) * Interval <= last + Slack + i * Interval
        BY <2>0, <3>3 DEF Spaced
      <4>1. CASE i = step + 1
        <5>1. (step + 1) * Interval \in Nat
          BY <1>0
        <5> QED
          BY <1>0, <3>2, <3>3, <4>1, <5>1
      <4>2. CASE i \in 1 .. step
        BY <3>2, <3>3, <4>2 DEF Spaced
      <4> QED
        BY <1>0, <4>1, <4>2
    <3> QED
      BY <2>0, <3>1, <3>3, <3>4 DEF PaceInv
  <2> QED
    BY <1>5, <2>1, <2>2 DEF Reserve
<1>6. CASE Refused
  <2>1. stage = "asking" /\ stage' = "failed"
    BY <1>6 DEF Refused
  <2>2. pc'[Harness] = "idle"
    BY <1>6 DEF Refused, Limiter!RefuseSpend, Limiter!RefuseRate, Limiter!CallFails,
                Limiter!Goto, PaceTypeOK
  <2> QED
    BY <2>1, <2>2 DEF PaceInv
<1>7. CASE Answer
  <2>1. /\ stage = "asking" /\ stage' \in {"reported", "pacing"} /\ step' = step + 1
        /\ pc[Harness] = "calling" /\ pc'[Harness] = "idle"
        /\ UNCHANGED <<claimed, last>>
    BY <1>7 DEF Answer, Limiter!Record, Limiter!Goto, PaceTypeOK
  <2> QED
    BY <2>1 DEF PaceInv, Spaced
<1>8. CASE Tick
  <2>1. /\ clock' = clock + 1 /\ UNCHANGED <<stage, step, last, pc, claimed>>
        /\ stage = "asking" /\ pc[Harness] # "calling" => clock < last + Slack
    BY <1>8 DEF Tick, Limiter!Tick
  <2> QED
    BY <1>0, <2>1 DEF PaceInv, Spaced
<1> QED
  BY <1>1, <1>2, <1>3, <1>4, <1>5, <1>6, <1>7, <1>8 DEF Next

LEMMA PaceCorrect == Spec => [](PaceTypeOK /\ (MaxCalls > 0 => PaceInv))
<1>1. Init => PaceTypeOK /\ PaceInv
  BY DEF Init, Limiter!Init, PaceTypeOK, PaceInv
<1>2. PaceTypeOK /\ (MaxCalls > 0 => PaceInv) /\ [Next]_vars
        => PaceTypeOK' /\ (MaxCalls > 0 => PaceInv)'
  BY PaceTypeStep, PaceStep
<1> QED
  BY <1>1, <1>2, PTL DEF Spec

-----------------------------------------------------------------------------
(* The rate.                                                                *)

\* The instance of Limiter has its own name for it.
LEMMA SameCardinality == \A S : Limiter!Cardinality(S) = Cardinality(S)
BY DEF Limiter!Cardinality, Cardinality

\* While a request waits for its slot, fewer than MaxCalls calls are in the
\* window: those that are have been due less than a window and the slack before.
LEMMA RoomForOne ==
    ASSUME PaceTypeOK, PaceInv, MaxCalls > 0, stage = "asking", pc[Harness] = "idle"
    PROVE  ~Limiter!RateExceeded
<1>0. /\ clock \in Nat /\ last \in Nat /\ step \in Nat /\ Len(claimed) = step
      /\ Interval \in Nat /\ Slack \in Nat /\ Window \in Nat /\ MaxCalls \in Nat
      /\ MaxCalls * Interval >= Window + Slack /\ last <= clock
  BY MeasurementAssumption DEF PaceTypeOK, PaceInv
<1>1. ASSUME NEW i \in Limiter!Kept
      PROVE  i \in (step + 2) - MaxCalls .. step
  <2>1. i \in 1 .. step /\ claimed[i] \in Nat /\ claimed[i] + Window > clock
    BY <1>0 DEF Limiter!Kept, Limiter!InWindow, PaceTypeOK
  <2>2. claimed[i] + (step + 1) * Interval <= last + Slack + i * Interval
    BY <1>0, <2>1 DEF PaceInv, Spaced
  <2>3. /\ (step + 1) * Interval \in Nat /\ i * Interval \in Nat
        /\ MaxCalls * Interval \in Nat
    BY <1>0, <2>1
  <2>4. (step + 1) * Interval < MaxCalls * Interval + i * Interval
    BY <1>0, <2>1, <2>2, <2>3
  <2>5. MaxCalls * Interval + i * Interval = (MaxCalls + i) * Interval
    BY <1>0, <2>1
  <2>6. ASSUME MaxCalls + i <= step + 1
        PROVE  (MaxCalls + i) * Interval <= (step + 1) * Interval
    BY <1>0, <2>1, <2>6
  <2>7. MaxCalls + i > step + 1
    BY <1>0, <2>1, <2>3, <2>4, <2>5, <2>6
  <2> QED
    BY <1>0, <2>1, <2>7
<1> DEFINE Room == (step + 2) - MaxCalls .. step
<1>2. IsFiniteSet(Room) /\ Cardinality(Room) = MaxCalls - 1
  BY <1>0, FS_Interval
<1>3. Limiter!Kept \subseteq Room
  BY <1>1
<1>4. Cardinality(Limiter!Kept) <= Cardinality(Room) /\ Cardinality(Limiter!Kept) \in Nat
  BY <1>2, <1>3, FS_Subset, FS_CardinalityType
<1>5. Cardinality(Limiter!Kept) < MaxCalls
  <2> HIDE DEF Room
  <2> QED
    BY <1>0, <1>2, <1>4
<1>6. Limiter!Cardinality(Limiter!Kept) = Cardinality(Limiter!Kept)
  BY SameCardinality
<1> QED
  BY <1>0, <1>4, <1>5, <1>6 DEF Limiter!RateExceeded

(* A paced run is never refused for its rate: however long its calls take   *)
(* and however late each request is, for every pace that covers a window    *)
(* and the slack with its ceiling.                                          *)
THEOREM PaceIsEnough == Spec => PacedRunsAreNotRefused
<1>1. PaceTypeOK /\ (MaxCalls > 0 => PaceInv) /\ [Next]_vars
        => [stage = "asking" => ~Limiter!RefuseRate(Harness)]_vars
  <2> SUFFICES ASSUME PaceTypeOK, MaxCalls > 0 => PaceInv, stage = "asking",
                      Limiter!RefuseRate(Harness)
               PROVE  FALSE
    OBVIOUS
  <2>1. pc[Harness] = "idle" /\ Limiter!RateExceeded
    BY DEF Limiter!RefuseRate
  <2>2. MaxCalls > 0
    BY <2>1 DEF Limiter!RateExceeded
  <2> QED
    BY <2>1, <2>2, RoomForOne
<1> QED
  BY <1>1, PaceCorrect, PTL DEF Spec, PacedRunsAreNotRefused

-----------------------------------------------------------------------------
(* Induction, and functions defined by recursion.                           *)

\* A set of numbers that holds 0 and every successor of its own holds all: were N
\* missing, adding one would map the part of 0 .. N in it into that part, one to one
\* but never to 0.
LEMMA SetInduction ==
    ASSUME NEW S, 0 \in S, \A n \in Nat : n \in S => n + 1 \in S
    PROVE  \A n \in Nat : n \in S
<1> SUFFICES ASSUME NEW N \in Nat, N \notin S PROVE FALSE
  OBVIOUS
<1> DEFINE T == {n \in 0 .. N : n \in S}
           f == [n \in T |-> n + 1]
<1>1. IsFiniteSet(T)
  <2>1. IsFiniteSet(0 .. N)
    BY FS_Interval
  <2> QED
    BY <2>1, FS_Subset
<1>2. \A n \in T : n + 1 \in T
  OBVIOUS
<1>3. f \in Injection(T, T)
  BY <1>2 DEF Injection, IsInjective
<1>4. f \in Surjection(T, T)
  BY <1>1, <1>3, FS_Injection
<1>5. PICK n \in T : f[n] = 0
  <2>1. 0 \in T
    OBVIOUS
  <2> HIDE DEF T, f
  <2> QED
    BY <1>4, <2>1 DEF Surjection
<1> QED
  BY <1>5

Follows(g, c, G, L) == g[0] = c /\ \A n \in 1 .. L : g[n] = G[n][g[n - 1]]

\* A function that is defined by recursion over the first numbers exists.
LEMMA RecursionExists ==
    ASSUME NEW L \in Nat, NEW V, NEW c \in V, NEW G \in [1 .. L -> [V -> V]]
    PROVE  \E g \in [0 .. L -> V] : Follows(g, c, G, L)
<1> DEFINE Rec(g, k) == Follows(g, c, G, k)
           S == {k \in Nat : k <= L => \E g \in [0 .. k -> V] : Rec(g, k)}
<1> USE DEF Follows
<1>1. 0 \in S
  <2>1. [n \in 0 .. 0 |-> c] \in [0 .. 0 -> V] /\ Rec([n \in 0 .. 0 |-> c], 0)
    OBVIOUS
  <2> QED
    BY <2>1
<1>2. ASSUME NEW k \in Nat, k \in S PROVE k + 1 \in S
  <2> SUFFICES ASSUME k + 1 <= L PROVE \E g \in [0 .. k + 1 -> V] : Rec(g, k + 1)
    OBVIOUS
  <2>1. PICK g \in [0 .. k -> V] : Rec(g, k)
    BY <1>2
  <2> DEFINE h == [n \in 0 .. k + 1 |-> IF n <= k THEN g[n] ELSE G[k + 1][g[k]]]
  <2>2. G[k + 1][g[k]] \in V
    OBVIOUS
  <2>3. h \in [0 .. k + 1 -> V]
    BY <2>2
  <2>4. ASSUME NEW n \in 1 .. k + 1 PROVE h[n] = G[n][h[n - 1]]
    BY <2>1
  <2>5. h[0] = c
    BY <2>1
  <2>6. Rec(h, k + 1)
    <3> HIDE DEF h
    <3> QED
      BY <2>4, <2>5
  <2> HIDE DEF h, Rec
  <2> QED
    BY <2>3, <2>6
<1>3. L \in S
  <2> HIDE DEF S
  <2> QED
    BY <1>1, <1>2, SetInduction
<1> QED
  BY <1>3

SumRec(sum, f, n) == sum = [k \in 0 .. n |-> IF k = 0 THEN 0 ELSE sum[k - 1] + f[k]]

\* SumTo is the last value of a function that follows its recursion.
LEMMA SumRecursion ==
    ASSUME NEW n \in Nat, NEW f, \A k \in 1 .. n : f[k] \in Nat
    PROVE  \E sum : /\ SumRec(sum, f, n)
                    /\ sum \in [0 .. n -> Nat]
                    /\ SumTo(f, n) = sum[n]
<1>1. PICK g \in [0 .. n -> Nat] :
          g[0] = 0 /\ \A k \in 1 .. n : g[k] = g[k - 1] + f[k]
  <2> DEFINE G == [k \in 1 .. n |-> [v \in Nat |-> v + f[k]]]
  <2>1. G \in [1 .. n -> [Nat -> Nat]]
    OBVIOUS
  <2>2. PICK g \in [0 .. n -> Nat] : Follows(g, 0, G, n)
    <3> HIDE DEF G
    <3>1. 0 \in Nat
      OBVIOUS
    <3> QED
      BY <2>1, <3>1, RecursionExists
  <2>3. ASSUME NEW k \in 1 .. n PROVE G[k][g[k - 1]] = g[k - 1] + f[k]
    <3>1. k - 1 \in 0 .. n
      OBVIOUS
    <3> QED
      BY <3>1
  <2> HIDE DEF G
  <2> QED
    BY <2>2, <2>3 DEF Follows
<1>2. SumRec(g, f, n)
  BY <1>1 DEF SumRec
<1> DEFINE s == CHOOSE sum : SumRec(sum, f, n)
<1>3. SumRec(s, f, n)
  BY <1>2
<1>4. SumTo(f, n) = s[n]
  BY DEF SumTo, SumRec
<1>5. s \in [0 .. n -> Nat]
  <2> HIDE DEF s
  <2> DEFINE S == {k \in Nat : k <= n => s[k] \in Nat}
  <2>1. 0 \in S
    BY <1>3 DEF SumRec
  <2>2. \A k \in Nat : k \in S => k + 1 \in S
    BY <1>3 DEF SumRec
  <2>3. \A k \in Nat : k \in S
    <3> HIDE DEF S
    <3> QED
      BY <2>1, <2>2, SetInduction
  <2>4. s = [k \in 0 .. n |-> s[k]]
    BY <1>3 DEF SumRec
  <2>5. \A k \in 0 .. n : s[k] \in Nat
    BY <2>3
  <2> QED
    BY <2>4, <2>5
<1> HIDE DEF s
<1> QED
  BY <1>3, <1>4, <1>5

\* Two such functions agree as far as their terms do.
LEMMA SumsAgree ==
    ASSUME NEW n \in Nat, NEW m \in Nat, NEW f, NEW g, NEW a, NEW b,
           SumRec(a, f, n), SumRec(b, g, m),
           NEW k \in Nat, k <= n, k <= m, \A j \in 1 .. k : f[j] = g[j]
    PROVE  a[k] = b[k]
<1> DEFINE S == {j \in Nat : j <= k => a[j] = b[j]}
<1>1. 0 \in S
  BY DEF SumRec
<1>2. ASSUME NEW j \in Nat, j \in S PROVE j + 1 \in S
  <2> SUFFICES ASSUME j + 1 <= k PROVE a[j + 1] = b[j + 1]
    OBVIOUS
  <2>1. a[j] = b[j] /\ f[j + 1] = g[j + 1]
    BY <1>2
  <2>2. j + 1 \in 0 .. n /\ j + 1 \in 0 .. m /\ j + 1 # 0 /\ (j + 1) - 1 = j
    OBVIOUS
  <2>3. a[j + 1] = a[j] + f[j + 1] /\ b[j + 1] = b[j] + g[j + 1]
    BY <2>2 DEF SumRec
  <2> QED
    BY <2>1, <2>3
<1>3. k \in S
  <2> HIDE DEF S
  <2> QED
    BY <1>1, <1>2, SetInduction
<1> QED
  BY <1>3

\* No term, and one term more.
LEMMA SumNone ==
    ASSUME NEW f PROVE SumTo(f, 0) = 0
<1>1. PICK a : SumRec(a, f, 0) /\ SumTo(f, 0) = a[0]
  <2>1. 0 \in Nat /\ \A k \in 1 .. 0 : f[k] \in Nat
    OBVIOUS
  <2> QED
    BY <2>1, SumRecursion
<1> QED
  BY <1>1 DEF SumRec

LEMMA SumNext ==
    ASSUME NEW n \in Nat, NEW f, \A k \in 1 .. n + 1 : f[k] \in Nat
    PROVE  SumTo(f, n) \in Nat /\ SumTo(f, n + 1) = SumTo(f, n) + f[n + 1]
<1>1. PICK a : SumRec(a, f, n) /\ a \in [0 .. n -> Nat] /\ SumTo(f, n) = a[n]
  <2>1. \A k \in 1 .. n : f[k] \in Nat
    OBVIOUS
  <2> QED
    BY <2>1, SumRecursion
<1>2. PICK b : SumRec(b, f, n + 1) /\ SumTo(f, n + 1) = b[n + 1]
  BY SumRecursion
<1>3. a[n] = b[n]
  BY <1>1, <1>2, SumsAgree
<1>4. b[n + 1] = b[n] + f[n + 1]
  <2>1. n + 1 \in 0 .. n + 1 /\ n + 1 # 0 /\ (n + 1) - 1 = n
    OBVIOUS
  <2> QED
    BY <1>2, <2>1 DEF SumRec
<1> QED
  BY <1>1, <1>2, <1>3, <1>4

-----------------------------------------------------------------------------
(* What Picked picks.                                                       *)

\* A sequence with one element more.
Longer(s, x) == Append(s, x)

PickRec(picked, S, f, n) ==
    picked = [k \in 0 .. n |->
                IF k = 0 THEN <<>>
                ELSE IF k \in S THEN Append(picked[k - 1], f[k]) ELSE picked[k - 1]]

\* Picked is the last value of a function that follows its recursion.
LEMMA PickRecursion ==
    ASSUME NEW n \in Nat, NEW S, NEW f, NEW V, \A k \in 1 .. n : k \in S => f[k] \in V
    PROVE  \E p : /\ PickRec(p, S, f, n)
                  /\ p \in [0 .. n -> Seq(V)]
                  /\ Picked(S, f, n) = p[n]
<1>1. PICK g \in [0 .. n -> Seq(V)] :
          /\ g[0] = <<>>
          /\ \A k \in 1 .. n : g[k] = IF k \in S THEN Append(g[k - 1], f[k]) ELSE g[k - 1]
  <2> DEFINE G == [k \in 1 .. n |-> [v \in Seq(V) |-> IF k \in S THEN Append(v, f[k]) ELSE v]]
  <2>1. G \in [1 .. n -> [Seq(V) -> Seq(V)]]
    OBVIOUS
  <2>2. PICK g \in [0 .. n -> Seq(V)] : Follows(g, <<>>, G, n)
    <3> HIDE DEF G
    <3>1. <<>> \in Seq(V)
      OBVIOUS
    <3> QED
      BY <2>1, <3>1, RecursionExists
  <2>3. ASSUME NEW k \in 1 .. n
        PROVE  G[k][g[k - 1]] = IF k \in S THEN Append(g[k - 1], f[k]) ELSE g[k - 1]
    <3>1. k - 1 \in 0 .. n
      OBVIOUS
    <3> QED
      BY <3>1
  <2> HIDE DEF G
  <2> QED
    BY <2>2, <2>3 DEF Follows
<1>2. PickRec(g, S, f, n)
  <2>1. g = [k \in 0 .. n |-> g[k]]
    OBVIOUS
  <2>2. ASSUME NEW k \in 0 .. n
        PROVE  g[k] = IF k = 0 THEN <<>>
                      ELSE IF k \in S THEN Append(g[k - 1], f[k]) ELSE g[k - 1]
    <3>1. CASE k = 0
      BY <1>1, <3>1
    <3>2. CASE k # 0
      <4>1. k \in 1 .. n
        BY <3>2
      <4> QED
        BY <1>1, <3>2, <4>1, Zenon
    <3> QED
      BY <3>1, <3>2
  <2> QED
    BY <2>1, <2>2, Zenon DEF PickRec
<1> DEFINE s == CHOOSE p : PickRec(p, S, f, n)
<1>3. PickRec(s, S, f, n)
  BY <1>2
<1>4. Picked(S, f, n) = s[n]
  BY DEF Picked, PickRec
<1>5. s \in [0 .. n -> Seq(V)]
  <2> HIDE DEF s
  <2> DEFINE T == {k \in Nat : k <= n => s[k] \in Seq(V)}
  <2>1. 0 \in T
    BY <1>3 DEF PickRec
  <2>2. ASSUME NEW k \in Nat, k \in T PROVE k + 1 \in T
    <3> SUFFICES ASSUME k + 1 <= n PROVE s[k + 1] \in Seq(V)
      OBVIOUS
    <3>1. s[k] \in Seq(V) /\ k + 1 \in 0 .. n /\ k + 1 # 0 /\ (k + 1) - 1 = k
      BY <2>2
    <3>2. s[k + 1] = IF k + 1 \in S THEN Append(s[k], f[k + 1]) ELSE s[k]
      BY <1>3, <3>1 DEF PickRec
    <3> QED
      BY <3>1, <3>2
  <2>3. \A k \in Nat : k \in T
    <3> HIDE DEF T
    <3> QED
      BY <2>1, <2>2, SetInduction
  <2>4. s = [k \in 0 .. n |-> s[k]]
    BY <1>3 DEF PickRec
  <2>5. \A k \in 0 .. n : s[k] \in Seq(V)
    BY <2>3
  <2> QED
    BY <2>4, <2>5
<1> HIDE DEF s
<1> QED
  BY <1>3, <1>4, <1>5

\* It does so whatever the values are.
LEMMA PickExists ==
    ASSUME NEW n \in Nat, NEW S, NEW f
    PROVE  \E p : PickRec(p, S, f, n) /\ Picked(S, f, n) = p[n]
<1> DEFINE V == {f[k] : k \in 1 .. n}
<1>1. \A k \in 1 .. n : k \in S => f[k] \in V
  OBVIOUS
<1> HIDE DEF V
<1> QED
  BY <1>1, PickRecursion

\* Two such functions agree as far as their places and values do.
LEMMA PicksAgree ==
    ASSUME NEW n \in Nat, NEW m \in Nat, NEW S, NEW T, NEW f, NEW g, NEW a, NEW b,
           PickRec(a, S, f, n), PickRec(b, T, g, m),
           NEW k \in Nat, k <= n, k <= m,
           \A j \in 1 .. k : (j \in S <=> j \in T) /\ (j \in S => f[j] = g[j])
    PROVE  a[k] = b[k]
<1> DEFINE U == {j \in Nat : j <= k => a[j] = b[j]}
<1>1. 0 \in U
  BY DEF PickRec
<1>2. ASSUME NEW j \in Nat, j \in U PROVE j + 1 \in U
  <2> SUFFICES ASSUME j + 1 <= k PROVE a[j + 1] = b[j + 1]
    OBVIOUS
  <2>1. a[j] = b[j] /\ (j + 1 \in S <=> j + 1 \in T) /\ (j + 1 \in S => f[j + 1] = g[j + 1])
    BY <1>2
  <2>2. j + 1 \in 0 .. n /\ j + 1 \in 0 .. m /\ j + 1 # 0 /\ (j + 1) - 1 = j
    OBVIOUS
  <2>3. /\ a[j + 1] = IF j + 1 \in S THEN Append(a[j], f[j + 1]) ELSE a[j]
        /\ b[j + 1] = IF j + 1 \in T THEN Append(b[j], g[j + 1]) ELSE b[j]
    BY <2>2 DEF PickRec
  <2> QED
    BY <2>1, <2>3
<1>3. k \in U
  <2> HIDE DEF U
  <2> QED
    BY <1>1, <1>2, SetInduction
<1> QED
  BY <1>3

\* What is picked of no place.
LEMMA PickedNone ==
    ASSUME NEW S, NEW f PROVE Picked(S, f, 0) = <<>>
<1>1. PICK a : PickRec(a, S, f, 0) /\ Picked(S, f, 0) = a[0]
  BY PickExists
<1> QED
  BY <1>1 DEF PickRec

\* What is picked is of the type of the values.
LEMMA PickedType ==
    ASSUME NEW n \in Nat, NEW S, NEW f, NEW V, \A k \in 1 .. n : k \in S => f[k] \in V
    PROVE  Picked(S, f, n) \in Seq(V)
BY PickRecursion

\* The same places and values, the same picks.
LEMMA PickedSame ==
    ASSUME NEW n \in Nat, NEW S, NEW T, NEW f, NEW g,
           \A k \in 1 .. n : (k \in S <=> k \in T) /\ (k \in S => f[k] = g[k])
    PROVE  Picked(S, f, n) = Picked(T, g, n)
<1>1. PICK a : PickRec(a, S, f, n) /\ Picked(S, f, n) = a[n]
  BY PickExists
<1>2. PICK b : PickRec(b, T, g, n) /\ Picked(T, g, n) = b[n]
  BY PickExists
<1> QED
  BY <1>1, <1>2, PicksAgree

\* One place more: its value is picked last, or nothing is.
LEMMA PickedNext ==
    ASSUME NEW m \in Nat \ {0}, NEW T, NEW g
    PROVE  Picked(T, g, m) = IF m \in T THEN Longer(Picked(T, g, m - 1), g[m])
                             ELSE Picked(T, g, m - 1)
<1>0. m \in Nat /\ m - 1 \in Nat /\ m - 1 <= m /\ m - 1 <= m - 1
  OBVIOUS
<1>1. PICK a : PickRec(a, T, g, m - 1) /\ Picked(T, g, m - 1) = a[m - 1]
  BY <1>0, PickExists
<1>2. PICK b : PickRec(b, T, g, m) /\ Picked(T, g, m) = b[m]
  BY PickExists
<1>3. a[m - 1] = b[m - 1]
  BY <1>0, <1>1, <1>2, PicksAgree
<1>4. b[m] = IF m \in T THEN Append(b[m - 1], g[m]) ELSE b[m - 1]
  <2>1. m \in 0 .. m /\ m # 0
    OBVIOUS
  <2> QED
    BY <1>2, <2>1 DEF PickRec
<1> QED
  BY <1>1, <1>2, <1>3, <1>4 DEF Longer

-----------------------------------------------------------------------------
(* What FlattenSeq makes of a sequence of sequences that fills up from the  *)
(* front.                                                                   *)

FlatRec(flat, t) ==
    flat = [k \in 1 .. Len(t) |-> IF k = 1 THEN t[k] ELSE flat[k - 1] \o t[k]]

\* FlattenSeq is the last value of a function that follows its recursion.
LEMMA FlatRecursion ==
    ASSUME NEW V, NEW t \in Seq(Seq(V)), Len(t) > 0
    PROVE  \E flat : /\ FlatRec(flat, t)
                     /\ flat \in [1 .. Len(t) -> Seq(V)]
                     /\ FlattenSeq(t) = flat[Len(t)]
<1> DEFINE n == Len(t)
<1>0. n \in Nat \ {0} /\ \A k \in 1 .. n : t[k] \in Seq(V)
  OBVIOUS
<1>1. PICK g \in [0 .. n -> Seq(V)] :
          g[0] = <<>> /\ \A k \in 1 .. n : g[k] = g[k - 1] \o t[k]
  <2> DEFINE G == [k \in 1 .. n |-> [v \in Seq(V) |-> v \o t[k]]]
  <2>1. G \in [1 .. n -> [Seq(V) -> Seq(V)]]
    <3>1. ASSUME NEW k \in 1 .. n, NEW v \in Seq(V) PROVE v \o t[k] \in Seq(V)
      BY <1>0, ConcatProperties
    <3> QED
      BY <3>1
  <2>2. PICK g \in [0 .. n -> Seq(V)] : Follows(g, <<>>, G, n)
    <3> HIDE DEF G, n
    <3>1. <<>> \in Seq(V)
      OBVIOUS
    <3> QED
      BY <1>0, <2>1, <3>1, RecursionExists
  <2>3. ASSUME NEW k \in 1 .. n PROVE G[k][g[k - 1]] = g[k - 1] \o t[k]
    <3>1. k - 1 \in 0 .. n
      BY <1>0
    <3> QED
      BY <3>1
  <2> HIDE DEF G
  <2> QED
    BY <2>2, <2>3 DEF Follows
<1> DEFINE h == [k \in 1 .. n |-> g[k]]
<1>2. FlatRec(h, t)
  <2>1. ASSUME NEW k \in 1 .. n PROVE h[k] = IF k = 1 THEN t[k] ELSE h[k - 1] \o t[k]
    <3>1. CASE k = 1
      <4>1. 1 \in 1 .. n /\ 1 - 1 = 0
        BY <1>0
      <4>2. g[1] = <<>> \o t[1]
        BY <1>1, <4>1
      <4> QED
        BY <1>0, <3>1, <4>1, <4>2, ConcatEmptySeq
    <3>2. CASE k # 1
      <4>1. k - 1 \in 1 .. n
        BY <1>0, <3>2
      <4>2. g[k] = g[k - 1] \o t[k]
        BY <1>1
      <4> QED
        BY <3>2, <4>1, <4>2
    <3> QED
      BY <3>1, <3>2
  <2>2. h = [k \in 1 .. n |-> h[k]]
    OBVIOUS
  <2> HIDE DEF h
  <2> QED
    BY <2>1, <2>2, Zenon DEF FlatRec, n
<1> DEFINE s == CHOOSE flat : FlatRec(flat, t)
<1>3. FlatRec(s, t)
  BY <1>2
<1>4. FlattenSeq(t) = s[n]
  BY <1>0 DEF FlattenSeq, FlatRec
<1>5. s \in [1 .. n -> Seq(V)]
  <2> HIDE DEF s, h
  <2> DEFINE T == {k \in Nat : k + 1 <= n => s[k + 1] \in Seq(V)}
  <2>0. \A k \in 1 .. n : s[k] = IF k = 1 THEN t[k] ELSE s[k - 1] \o t[k]
    BY <1>3 DEF FlatRec
  <2>1. 0 \in T
    BY <1>0, <2>0
  <2>2. ASSUME NEW k \in Nat, k \in T PROVE k + 1 \in T
    <3> SUFFICES ASSUME (k + 1) + 1 <= n PROVE s[(k + 1) + 1] \in Seq(V)
      OBVIOUS
    <3>1. s[k + 1] \in Seq(V) /\ (k + 1) + 1 \in 1 .. n /\ (k + 1) + 1 # 1
          /\ ((k + 1) + 1) - 1 = k + 1
      BY <1>0, <2>2
    <3>2. s[(k + 1) + 1] = s[k + 1] \o t[(k + 1) + 1]
      BY <2>0, <3>1
    <3> QED
      BY <1>0, <3>1, <3>2, ConcatProperties
  <2>3. \A k \in Nat : k \in T
    <3> HIDE DEF T
    <3> QED
      BY <2>1, <2>2, SetInduction
  <2>4. s = [k \in 1 .. n |-> s[k]]
    BY <1>3 DEF FlatRec
  <2>5. ASSUME NEW k \in 1 .. n PROVE s[k] \in Seq(V)
    <3>1. k - 1 \in Nat /\ (k - 1) + 1 = k /\ k <= n
      BY <1>0
    <3>2. k - 1 \in T
      BY <2>3, <3>1
    <3> QED
      BY <3>1, <3>2
  <2> QED
    BY <2>4, <2>5
<1> HIDE DEF s
<1> QED
  BY <1>3, <1>4, <1>5

\* Parts that are empty make an empty whole.
LEMMA FlatNothing ==
    ASSUME NEW V, NEW t \in Seq(Seq(V)), Len(t) > 0, \A k \in 1 .. Len(t) : t[k] = <<>>
    PROVE  FlattenSeq(t) = <<>>
<1> DEFINE n == Len(t)
<1>0. n \in Nat \ {0}
  OBVIOUS
<1>1. PICK a : FlatRec(a, t) /\ FlattenSeq(t) = a[n]
  BY FlatRecursion
<1>2. \A k \in 1 .. n : a[k] = IF k = 1 THEN t[k] ELSE a[k - 1] \o t[k]
  BY <1>1 DEF FlatRec
<1> DEFINE T == {k \in Nat : k + 1 <= n => a[k + 1] = <<>>}
<1>3. 0 \in T
  BY <1>0, <1>2
<1>4. ASSUME NEW k \in Nat, k \in T PROVE k + 1 \in T
  <2> SUFFICES ASSUME (k + 1) + 1 <= n PROVE a[(k + 1) + 1] = <<>>
    OBVIOUS
  <2>1. a[k + 1] = <<>> /\ (k + 1) + 1 \in 1 .. n /\ (k + 1) + 1 # 1
        /\ ((k + 1) + 1) - 1 = k + 1
    BY <1>0, <1>4
  <2>2. a[(k + 1) + 1] = <<>> \o <<>>
    BY <1>2, <2>1
  <2>3. <<>> \in Seq(V)
    OBVIOUS
  <2> QED
    BY <2>2, <2>3, ConcatEmptySeq
<1>5. n - 1 \in T
  <2>1. n - 1 \in Nat
    BY <1>0
  <2> HIDE DEF T
  <2> QED
    BY <1>3, <1>4, <2>1, SetInduction
<1> QED
  BY <1>0, <1>1, <1>5

\* To add to the end of the second is to add to the end of both.
LEMMA AppendToConcat ==
    ASSUME NEW V, NEW x \in V
    PROVE  \A c, d \in Seq(V) : c \o Append(d, x) = Append(c \o d, x)
<1> SUFFICES ASSUME NEW c \in Seq(V), NEW d \in Seq(V)
             PROVE  c \o Append(d, x) = Append(c \o d, x)
  OBVIOUS
<1>1. <<x>> \in Seq(V)
  OBVIOUS
<1>2. c \o (d \o <<x>>) = (c \o d) \o <<x>>
  BY <1>1, ConcatAssociative
<1>3. \A w \in Seq(V) : Append(w, x) = w \o <<x>>
  BY AppendIsConcat
<1>4. c \o d \in Seq(V)
  BY ConcatProperties
<1> QED
  BY <1>2, <1>3, <1>4

\* What is added to the last part that is not empty is added to the whole.
LEMMA FlatAppend ==
    ASSUME NEW V, NEW t \in Seq(Seq(V)), NEW u \in Seq(Seq(V)), Len(u) = Len(t),
           NEW q \in 1 .. Len(t), NEW x \in V,
           u[q] = Longer(t[q], x),
           \A k \in 1 .. Len(t) : k # q => u[k] = t[k],
           \A k \in 1 .. Len(t) : k > q => t[k] = <<>>
    PROVE  FlattenSeq(u) = Longer(FlattenSeq(t), x)
<1>n. PICK n \in Nat \ {0} : n = Len(t) /\ n = Len(u)
  OBVIOUS
<1>0. /\ n \in Nat \ {0} /\ q \in 1 .. n /\ 1 \in 1 .. n
      /\ \A k \in 1 .. n : t[k] \in Seq(V)
      /\ \A k \in 1 .. n : k # q => u[k] = t[k]
      /\ \A k \in 1 .. n : k > q => t[k] = <<>>
      /\ Len(t) > 0 /\ Len(u) > 0
  BY <1>n
<1>u. u[q] = Append(t[q], x)
  BY DEF Longer
<1>1. PICK a : FlatRec(a, t) /\ a \in [1 .. n -> Seq(V)] /\ FlattenSeq(t) = a[n]
  BY <1>n, <1>0, FlatRecursion
<1>2. PICK b : FlatRec(b, u) /\ FlattenSeq(u) = b[n]
  BY <1>n, <1>0, FlatRecursion
<1>3. /\ \A k \in 1 .. n : a[k] = IF k = 1 THEN t[k] ELSE a[k - 1] \o t[k]
      /\ \A k \in 1 .. n : b[k] = IF k = 1 THEN u[k] ELSE b[k - 1] \o u[k]
  BY <1>n, <1>1, <1>2 DEF FlatRec
<1>c. \A c, d \in Seq(V) : c \o Append(d, x) = Append(c \o d, x)
  BY AppendToConcat
<1> DEFINE P(k) == b[k] = IF k < q THEN a[k] ELSE Append(a[k], x)
           T == {k \in Nat : k + 1 <= n => P(k + 1)}
<1>4. 0 \in T
  <2>1. a[1] = t[1] /\ b[1] = u[1]
    BY <1>0, <1>3
  <2>2. CASE q = 1
    BY <1>0, <1>u, <2>1, <2>2
  <2>3. CASE q # 1
    BY <1>0, <2>1, <2>3
  <2> QED
    BY <2>2, <2>3
<1>5. ASSUME NEW k \in Nat, k \in T PROVE k + 1 \in T
  <2> SUFFICES ASSUME (k + 1) + 1 <= n PROVE P((k + 1) + 1)
    OBVIOUS
  <2>m. PICK m \in Nat : m = (k + 1) + 1
    OBVIOUS
  <2>1. P(k + 1) /\ k + 1 \in 1 .. n /\ m \in 1 .. n /\ m # 1 /\ m - 1 = k + 1
    BY <1>0, <1>5, <2>m
  <2>2. a[m] = a[k + 1] \o t[m] /\ b[m] = b[k + 1] \o u[m]
    BY <1>3, <2>1
  <2>3. a[k + 1] \in Seq(V) /\ t[m] \in Seq(V)
    BY <1>0, <1>1, <2>1
  <2>4. ASSUME m < q PROVE P(m)
    <3>1. b[k + 1] = a[k + 1] /\ u[m] = t[m]
      BY <1>0, <2>1, <2>4
    <3> QED
      BY <2>2, <2>4, <3>1
  <2>5. ASSUME m = q PROVE P(m)
    <3>1. b[k + 1] = a[k + 1] /\ u[m] = Append(t[m], x)
      BY <1>0, <1>u, <2>1, <2>5
    <3>2. b[m] = Append(a[m], x)
      <4>1. a[k + 1] \o Append(t[m], x) = Append(a[k + 1] \o t[m], x)
        BY <2>3, <1>c
      <4> QED
        BY <2>2, <3>1, <4>1
    <3> QED
      BY <1>0, <2>5, <3>2
  <2>6. ASSUME m > q PROVE P(m)
    <3>1. b[k + 1] = Append(a[k + 1], x) /\ u[m] = <<>> /\ t[m] = <<>>
      <4>1. ~(k + 1 < q) /\ m # q /\ m > q
        BY <1>0, <2>m, <2>6
      <4>2. b[k + 1] = Append(a[k + 1], x)
        BY <2>1, <4>1
      <4>3. t[m] = <<>> /\ u[m] = t[m]
        BY <1>0, <2>1, <4>1
      <4> QED
        BY <4>2, <4>3
    <3>2. Append(a[k + 1], x) \in Seq(V)
      BY <2>3
    <3>3. a[m] = a[k + 1] /\ b[m] = b[k + 1]
      BY <2>2, <2>3, <3>1, <3>2, ConcatEmptySeq
    <3> QED
      <4>1. ~(m < q)
        BY <1>0, <2>6
      <4>2. b[m] = Append(a[m], x)
        BY <3>1, <3>3
      <4> QED
        BY <4>1, <4>2
  <2> QED
    BY <1>0, <2>m, <2>1, <2>4, <2>5, <2>6
<1>6. \A k \in Nat : k \in T
  <2> HIDE DEF T
  <2> QED
    BY <1>4, <1>5, SetInduction
<1>7. b[n] = Append(a[n], x)
  <2>1. PICK k \in Nat : k + 1 = n
    <3>1. n - 1 \in Nat /\ (n - 1) + 1 = n
      BY <1>0
    <3> QED
      BY <3>1
  <2>2. ~(n < q)
    BY <1>0
  <2>3. k + 1 <= n /\ k \in T
    BY <1>0, <1>6, <2>1
  <2>4. P(k + 1)
    BY <2>3
  <2> HIDE DEF T
  <2> QED
    BY <2>1, <2>2, <2>4
<1> QED
  BY <1>n, <1>1, <1>2, <1>7 DEF Longer

-----------------------------------------------------------------------------
(* The file and the observations.                                           *)

Batch == Repeats * Len(Messages)      \* requests of one size
Lines == [size : Elements(sizes), message : Elements(Messages), probs : Answers]

SizesOK ==
    /\ sizes \in Seq(Nat) /\ sizes # <<>>
    /\ \A i, j \in DOMAIN sizes : sizes[i] = sizes[j] => i = j

\* A size has answers only once the run has come to it.
InFile ==
    /\ file \in Seq(Lines)
    /\ obs \in [Elements(sizes) -> [Elements(Messages) -> [Interests -> Seq(Probs)]]]
    /\ \A j \in DOMAIN sizes, m \in Elements(Messages), i \in Interests :
          obs[sizes[j]][m][i] # <<>> => (j - 1) * Batch < step

Seen(m, i) == [n \in DOMAIN sizes |-> obs[sizes[n]][m][i]]

Replayed ==
    \A m \in Elements(Messages), i \in Interests :
        /\ Analysed(m, i) = FlattenSeq(Seen(m, i))
        /\ \A s \in Elements(sizes) : Cell(s, m, i) = obs[s][m][i]

ReplayInv ==
    /\ stage \in {"flags", "planned", "pacing", "asking", "reported", "failed", "dry", "refused"}
    /\ repeats \in Nat /\ step \in Nat
    /\ stage \notin {"flags", "refused"} => SizesOK
    /\ stage \in {"flags", "planned"} => step = 0 /\ file = <<>>
    /\ stage \in {"pacing", "asking"} => step < Total
    /\ Begun => InFile /\ Replayed

\* The ranges of the constants and of the sizes.
LEMMA MessagesFact ==
    /\ Len(Messages) \in Nat \ {0} /\ DOMAIN Messages = 1 .. Len(Messages)
    /\ \A n \in 1 .. Len(Messages) : Messages[n] \in Elements(Messages)
BY MeasurementAssumption DEF Elements

\* A batch has a request at least.
LEMMA BatchFact ==
    ASSUME repeats \in Nat
    PROVE  Repeats \in Nat \ {0} /\ Batch \in Nat \ {0}
<1>1. Repeats \in Nat \ {0}
  BY MeasurementAssumption DEF Repeats
<1>2. \A a, b \in Nat \ {0} : a * b \in Nat \ {0}
  OBVIOUS
<1> QED
  BY <1>1, <1>2, MessagesFact DEF Batch

LEMMA SizesFact ==
    ASSUME SizesOK
    PROVE  /\ Len(sizes) \in Nat \ {0} /\ DOMAIN sizes = 1 .. Len(sizes)
           /\ \A n \in 1 .. Len(sizes) : sizes[n] \in Nat /\ sizes[n] \in Elements(sizes)
           /\ \A s \in Elements(sizes) : \E n \in 1 .. Len(sizes) : s = sizes[n]
BY DEF SizesOK, Elements

\* A run is a batch for each size.
LEMMA TotalFact ==
    ASSUME repeats \in Nat, SizesOK
    PROVE  Total \in Nat /\ Total = Len(sizes) * Batch
<1>1. Repeats \in Nat /\ Len(Messages) \in Nat /\ Len(sizes) \in Nat
  BY BatchFact, MessagesFact, SizesFact
<1>2. \A a, b, c \in Nat : a * b * c \in Nat /\ a * b * c = a * (b * c)
  OBVIOUS
<1> QED
  BY <1>1, <1>2 DEF Total, Batch

\* What division rounds down.
LEMMA Division ==
    ASSUME NEW n \in Nat, NEW b \in Nat \ {0}
    PROVE  /\ n \div b \in Nat /\ (n \div b) * b <= n /\ n < ((n \div b) + 1) * b
           /\ n % b \in 0 .. b - 1
OBVIOUS

\* The place of a request in the run.
LEMMA PlaceFact ==
    ASSUME repeats \in Nat, SizesOK, NEW n \in Nat, n < Total
    PROVE  \E q \in 1 .. Len(sizes) :
              /\ q - 1 = n \div Batch
              /\ SizeOf(n + 1) = sizes[q] /\ MessageOf(n + 1) \in Elements(Messages)
              /\ (q - 1) * Batch <= n /\ n < q * Batch
<1>1. /\ Batch \in Nat \ {0} /\ Len(sizes) \in Nat \ {0}
      /\ Len(Messages) \in Nat \ {0} /\ n < Len(sizes) * Batch
  BY BatchFact, SizesFact, TotalFact, MessagesFact
<1>2. PICK d \in Nat : d = n \div Batch /\ d * Batch <= n /\ n < (d + 1) * Batch
  BY <1>1, Division
<1>3. d < Len(sizes)
  <2>1. \A a, b, c \in Nat : a * c < b * c => a < b
    OBVIOUS
  <2>2. d * Batch < Len(sizes) * Batch
    <3>1. d * Batch \in Nat /\ Len(sizes) * Batch \in Nat
      BY <1>1, <1>2
    <3> QED
      BY <1>1, <1>2, <3>1
  <2> QED
    BY <1>1, <1>2, <2>1, <2>2
<1>4. SizeOf(n + 1) = sizes[d + 1]
  BY <1>2 DEF SizeOf, Batch
<1>5. MessageOf(n + 1) \in Elements(Messages)
  <2>1. n % Len(Messages) \in 0 .. Len(Messages) - 1
    BY <1>1, Division
  <2>2. (n % Len(Messages)) + 1 \in 1 .. Len(Messages)
    BY <1>1, <2>1
  <2> QED
    BY <2>2, MessagesFact DEF MessageOf
<1>6. d + 1 \in 1 .. Len(sizes) /\ (d + 1) - 1 = d
  BY <1>1, <1>2, <1>3
<1> QED
  BY <1>2, <1>4, <1>5, <1>6

\* An answer is of some of the interests.
LEMMA AnswersFact ==
    ASSUME NEW p \in Answers
    PROVE  DOMAIN p \subseteq Interests /\ \A i \in DOMAIN p : p[i] \in Probs
BY DEF Answers

LEMMA ProbsFact ==
    ASSUME NEW line \in Lines
    PROVE  \A i \in DOMAIN line.probs : line.probs[i] \in Probs
BY AnswersFact DEF Lines

\* What a line adds to the probabilities of a case in the file.
LEMMA AnalysedNext ==
    ASSUME file \in Seq(Lines), NEW line \in Lines, file' = Longer(file, line), NEW m, NEW i
    PROVE  /\ Analysed(m, i) \in Seq(Probs)
           /\ Analysed(m, i)' = IF line.message = m /\ i \in DOMAIN line.probs
                                THEN Longer(Analysed(m, i), line.probs[i]) ELSE Analysed(m, i)
<1> DEFINE S == {n \in DOMAIN file : file[n].message = m /\ i \in DOMAIN file[n].probs}
           T == {n \in DOMAIN file' : file'[n].message = m /\ i \in DOMAIN file'[n].probs}
<1>1. /\ DOMAIN file = 1 .. Len(file) /\ Len(file) \in Nat
      /\ DOMAIN file' = 1 .. Len(file) + 1 /\ file'[Len(file) + 1] = line
      /\ \A k \in 1 .. Len(file) : file'[k] = file[k] /\ k \in 1 .. Len(file) + 1
      /\ Len(file) + 1 \in 1 .. Len(file) + 1
  BY DEF Longer
<1>2. S \subseteq 1 .. Len(file) /\ T \subseteq 1 .. Len(file) + 1
  BY <1>1
<1>3. \A k \in 1 .. Len(file) : k \in S <=> k \in T
  BY <1>1
<1>4. \A k \in S : i \in DOMAIN file[k].probs
  OBVIOUS
<1>5. Len(file) + 1 \in T <=> line.message = m /\ i \in DOMAIN line.probs
  BY <1>1
<1> DEFINE f == [k \in S |-> file[k].probs[i]]
           g == [k \in T |-> file'[k].probs[i]]
<1>6. /\ Analysed(m, i) = Picked(S, f, Len(file)) /\ Analysed(m, i)' = Picked(T, g, Len(file'))
      /\ \A k \in S : f[k] = file[k].probs[i]
      /\ \A k \in T : g[k] = file'[k].probs[i]
  BY DEF Analysed, ProbsOf
<1> HIDE DEF S, T, f, g
<1>n. PICK n \in Nat, next \in Nat \ {0} :
         /\ n = Len(file) /\ next = n + 1 /\ n <= next - 1 /\ next - 1 <= n
         /\ next = Len(file')
  <2>1. Len(file) \in Nat /\ Len(file') = Len(file) + 1
    BY DEF Longer
  <2> QED
    BY <2>1
<1>7. \A j \in 1 .. n : j \in S => f[j] \in Probs
  <2> SUFFICES ASSUME NEW j \in 1 .. n, j \in S PROVE file[j].probs[i] \in Probs
    BY <1>6
  <2> QED
    BY <1>n, <1>4, ProbsFact
<1>8. \A j \in 1 .. n : (j \in S <=> j \in T) /\ (j \in S => f[j] = g[j])
  BY <1>n, <1>1, <1>3, <1>6
<1>9. /\ Picked(S, f, n) \in Seq(Probs)
      /\ Picked(T, g, next) = IF next \in T THEN Longer(Picked(S, f, n), g[next])
                               ELSE Picked(S, f, n)
  <2>1. n <= next - 1 /\ next - 1 <= n
    BY <1>n
  <2>2. Picked(S, f, n) \in Seq(Probs)
    BY <1>7, PickedType
  <2>3. Picked(S, f, n) = Picked(T, g, n)
    BY <1>8, PickedSame
  <2>4. Picked(T, g, next) = IF next \in T THEN Longer(Picked(T, g, next - 1), g[next])
                             ELSE Picked(T, g, next - 1)
    BY PickedNext
  <2>5. next - 1 = n
    BY <1>n
  <2> QED
    BY <2>2, <2>3, <2>4, <2>5
<1>10. next \in T => g[next] = line.probs[i]
  BY <1>n, <1>1, <1>6
<1> QED
  BY <1>n, <1>5, <1>6, <1>9, <1>10

\* What it adds to a cell of the explorer.
LEMMA CellNext ==
    ASSUME file \in Seq(Lines), NEW line \in Lines, file' = Longer(file, line),
           NEW s, NEW m, NEW i
    PROVE  Cell(s, m, i)' = IF line.size = s /\ line.message = m /\ i \in DOMAIN line.probs
                            THEN Longer(Cell(s, m, i), line.probs[i]) ELSE Cell(s, m, i)
<1> DEFINE S == {n \in DOMAIN file : /\ file[n].size = s /\ file[n].message = m
                                     /\ i \in DOMAIN file[n].probs}
           T == {n \in DOMAIN file' : /\ file'[n].size = s /\ file'[n].message = m
                                      /\ i \in DOMAIN file'[n].probs}
<1>1. /\ DOMAIN file = 1 .. Len(file) /\ Len(file) \in Nat
      /\ DOMAIN file' = 1 .. Len(file) + 1 /\ file'[Len(file) + 1] = line
      /\ \A k \in 1 .. Len(file) : file'[k] = file[k] /\ k \in 1 .. Len(file) + 1
      /\ Len(file) + 1 \in 1 .. Len(file) + 1
  BY DEF Longer
<1>2. S \subseteq 1 .. Len(file) /\ T \subseteq 1 .. Len(file) + 1
  BY <1>1
<1>3. \A k \in 1 .. Len(file) : k \in S <=> k \in T
  BY <1>1
<1>4. \A k \in S : i \in DOMAIN file[k].probs
  OBVIOUS
<1>5. Len(file) + 1 \in T <=> line.size = s /\ line.message = m /\ i \in DOMAIN line.probs
  BY <1>1
<1> DEFINE f == [k \in S |-> file[k].probs[i]]
           g == [k \in T |-> file'[k].probs[i]]
<1>6. /\ Cell(s, m, i) = Picked(S, f, Len(file)) /\ Cell(s, m, i)' = Picked(T, g, Len(file'))
      /\ \A k \in S : f[k] = file[k].probs[i]
      /\ \A k \in T : g[k] = file'[k].probs[i]
  BY DEF Cell, ProbsOf
<1> HIDE DEF S, T, f, g
<1>n. PICK n \in Nat, next \in Nat \ {0} :
         /\ n = Len(file) /\ next = n + 1 /\ n <= next - 1 /\ next - 1 <= n
         /\ next = Len(file')
  <2>1. Len(file) \in Nat /\ Len(file') = Len(file) + 1
    BY DEF Longer
  <2> QED
    BY <2>1
<1>7. \A j \in 1 .. n : j \in S => f[j] \in Probs
  <2> SUFFICES ASSUME NEW j \in 1 .. n, j \in S PROVE file[j].probs[i] \in Probs
    BY <1>6
  <2> QED
    BY <1>n, <1>4, ProbsFact
<1>8. \A j \in 1 .. n : (j \in S <=> j \in T) /\ (j \in S => f[j] = g[j])
  BY <1>n, <1>1, <1>3, <1>6
<1>9. /\ Picked(S, f, n) \in Seq(Probs)
      /\ Picked(T, g, next) = IF next \in T THEN Longer(Picked(S, f, n), g[next])
                               ELSE Picked(S, f, n)
  <2>1. n <= next - 1 /\ next - 1 <= n
    BY <1>n
  <2>2. Picked(S, f, n) \in Seq(Probs)
    BY <1>7, PickedType
  <2>3. Picked(S, f, n) = Picked(T, g, n)
    BY <1>8, PickedSame
  <2>4. Picked(T, g, next) = IF next \in T THEN Longer(Picked(T, g, next - 1), g[next])
                             ELSE Picked(T, g, next - 1)
    BY PickedNext
  <2>5. next - 1 = n
    BY <1>n
  <2> QED
    BY <2>2, <2>3, <2>4, <2>5
<1>10. next \in T => g[next] = line.probs[i]
  BY <1>n, <1>1, <1>6
<1> QED
  BY <1>n, <1>5, <1>6, <1>9, <1>10

\* Nothing has been answered when a run begins.
LEMMA ReplayBegins ==
    ASSUME ReplayInv, Begin PROVE ReplayInv'
<1>1. /\ stage = "planned" /\ stage' = "pacing" /\ step = 0 /\ file = <<>> /\ SizesOK
      /\ UNCHANGED <<sizes, repeats, step, file>>
      /\ obs' = [s \in Elements(sizes) |->
                    [m \in Elements(Messages) |-> [i \in Interests |-> <<>>]]]
      /\ repeats \in Nat
  BY DEF ReplayInv, Begin, planVars
<1>2. /\ Len(sizes) \in Nat \ {0} /\ DOMAIN sizes = 1 .. Len(sizes)
      /\ \A n \in 1 .. Len(sizes) : sizes[n] \in Elements(sizes)
  BY <1>1, SizesFact
<1>3. SizesOK' /\ Total' = Total /\ Elements(sizes)' = Elements(sizes)
  BY <1>1 DEF SizesOK, Total, Repeats, Elements
<1>4. 0 < Total
  <2>1. Batch \in Nat \ {0} /\ Total = Len(sizes) * Batch
    BY <1>1, BatchFact, TotalFact
  <2>2. \A a, b \in Nat \ {0} : 0 < a * b
    OBVIOUS
  <2> QED
    BY <1>2, <2>1, <2>2
<1>5. ASSUME NEW s \in Elements(sizes), NEW m \in Elements(Messages), NEW i \in Interests
      PROVE  obs'[s][m][i] = <<>>
  BY <1>1
<1>6. InFile'
  <2>1. file' \in Seq(Lines)'
    BY <1>1
  <2>2. obs' \in [Elements(sizes) -> [Elements(Messages) -> [Interests -> Seq(Probs)]]]
    <3>1. <<>> \in Seq(Probs)
      OBVIOUS
    <3> QED
      BY <1>1, <3>1
  <2>3. ASSUME NEW j \in DOMAIN sizes, NEW m \in Elements(Messages), NEW i \in Interests
        PROVE  obs'[sizes[j]][m][i] = <<>>
    BY <1>2, <1>5
  <2> QED
    BY <1>1, <1>3, <2>1, <2>2, <2>3 DEF InFile
<1>7. Replayed'
  <2> SUFFICES ASSUME NEW m \in Elements(Messages), NEW i \in Interests
               PROVE  /\ Analysed(m, i)' = FlattenSeq(Seen(m, i)')
                      /\ \A s \in Elements(sizes) : Cell(s, m, i)' = obs'[s][m][i]
    BY <1>3 DEF Replayed
  <2>1. file' = <<>> /\ Len(file') = 0
    BY <1>1
  <2>2. Analysed(m, i)' = <<>>
    BY <2>1, PickedNone DEF Analysed, ProbsOf
  <2>3. \A s \in Elements(sizes) : Cell(s, m, i)' = <<>>
    BY <2>1, PickedNone DEF Cell, ProbsOf
  <2>4. FlattenSeq(Seen(m, i)') = <<>>
    <3> DEFINE t == [n \in DOMAIN sizes |-> obs'[sizes[n]][m][i]]
    <3>1. t = [n \in 1 .. Len(sizes) |-> <<>>]
      BY <1>2, <1>5
    <3>2. t \in Seq(Seq(Probs)) /\ Len(t) = Len(sizes)
      <4>1. <<>> \in Seq(Probs)
        OBVIOUS
      <4>2. \A n \in 1 .. Len(sizes) : obs'[sizes[n]][m][i] \in Seq(Probs)
        BY <1>2, <1>5, <4>1
      <4> QED
        BY <1>2, <4>2
    <3>3. Len(t) > 0 /\ \A k \in 1 .. Len(t) : t[k] = <<>>
      BY <1>2, <3>1, <3>2
    <3>4. Seen(m, i)' = t
      BY <1>1 DEF Seen
    <3> HIDE DEF t
    <3> QED
      BY <3>2, <3>3, <3>4, FlatNothing
  <2> QED
    BY <1>5, <2>2, <2>3, <2>4
<1> QED
  BY <1>1, <1>3, <1>4, <1>6, <1>7 DEF ReplayInv, Begun

\* An answer is the last of its size, and no later size has any.
LEMMA ReplayAnswers ==
    ASSUME ReplayInv, Answer PROVE ReplayInv'
<1>1. /\ stage = "asking" /\ step \in Nat /\ step < Total /\ SizesOK /\ repeats \in Nat
      /\ step' = step + 1 /\ UNCHANGED <<sizes, repeats>>
      /\ stage' = IF step' = Total THEN "reported" ELSE "pacing"
      /\ InFile /\ Replayed
  BY DEF ReplayInv, Answer, planVars, Begun
<1>2. /\ Len(sizes) \in Nat \ {0} /\ DOMAIN sizes = 1 .. Len(sizes)
      /\ \A n \in 1 .. Len(sizes) : sizes[n] \in Elements(sizes)
      /\ \A s \in Elements(sizes) : \E n \in 1 .. Len(sizes) : s = sizes[n]
      /\ Batch \in Nat \ {0} /\ Total \in Nat
  BY <1>1, SizesFact, BatchFact, TotalFact
<1>3. /\ SizesOK' /\ Total' = Total /\ Elements(sizes)' = Elements(sizes)
      /\ Batch' = Batch /\ Lines' = Lines
  BY <1>1 DEF SizesOK, Total, Batch, Repeats, Elements, Lines
<1>4. PICK q \in 1 .. Len(sizes) :
         /\ SizeOf(step + 1) = sizes[q] /\ MessageOf(step + 1) \in Elements(Messages)
         /\ (q - 1) * Batch <= step /\ step < q * Batch
  BY <1>1, PlaceFact
<1>5. PICK m1 \in Elements(Messages), probs \in Answers :
         /\ file' = Append(file, Line(sizes[q], m1, probs))
         /\ obs' = [obs EXCEPT ![sizes[q]][m1] = Keep(@, probs)]
  <2>1. SizeOf(step') = sizes[q] /\ MessageOf(step') \in Elements(Messages)
    BY <1>1, <1>4
  <2>2. PICK probs \in Answers :
           /\ file' = Append(file, Line(SizeOf(step'), MessageOf(step'), probs))
           /\ obs' = [obs EXCEPT ![SizeOf(step')][MessageOf(step')] = Keep(@, probs)]
    BY DEF Answer
  <2> QED
    BY <2>1, <2>2
<1> DEFINE line == Line(sizes[q], m1, probs)
<1>6. /\ line \in Lines /\ line.size = sizes[q] /\ line.message = m1 /\ line.probs = probs
      /\ file' = Longer(file, line) /\ file \in Seq(Lines)
  BY <1>1, <1>2, <1>5 DEF Line, Lines, InFile, Longer
<1>7. /\ DOMAIN probs \subseteq Interests /\ \A i \in DOMAIN probs : probs[i] \in Probs
  BY AnswersFact
<1>8. obs \in [Elements(sizes) -> [Elements(Messages) -> [Interests -> Seq(Probs)]]]
  BY <1>1 DEF InFile
<1>9. ASSUME NEW s \in Elements(sizes), NEW m \in Elements(Messages), NEW i \in Interests
      PROVE  obs'[s][m][i] = IF s = sizes[q] /\ m = m1 /\ i \in DOMAIN probs
                             THEN Longer(obs[s][m][i], probs[i]) ELSE obs[s][m][i]
  <2>1. CASE s = sizes[q] /\ m = m1
    <3>1. obs'[s][m] = Keep(obs[s][m], probs)
      BY <1>5, <1>8, <2>1
    <3> QED
      BY <2>1, <3>1 DEF Keep, Longer
  <2>2. CASE s # sizes[q] \/ m # m1
    BY <1>5, <1>8, <2>2
  <2> QED
    BY <2>1, <2>2
<1>10. ASSUME NEW k \in 1 .. Len(sizes), k > q, NEW m \in Elements(Messages), NEW i \in Interests
       PROVE  obs[sizes[k]][m][i] = <<>>
  <2>1. obs[sizes[k]][m][i] # <<>> => (k - 1) * Batch < step
    BY <1>1, <1>2 DEF InFile
  <2>2. q * Batch <= (k - 1) * Batch
    <3>1. q \in Nat /\ k - 1 \in Nat /\ q <= k - 1
      BY <1>2, <1>10
    <3>2. \A a, b, c \in Nat : a <= b => a * c <= b * c
      OBVIOUS
    <3> QED
      BY <1>2, <3>1, <3>2
  <2>3. q * Batch \in Nat /\ (k - 1) * Batch \in Nat
    <3>1. q \in Nat /\ k - 1 \in Nat
      BY <1>2
    <3> QED
      BY <1>2, <3>1
  <2> QED
    BY <1>1, <1>4, <2>1, <2>2, <2>3
<1>11. InFile'
  <2>1. file' \in Seq(Lines)
    BY <1>6 DEF Longer
  <2>2. obs' \in [Elements(sizes) -> [Elements(Messages) -> [Interests -> Seq(Probs)]]]
    <3>1. sizes[q] \in Elements(sizes)
      BY <1>2
    <3>2. Keep(obs[sizes[q]][m1], probs) \in [Interests -> Seq(Probs)]
      <4>1. obs[sizes[q]][m1] \in [Interests -> Seq(Probs)]
        BY <1>8, <3>1
      <4> QED
        BY <1>7, <4>1 DEF Keep
    <3> QED
      BY <1>5, <1>8, <3>1, <3>2
  <2>3. ASSUME NEW j \in DOMAIN sizes, NEW m \in Elements(Messages), NEW i \in Interests,
               obs'[sizes[j]][m][i] # <<>>
        PROVE  (j - 1) * Batch < step + 1
    <3>0. j \in 1 .. Len(sizes) /\ (j - 1) * Batch \in Nat
      <4>1. j \in 1 .. Len(sizes) /\ j - 1 \in Nat
        BY <1>2
      <4> QED
        BY <1>2, <4>1
    <3>1. CASE j = q
      BY <1>1, <1>4, <3>0, <3>1
    <3>2. CASE j # q
      <4>1. sizes[j] # sizes[q] /\ sizes[j] \in Elements(sizes)
        BY <1>1, <1>2, <3>0, <3>2 DEF SizesOK
      <4>2. obs[sizes[j]][m][i] # <<>>
        BY <1>9, <2>3, <4>1
      <4>3. (j - 1) * Batch < step
        BY <1>1, <4>2 DEF InFile
      <4> QED
        BY <1>1, <3>0, <4>3
    <3> QED
      BY <3>1, <3>2
  <2> QED
    BY <1>1, <1>3, <2>1, <2>2, <2>3 DEF InFile
<1>12. Replayed'
  <2> SUFFICES ASSUME NEW m \in Elements(Messages), NEW i \in Interests
               PROVE  /\ Analysed(m, i)' = FlattenSeq(Seen(m, i)')
                      /\ \A s \in Elements(sizes) : Cell(s, m, i)' = obs'[s][m][i]
    BY <1>3 DEF Replayed
  <2>1. /\ Analysed(m, i) = FlattenSeq(Seen(m, i))
        /\ \A s \in Elements(sizes) : Cell(s, m, i) = obs[s][m][i]
    BY <1>1 DEF Replayed
  <2>2. Analysed(m, i)' = IF m = m1 /\ i \in DOMAIN probs
                          THEN Longer(Analysed(m, i), probs[i]) ELSE Analysed(m, i)
    <3> HIDE DEF line
    <3>1. Analysed(m, i)' = IF line.message = m /\ i \in DOMAIN line.probs
                            THEN Longer(Analysed(m, i), line.probs[i]) ELSE Analysed(m, i)
      BY <1>6, AnalysedNext
    <3> QED
      BY <1>6, <3>1
  <2>3. ASSUME NEW s \in Elements(sizes) PROVE Cell(s, m, i)' = obs'[s][m][i]
    <3> HIDE DEF line
    <3>1. Cell(s, m, i)' = IF line.size = s /\ line.message = m /\ i \in DOMAIN line.probs
                           THEN Longer(Cell(s, m, i), line.probs[i]) ELSE Cell(s, m, i)
      BY <1>6, CellNext
    <3>2. Cell(s, m, i) = obs[s][m][i]
      BY <2>1
    <3> QED
      BY <1>6, <1>9, <3>1, <3>2
  <2>4. Analysed(m, i)' = FlattenSeq(Seen(m, i)')
    <3> DEFINE t == [n \in DOMAIN sizes |-> obs[sizes[n]][m][i]]
               u == [n \in DOMAIN sizes |-> obs'[sizes[n]][m][i]]
    <3>1. Seen(m, i) = t /\ Seen(m, i)' = u
      BY <1>1 DEF Seen
    <3>2. /\ \A n \in 1 .. Len(sizes) : t[n] = obs[sizes[n]][m][i] /\ u[n] = obs'[sizes[n]][m][i]
      BY <1>2
    <3>3. CASE m = m1 /\ i \in DOMAIN probs
      <4>1. t \in Seq(Seq(Probs)) /\ Len(t) = Len(sizes)
        BY <1>2, <1>8
      <4>2. u \in Seq(Seq(Probs)) /\ Len(u) = Len(sizes)
        <5>1. InFile'
          BY <1>11
        <5>2. obs' \in [Elements(sizes) -> [Elements(Messages) -> [Interests -> Seq(Probs)]]]
          BY <1>3, <5>1 DEF InFile
        <5> QED
          BY <1>2, <5>2
      <4>3. u[q] = Longer(t[q], probs[i])
        BY <1>2, <1>9, <3>2, <3>3
      <4>4. ASSUME NEW k \in 1 .. Len(sizes), k # q PROVE u[k] = t[k]
        <5>1. sizes[k] # sizes[q] /\ sizes[k] \in Elements(sizes)
          BY <1>1, <1>2, <4>4 DEF SizesOK
        <5> QED
          BY <1>9, <3>2, <5>1
      <4>5. \A k \in 1 .. Len(sizes) : k > q => t[k] = <<>>
        BY <1>10, <3>2
      <4> HIDE DEF t, u
      <4>6. FlattenSeq(u) = Longer(FlattenSeq(t), probs[i])
        <5>1. /\ probs[i] \in Probs /\ q \in 1 .. Len(t) /\ Len(u) = Len(t)
              /\ \A k \in 1 .. Len(t) : k # q => u[k] = t[k]
              /\ \A k \in 1 .. Len(t) : k > q => t[k] = <<>>
          BY <1>7, <3>3, <4>1, <4>2, <4>4, <4>5
        <5> QED
          BY <4>1, <4>2, <4>3, <5>1, FlatAppend
      <4> QED
        BY <2>1, <2>2, <3>1, <3>3, <4>6
    <3>4. CASE ~(m = m1 /\ i \in DOMAIN probs)
      <4>1. \A s \in Elements(sizes) : obs'[s][m][i] = obs[s][m][i]
        BY <1>9, <3>4
      <4>2. t = u
        BY <1>2, <4>1
      <4> HIDE DEF t, u
      <4> QED
        BY <2>1, <2>2, <3>1, <3>4, <4>2
    <3> QED
      BY <3>3, <3>4
  <2> QED
    BY <2>3, <2>4
<1>13. stage' \in {"pacing", "asking"} => step' < Total'
  BY <1>1, <1>2, <1>3
<1> QED
  BY <1>1, <1>3, <1>11, <1>12, <1>13 DEF ReplayInv, Begun

\* The sizes are numbers, and none is there twice.
LEMMA ReadFlagsSizes ==
    ASSUME ReadFlags, stage' = "planned" PROVE SizesOK'
<1>1. CASE sizes' = <<Cardinality(Interests)>>
  <2>1. Cardinality(Interests) \in Nat
    BY MeasurementAssumption, FS_CardinalityType
  <2> QED
    BY <1>1, <2>1 DEF SizesOK
<1>2. CASE \E flag \in SizeFlags : Len(flag) >= 2 /\ sizes' \in Sorted(flag)
  <2>1. PICK flag \in SizeFlags : Len(flag) >= 2 /\ sizes' \in Sorted(flag)
    BY <1>2
  <2>2. flag \in Seq(Nat \ {0}) /\ DOMAIN flag = 1 .. Len(flag) /\ Len(flag) \in Nat
    BY MeasurementAssumption
  <2>3. /\ sizes' \in [1 .. Len(flag) -> Elements(flag)]
        /\ \A i, j \in 1 .. Len(flag) : i < j => sizes'[i] < sizes'[j]
    BY <2>1, <2>2 DEF Sorted
  <2>4. Elements(flag) \subseteq Nat
    BY <2>2 DEF Elements
  <2>5. sizes' \in Seq(Nat) /\ Len(sizes') = Len(flag) /\ DOMAIN sizes' = 1 .. Len(flag)
    BY <2>2, <2>3, <2>4
  <2>6. ASSUME NEW i \in 1 .. Len(flag), NEW j \in 1 .. Len(flag), sizes'[i] = sizes'[j]
        PROVE  i = j
    <3>1. sizes'[i] \in Nat /\ sizes'[j] \in Nat
      BY <2>3, <2>4
    <3>2. ~(i < j) /\ ~(j < i)
      BY <2>3, <2>6, <3>1
    <3> QED
      BY <2>2, <3>2
  <2>7. sizes' # <<>>
    BY <2>1, <2>5
  <2> QED
    BY <2>5, <2>6, <2>7 DEF SizesOK
<1>3. ASSUME NEW flag \in SizeFlags,
             IF Len(flag) < 2 THEN stage' = "refused" /\ UNCHANGED sizes
             ELSE stage' = "planned" /\ sizes' \in Sorted(flag)
      PROVE  Len(flag) >= 2 /\ sizes' \in Sorted(flag)
  <2>1. Len(flag) \in Nat
    BY MeasurementAssumption
  <2> QED
    BY <1>3, <2>1
<1> QED
  BY <1>1, <1>2, <1>3 DEF ReadFlags

\* The parts of the invariant depend on five variables.
LEMMA ReplaySame ==
    ASSUME UNCHANGED <<sizes, repeats, step, file, obs>>
    PROVE  /\ SizesOK => SizesOK'
           /\ Total' = Total
           /\ InFile => InFile'
           /\ Replayed => Replayed'
<1>1. SizesOK => SizesOK'
  BY DEF SizesOK
<1>2. Total' = Total
  BY DEF Total, Repeats
<1>3. InFile => InFile'
  BY DEF InFile, Lines, Batch, Repeats, Elements
<1>4. Replayed => Replayed'
  <2>1. \A m, i : Analysed(m, i)' = Analysed(m, i) /\ Seen(m, i)' = Seen(m, i)
    BY DEF Analysed, ProbsOf, Seen
  <2>2. \A s, m, i : Cell(s, m, i)' = Cell(s, m, i)
    BY DEF Cell, ProbsOf
  <2>3. Elements(sizes)' = Elements(sizes)
    BY DEF Elements
  <2> QED
    BY <2>1, <2>2, <2>3 DEF Replayed
<1> QED
  BY <1>1, <1>2, <1>3, <1>4

\* The invariant is inductive.
LEMMA ReplayStep == ReplayInv /\ [Next]_vars => ReplayInv'
<1> SUFFICES ASSUME ReplayInv, [Next]_vars PROVE ReplayInv'
  OBVIOUS
<1>1. CASE ReadFlags
  <2>1. /\ stage = "flags" /\ stage' \in {"planned", "refused"}
        /\ UNCHANGED <<repeats, step, file>>
    BY <1>1 DEF ReadFlags
  <2>2. stage' = "planned" => SizesOK'
    BY <1>1, ReadFlagsSizes
  <2> QED
    BY <2>1, <2>2 DEF ReplayInv, Begun
<1>2. CASE Begin
  BY <1>2, ReplayBegins
<1>3. CASE Answer
  BY <1>3, ReplayAnswers
<1>4. CASE DryRun \/ Decline \/ Pace \/ TooSmall \/ Expire \/ Reserve \/ Refused \/ Tick
           \/ UNCHANGED vars
  <2>1. /\ UNCHANGED <<sizes, repeats, step, file, obs>>
        /\ \/ stage = "planned" /\ stage' \in {"dry", "refused"}
           \/ stage = "pacing" /\ stage' \in {"asking", "failed"}
           \/ stage = "asking" /\ stage' = "failed"
           \/ UNCHANGED stage
    BY <1>4 DEF DryRun, Decline, Pace, TooSmall, Expire, Reserve, Refused, Tick, vars, planVars
  <2>2. /\ SizesOK => SizesOK'
        /\ Total' = Total
        /\ InFile => InFile'
        /\ Replayed => Replayed'
    BY <2>1, ReplaySame
  <2> QED
    BY <2>1, <2>2 DEF ReplayInv, Begun
<1> QED
  BY <1>1, <1>2, <1>3, <1>4 DEF Next

LEMMA ReplayInvariant == Spec => []ReplayInv
<1>1. Init => ReplayInv
  BY MeasurementAssumption DEF Init, ReplayInv, Begun
<1> QED
  BY <1>1, ReplayStep, PTL DEF Spec

-----------------------------------------------------------------------------
(* What the reports make of the probabilities of a case.                    *)

\* None is delivered, or all are.
LEMMA DeliveredFact ==
    ASSUME NEW seen \in Seq(Probs)
    PROVE  /\ DeliveredIn(seen) = 0 <=> \A n \in 1 .. Len(seen) : seen[n] < Threshold
           /\ DeliveredIn(seen) = Len(seen) <=> \A n \in 1 .. Len(seen) : seen[n] >= Threshold
<1> DEFINE D == {n \in DOMAIN seen : seen[n] >= Threshold}
<1>1. /\ Len(seen) \in Nat /\ DOMAIN seen = 1 .. Len(seen)
      /\ \A n \in 1 .. Len(seen) : seen[n] \in Nat
      /\ Threshold \in Nat
  BY MeasurementAssumption DEF Probs
<1>2. IsFiniteSet(1 .. Len(seen)) /\ Cardinality(1 .. Len(seen)) = Len(seen)
  BY <1>1, FS_Interval
<1>3. D \subseteq 1 .. Len(seen)
  BY <1>1
<1>4. /\ IsFiniteSet(D)
      /\ Cardinality(D) = Len(seen) => D = 1 .. Len(seen)
  <2> HIDE DEF D
  <2> QED
    BY <1>2, <1>3, FS_Subset
<1>5. Cardinality(D) = 0 <=> D = {}
  <2> HIDE DEF D
  <2> QED
    BY <1>4, FS_EmptySet
<1>6. D = {} <=> \A n \in 1 .. Len(seen) : seen[n] < Threshold
  BY <1>1
<1>7. D = 1 .. Len(seen) <=> \A n \in 1 .. Len(seen) : seen[n] >= Threshold
  BY <1>1
<1>8. DeliveredIn(seen) = Cardinality(D)
  BY DEF DeliveredIn
<1> HIDE DEF D
<1> QED
  BY <1>2, <1>4, <1>5, <1>6, <1>7, <1>8

\* The experiment and the explorer mean the same by a case that flips.
LEMMA FlipsFact ==
    ASSUME NEW seen \in Seq(Probs)
    PROVE  /\ Flips(seen) <=> /\ \E n \in 1 .. Len(seen) : seen[n] >= Threshold
                              /\ \E n \in 1 .. Len(seen) : seen[n] < Threshold
           /\ Unstable(seen) <=> Flips(seen)
<1>1. /\ DOMAIN seen = 1 .. Len(seen) /\ Threshold \in Nat
      /\ \A n \in 1 .. Len(seen) : seen[n] \in Nat
  BY MeasurementAssumption DEF Probs
<1>2. \A n \in 1 .. Len(seen) : seen[n] < Threshold <=> ~(seen[n] >= Threshold)
  BY <1>1
<1>3. Flips(seen) <=> /\ \E n \in 1 .. Len(seen) : seen[n] >= Threshold
                      /\ \E n \in 1 .. Len(seen) : seen[n] < Threshold
  <2>1. Flips(seen) <=> ~(DeliveredIn(seen) = 0) /\ ~(DeliveredIn(seen) = Len(seen))
    BY DEF Flips
  <2> QED
    BY <1>2, <2>1, DeliveredFact
<1> QED
  BY <1>1, <1>3 DEF Unstable

\* A sum of n terms on one side of a bound.
LEMMA SumBounds ==
    ASSUME NEW n \in Nat, NEW f, \A k \in 1 .. n : f[k] \in Nat, NEW b \in Nat
    PROVE  /\ SumTo(f, n) \in Nat
           /\ (\A k \in 1 .. n : f[k] >= b) => SumTo(f, n) >= b * n
           /\ (\A k \in 1 .. n : f[k] < b) => SumTo(f, n) + n <= b * n
<1> DEFINE P(k) == /\ SumTo(f, k) \in Nat
                   /\ (\A j \in 1 .. n : f[j] >= b) => SumTo(f, k) >= b * k
                   /\ (\A j \in 1 .. n : f[j] < b) => SumTo(f, k) + k <= b * k
           S == {k \in Nat : k <= n => P(k)}
<1>1. 0 \in S
  BY SumNone
<1>2. ASSUME NEW k \in Nat, k \in S PROVE k + 1 \in S
  <2> SUFFICES ASSUME k + 1 <= n PROVE P(k + 1)
    OBVIOUS
  <2>1. P(k)
    BY <1>2
  <2>2. /\ k + 1 \in 1 .. n /\ f[k + 1] \in Nat
        /\ \A j \in 1 .. k + 1 : f[j] \in Nat
    OBVIOUS
  <2>3. SumTo(f, k) \in Nat /\ SumTo(f, k + 1) = SumTo(f, k) + f[k + 1]
    BY <2>2, SumNext
  <2>4. b * (k + 1) = b * k + b /\ b * k \in Nat
    OBVIOUS
  <2> QED
    BY <2>1, <2>2, <2>3, <2>4
<1>3. \A k \in Nat : k \in S
  <2> HIDE DEF S
  <2> QED
    BY <1>1, <1>2, SetInduction
<1> QED
  BY <1>3

\* A mean on one side of the threshold has an answer on that side.
LEMMA MeanFact ==
    ASSUME NEW seen \in Seq(Probs), seen # <<>>
    PROVE  /\ MeanDelivers(seen) => \E n \in 1 .. Len(seen) : seen[n] >= Threshold
           /\ ~MeanDelivers(seen) => \E n \in 1 .. Len(seen) : seen[n] < Threshold
<1>1. /\ Len(seen) \in Nat \ {0} /\ Threshold \in Nat
      /\ \A n \in 1 .. Len(seen) : seen[n] \in Nat
  BY MeasurementAssumption DEF Probs
<1>2. \A n \in 1 .. Len(seen) : seen[n] < Threshold <=> ~(seen[n] >= Threshold)
  BY <1>1
<1>3. /\ SumTo(seen, Len(seen)) \in Nat
      /\ (\A k \in 1 .. Len(seen) : seen[k] >= Threshold)
            => SumTo(seen, Len(seen)) >= Threshold * Len(seen)
      /\ (\A k \in 1 .. Len(seen) : seen[k] < Threshold)
            => SumTo(seen, Len(seen)) + Len(seen) <= Threshold * Len(seen)
  BY <1>1, SumBounds
<1>4. MeanDelivers(seen) <=> SumTo(seen, Len(seen)) >= Threshold * Len(seen)
  BY DEF MeanDelivers, Sum
<1>5. Threshold * Len(seen) \in Nat
  BY <1>1
<1> QED
  BY <1>1, <1>2, <1>3, <1>4, <1>5

-----------------------------------------------------------------------------
(* The theorems.                                                            *)

(* What a file gives an analysis is what the run observed.                  *)
THEOREM ReplayCorrect == Spec => []ReplayAgrees
<1>1. ReplayInv => ReplayAgrees
  <2> SUFFICES ASSUME ReplayInv, Begun, NEW m \in Elements(Messages), NEW i \in Interests
               PROVE  /\ Analysed(m, i) = FlattenSeq([n \in DOMAIN sizes |-> obs[sizes[n]][m][i]])
                      /\ \A s \in Elements(sizes) :
                            /\ Cell(s, m, i) = obs[s][m][i]
                            /\ Unstable(Cell(s, m, i)) <=> Flips(obs[s][m][i])
    BY DEF ReplayAgrees
  <2>1. InFile /\ Replayed
    BY DEF ReplayInv
  <2>2. /\ Analysed(m, i) = FlattenSeq(Seen(m, i))
        /\ \A s \in Elements(sizes) : Cell(s, m, i) = obs[s][m][i]
    BY <2>1 DEF Replayed
  <2>3. ASSUME NEW s \in Elements(sizes)
        PROVE  Unstable(obs[s][m][i]) <=> Flips(obs[s][m][i])
    <3>1. obs[s][m][i] \in Seq(Probs)
      BY <2>1 DEF InFile
    <3> QED
      BY <3>1, FlipsFact
  <2> QED
    BY <2>2, <2>3 DEF Seen
<1> QED
  BY <1>1, ReplayInvariant, PTL

\* Answers on both sides, one in each.
LEMMA BothSidesFact ==
    ASSUME NEW one \in Seq(Probs), NEW other \in Seq(Probs),
           \/ /\ \E n \in 1 .. Len(one) : one[n] >= Threshold
              /\ \E n \in 1 .. Len(other) : other[n] < Threshold
           \/ /\ \E n \in 1 .. Len(one) : one[n] < Threshold
              /\ \E n \in 1 .. Len(other) : other[n] >= Threshold
    PROVE  OnBothSides(one, other)
<1>0. ASSUME NEW w \in Seq(Probs)
      PROVE  \A n \in 1 .. Len(w) : w[n] \in Nat /\ w[n] \in Elements(w)
  <2> SUFFICES ASSUME NEW n \in 1 .. Len(w) PROVE w[n] \in Nat /\ w[n] \in Elements(w)
    OBVIOUS
  <2>1. w[n] \in Probs /\ n \in DOMAIN w
    OBVIOUS
  <2>2. w[n] \in Nat
    BY <2>1, MeasurementAssumption DEF Probs
  <2>3. w[n] \in Elements(w)
    BY <2>1 DEF Elements
  <2> QED
    BY <2>2, <2>3
<1>1. /\ Threshold \in Nat
      /\ \A n \in 1 .. Len(one) : one[n] \in Nat /\ one[n] \in Elements(one)
      /\ \A n \in 1 .. Len(other) : other[n] \in Nat /\ other[n] \in Elements(other)
  BY <1>0, MeasurementAssumption
<1>2. PICK p \in Elements(one), q \in Elements(other) :
         /\ p \in Nat /\ q \in Nat
         /\ (p >= Threshold /\ q < Threshold) \/ (p < Threshold /\ q >= Threshold)
  BY <1>1
<1>3. (p >= Threshold) # (q >= Threshold)
  BY <1>1, <1>2
<1> QED
  BY <1>3 DEF OnBothSides

\* Two means that disagree.
LEMMA MeansDisagree ==
    ASSUME NEW one \in Seq(Probs), NEW other \in Seq(Probs), one # <<>>, other # <<>>,
           MeanDelivers(one) # MeanDelivers(other)
    PROVE  OnBothSides(one, other)
<1>1. \/ MeanDelivers(one) /\ ~MeanDelivers(other)
      \/ ~MeanDelivers(one) /\ MeanDelivers(other)
  BY DEF MeanDelivers
<1>2. CASE MeanDelivers(one) /\ ~MeanDelivers(other)
  BY <1>2, MeanFact, BothSidesFact
<1>3. CASE ~MeanDelivers(one) /\ MeanDelivers(other)
  BY <1>3, MeanFact, BothSidesFact
<1> QED
  BY <1>1, <1>2, <1>3

\* A case that flips has answers on both sides, and the other way round.
LEMMA FlipsCross ==
    ASSUME NEW seen \in Seq(Probs)
    PROVE  Flips(seen) <=> OnBothSides(seen, seen)
<1>1. ASSUME Flips(seen) PROVE OnBothSides(seen, seen)
  BY <1>1, FlipsFact, BothSidesFact
<1>2. ASSUME OnBothSides(seen, seen) PROVE Flips(seen)
  <2>1. PICK p \in Elements(seen), q \in Elements(seen) : (p >= Threshold) # (q >= Threshold)
    BY <1>2 DEF OnBothSides
  <2>2. PICK j \in 1 .. Len(seen), k \in 1 .. Len(seen) : p = seen[j] /\ q = seen[k]
    BY <2>1 DEF Elements
  <2>3. p \in Nat /\ q \in Nat /\ Threshold \in Nat
    BY <2>2, MeasurementAssumption DEF Probs
  <2>4. (p >= Threshold /\ q < Threshold) \/ (p < Threshold /\ q >= Threshold)
    BY <2>1, <2>3
  <2> QED
    BY <2>2, <2>4, FlipsFact
<1> QED
  BY <1>1, <1>2

\* A case reported against its expectation has no answer that meets it.
LEMMA DisagreesFact ==
    ASSUME NEW seen \in Seq(Probs), NEW should \in BOOLEAN, Disagrees(seen, should),
           NEW p \in Elements(seen)
    PROVE  (p >= Threshold) = ~should
<1>1. PICK k \in 1 .. Len(seen) : p = seen[k]
  BY DEF Elements
<1>2. p \in Nat /\ Threshold \in Nat
  BY <1>1, MeasurementAssumption DEF Probs
<1>3. /\ DeliveredIn(seen) = 0 \/ DeliveredIn(seen) = Len(seen)
      /\ (DeliveredIn(seen) = Len(seen)) # should
  BY DEF Disagrees, Flips
<1>4. CASE should = TRUE
  <2>1. DeliveredIn(seen) = 0
    BY <1>3, <1>4
  <2>2. p < Threshold
    BY <1>1, <2>1, DeliveredFact
  <2> QED
    BY <1>2, <1>4, <2>2
<1>5. CASE should = FALSE
  <2>1. DeliveredIn(seen) = Len(seen)
    BY <1>3, <1>5
  <2>2. p >= Threshold
    BY <1>1, <2>1, DeliveredFact
  <2> QED
    BY <1>5, <2>2
<1> QED
  BY <1>4, <1>5

(* What the reports call a change of decision has answers on both sides of  *)
(* the threshold.                                                           *)
THEOREM ChangesCorrect == Spec => []ChangesCrossTheThreshold
<1>1. ReplayInv => ChangesCrossTheThreshold
  <2> SUFFICES ASSUME ReplayInv, Begun, NEW m \in Elements(Messages), NEW s \in Elements(sizes)
               PROVE  /\ \A i \in Interests :
                            /\ \A should \in BOOLEAN : Disagrees(obs[s][m][i], should) =>
                                  \A p \in Elements(obs[s][m][i]) : (p >= Threshold) = ~should
                            /\ Flips(obs[s][m][i]) <=> OnBothSides(obs[s][m][i], obs[s][m][i])
                            /\ DecisionChanged(s, m, i) /\ obs[sizes[1]][m][i] # <<>> =>
                                  OnBothSides(obs[sizes[1]][m][i], obs[s][m][i])
                      /\ ~Agreed(s, m) =>
                            \E i, j \in Interests : OnBothSides(obs[s][m][i], obs[s][m][j])
    BY DEF ChangesCrossTheThreshold
  <2>1. InFile /\ SizesOK
    BY DEF ReplayInv, Begun
  <2>2. sizes[1] \in Elements(sizes)
    BY <2>1, SizesFact
  <2>3. ASSUME NEW i \in Interests
        PROVE  obs[s][m][i] \in Seq(Probs) /\ obs[sizes[1]][m][i] \in Seq(Probs)
    BY <2>1, <2>2 DEF InFile
  <2>4. ASSUME NEW i \in Interests
        PROVE  /\ \A should \in BOOLEAN : Disagrees(obs[s][m][i], should) =>
                     \A p \in Elements(obs[s][m][i]) : (p >= Threshold) = ~should
               /\ Flips(obs[s][m][i]) <=> OnBothSides(obs[s][m][i], obs[s][m][i])
    BY <2>3, DisagreesFact, FlipsCross
  <2>5. ASSUME NEW i \in Interests, DecisionChanged(s, m, i), obs[sizes[1]][m][i] # <<>>
        PROVE  OnBothSides(obs[sizes[1]][m][i], obs[s][m][i])
    <3>1. /\ obs[s][m][i] # <<>>
          /\ MeanDelivers(obs[sizes[1]][m][i]) # MeanDelivers(obs[s][m][i])
      BY <2>5 DEF DecisionChanged, MeanDelivers
    <3> QED
      BY <2>3, <2>5, <3>1, MeansDisagree
  <2>6. ASSUME ~Agreed(s, m)
        PROVE  \E i, j \in Interests : OnBothSides(obs[s][m][i], obs[s][m][j])
    <3>1. PICK i \in Interests, j \in Interests :
             /\ obs[s][m][i] # <<>> /\ obs[s][m][j] # <<>>
             /\ MeanDelivers(obs[s][m][i]) # MeanDelivers(obs[s][m][j])
      BY <2>6 DEF Agreed
    <3> QED
      BY <2>3, <3>1, MeansDisagree
  <2> QED
    BY <2>4, <2>5, <2>6
<1> QED
  BY <1>1, ReplayInvariant, PTL

-----------------------------------------------------------------------------
(* The ceiling on spend.                                                     *)

\* A longer sum is no smaller.
LEMMA SumGrows ==
    ASSUME NEW n \in Nat, NEW f, \A k \in 1 .. n : f[k] \in Nat, NEW m \in 0 .. n
    PROVE  /\ SumTo(f, m) \in Nat /\ SumTo(f, n) \in Nat
           /\ SumTo(f, m) <= SumTo(f, n)
<1> DEFINE P(k) == SumTo(f, k) \in Nat /\ SumTo(f, m) <= SumTo(f, k)
           S == {k \in Nat : m <= k /\ k <= n => P(k)}
<1>0. ASSUME NEW k \in 0 .. n PROVE SumTo(f, k) \in Nat
  <2>1. k \in Nat /\ \A j \in 1 .. k : f[j] \in Nat
    OBVIOUS
  <2>2. 0 \in Nat
    OBVIOUS
  <2> QED
    BY <2>1, <2>2, SumBounds
<1>1. 0 \in S
  BY <1>0
<1>2. ASSUME NEW k \in Nat, k \in S PROVE k + 1 \in S
  <2> SUFFICES ASSUME m <= k + 1, k + 1 <= n PROVE P(k + 1)
    OBVIOUS
  <2>1. CASE m = k + 1
    BY <1>0, <2>1
  <2>2. CASE m <= k
    <3>1. P(k)
      BY <1>2, <2>2
    <3>2. \A j \in 1 .. k + 1 : f[j] \in Nat
      OBVIOUS
    <3>3. SumTo(f, k + 1) = SumTo(f, k) + f[k + 1] /\ f[k + 1] \in Nat
      BY <3>2, SumNext
    <3>4. SumTo(f, m) \in Nat
      BY <1>0
    <3> QED
      BY <3>1, <3>3, <3>4
  <2> QED
    BY <2>1, <2>2
<1>3. n \in S
  <2> HIDE DEF S
  <2> QED
    BY <1>1, <1>2, SetInduction
<1> QED
  BY <1>0, <1>3

\* The requests come in batches, one for each of the terms of e: fewer of them
\* than all come to less.
LEMMA FewerCostLess ==
    ASSUME NEW B \in Nat \ {0}, NEW L \in Nat \ {0},
           NEW e, \A k \in 1 .. L : e[k] \in Nat \ {0},
           NEW costs, \A k \in 1 .. L : costs[k] = B * e[k],
           NEW n \in Nat, n < L * B,
           NEW plan, \A k \in 1 .. n : plan[k] = e[((k - 1) \div B) + 1]
    PROVE  /\ SumTo(plan, n) \in Nat /\ SumTo(costs, L) \in Nat
           /\ SumTo(plan, n) < SumTo(costs, L)
<1>1. ASSUME NEW k \in Nat, k <= n
      PROVE  \E d \in 0 .. L - 1 : d = k \div B /\ d * B <= k /\ k < (d + 1) * B
  <2>1. PICK d \in Nat : d = k \div B /\ d * B <= k /\ k < (d + 1) * B
    BY Division
  <2>2. d * B < L * B
    <3>1. d * B \in Nat /\ L * B \in Nat
      OBVIOUS
    <3> QED
      BY <1>1, <2>1, <3>1
  <2>3. \A a, b, c \in Nat : a * c < b * c => a < b
    OBVIOUS
  <2>4. d < L
    BY <2>2, <2>3
  <2>5. d \in 0 .. L - 1
    BY <2>4
  <2> QED
    BY <2>1, <2>5
<1>2. ASSUME NEW k \in 1 .. n PROVE plan[k] \in Nat
  <2>1. k - 1 \in Nat /\ k - 1 <= n
    OBVIOUS
  <2>2. PICK d \in 0 .. L - 1 : d = (k - 1) \div B
    BY <1>1, <2>1
  <2>3. d + 1 \in 1 .. L
    OBVIOUS
  <2> QED
    BY <2>2, <2>3
<1>3. ASSUME NEW k \in 1 .. L PROVE costs[k] \in Nat
  <2>1. \A a, b \in Nat : a * b \in Nat
    OBVIOUS
  <2>2. e[k] \in Nat /\ costs[k] = B * e[k]
    OBVIOUS
  <2> QED
    BY <2>1, <2>2
<1>4. ASSUME NEW q \in 0 .. L - 1
      PROVE  /\ SumTo(costs, q) \in Nat
             /\ SumTo(costs, q + 1) = SumTo(costs, q) + B * e[q + 1]
             /\ q + 1 \in 1 .. L /\ e[q + 1] \in Nat \ {0}
  <2>1. q \in Nat /\ q + 1 \in 1 .. L /\ \A k \in 1 .. q + 1 : k \in 1 .. L
    OBVIOUS
  <2>2. \A k \in 1 .. q + 1 : costs[k] \in Nat
    BY <1>3, <2>1
  <2>3. SumTo(costs, q) \in Nat /\ SumTo(costs, q + 1) = SumTo(costs, q) + costs[q + 1]
    BY <2>1, <2>2, SumNext
  <2> QED
    BY <2>1, <2>3
<1>u. ASSUME NEW k \in Nat, NEW c \in Nat, NEW d \in Nat,
             c * B <= k, k < (c + 1) * B, d * B <= k, k < (d + 1) * B
      PROVE  c = d
  <2>1. \A a, b \in Nat : a * B < b * B => a < b
    OBVIOUS
  <2>2. c * B \in Nat /\ d * B \in Nat /\ (c + 1) * B \in Nat /\ (d + 1) * B \in Nat
    OBVIOUS
  <2>3. c * B < (d + 1) * B /\ d * B < (c + 1) * B
    BY <1>u, <2>2
  <2>4. c < d + 1 /\ d < c + 1
    BY <2>1, <2>3
  <2> QED
    BY <2>4
<1> DEFINE Q(k) == SumTo(plan, k) = SumTo(costs, k \div B)
                                       + (k - (k \div B) * B) * e[(k \div B) + 1]
           S == {k \in Nat : k <= n => Q(k)}
<1>5. 0 \in S
  <2>1. 0 \div B = 0 /\ 0 - 0 * B = 0
    OBVIOUS
  <2>2. SumTo(plan, 0) = 0 /\ SumTo(costs, 0) = 0
    BY SumNone
  <2>3. e[1] \in Nat
    OBVIOUS
  <2>4. SumTo(plan, 0) = SumTo(costs, 0 \div B) + (0 - (0 \div B) * B) * e[(0 \div B) + 1]
    <3>1. (0 \div B) + 1 = 1 /\ 0 - (0 \div B) * B = 0
      BY <2>1
    <3>2. 0 * e[1] = 0
      BY <2>3
    <3> QED
      BY <2>1, <2>2, <3>1, <3>2
  <2> QED
    BY <2>4
<1> HIDE DEF Q
<1>6. ASSUME NEW k \in Nat, k \in S PROVE k + 1 \in S
  <2> SUFFICES ASSUME k + 1 <= n PROVE Q(k + 1)
    OBVIOUS
  <2>0. k <= n /\ k + 1 \in Nat /\ Q(k)
    BY <1>6
  <2>1. PICK d \in 0 .. L - 1 : d = k \div B /\ d * B <= k /\ k < (d + 1) * B
    BY <1>1, <2>0
  <2>2. PICK c \in 0 .. L - 1 : c = (k + 1) \div B /\ c * B <= k + 1 /\ k + 1 < (c + 1) * B
    BY <1>1, <2>0
  <2>3. SumTo(plan, k) = SumTo(costs, d) + (k - d * B) * e[d + 1]
    BY <2>0, <2>1 DEF Q
  <2>4. SumTo(plan, k + 1) = SumTo(plan, k) + e[d + 1]
    <3>1. \A j \in 1 .. k + 1 : plan[j] \in Nat
      BY <1>2
    <3>2. k + 1 \in 1 .. n /\ (k + 1) - 1 = k
      OBVIOUS
    <3>3. plan[k + 1] = e[d + 1]
      BY <2>1, <3>2
    <3> QED
      BY <3>1, <3>3, SumNext
  <2>5. /\ SumTo(costs, d) \in Nat /\ SumTo(costs, d + 1) = SumTo(costs, d) + B * e[d + 1]
        /\ e[d + 1] \in Nat
    BY <1>4
  <2>6. PICK x \in Nat, r \in Nat : x = e[d + 1] /\ r = k - d * B
    <3>1. k - d * B \in Nat
      BY <2>1
    <3> QED
      BY <2>5, <3>1
  <2>7. SumTo(plan, k + 1) = SumTo(costs, d) + (r + 1) * x
    <3>1. r * x + x = (r + 1) * x /\ r * x \in Nat
      OBVIOUS
    <3> QED
      BY <2>3, <2>4, <2>5, <2>6, <3>1
  <2>8. CASE r + 1 < B
    <3>1. c = d
      <4>1. d * B <= k + 1 /\ k + 1 < (d + 1) * B
        BY <2>1, <2>6, <2>8
      <4>2. c \in Nat /\ d \in Nat
        OBVIOUS
      <4> QED
        BY <2>0, <2>2, <4>1, <4>2, <1>u
    <3>2. (k + 1) - c * B = r + 1
      BY <2>6, <3>1
    <3>3. SumTo(plan, k + 1) = SumTo(costs, c) + ((k + 1) - c * B) * e[c + 1]
      BY <2>6, <2>7, <3>1, <3>2
    <3> QED
      BY <2>2, <3>3 DEF Q
  <2>9. CASE r + 1 = B
    <3>0. k + 1 = (d + 1) * B
      BY <2>6, <2>9
    <3>1. c = d + 1
      <4>1. (d + 1) * B <= k + 1 /\ k + 1 < ((d + 1) + 1) * B
        <5>1. ((d + 1) + 1) * B = (d + 1) * B + B /\ (d + 1) * B \in Nat
          OBVIOUS
        <5> QED
          BY <3>0, <5>1
      <4>2. c \in Nat /\ d + 1 \in Nat
        OBVIOUS
      <4> QED
        BY <2>0, <2>2, <4>1, <4>2, <1>u
    <3>2. (k + 1) - c * B = 0 /\ e[c + 1] \in Nat /\ SumTo(costs, c) \in Nat
      BY <1>4, <3>0, <3>1
    <3>3. SumTo(plan, k + 1) = SumTo(costs, c) + 0 * e[c + 1]
      <4>1. 0 * e[c + 1] = 0
        BY <3>2
      <4>2. SumTo(plan, k + 1) = SumTo(costs, d + 1)
        BY <2>5, <2>6, <2>7, <2>9
      <4> QED
        BY <3>1, <3>2, <4>1, <4>2
    <3>4. SumTo(plan, k + 1) = SumTo(costs, c) + ((k + 1) - c * B) * e[c + 1]
      BY <3>2, <3>3
    <3> QED
      BY <2>2, <3>4 DEF Q
  <2>10. r < B
    BY <2>1, <2>6
  <2> QED
    BY <2>8, <2>9, <2>10
<1>7. Q(n)
  <2>1. n \in S
    <3> HIDE DEF S
    <3> QED
      BY <1>5, <1>6, SetInduction
  <2> QED
    BY <2>1
<1>8. PICK d \in 0 .. L - 1 : d = n \div B /\ d * B <= n /\ n < (d + 1) * B
  <2>1. n <= n
    OBVIOUS
  <2> QED
    BY <1>1, <2>1
<1>9. /\ SumTo(costs, d) \in Nat /\ SumTo(costs, d + 1) = SumTo(costs, d) + B * e[d + 1]
      /\ e[d + 1] \in Nat \ {0} /\ d + 1 \in 0 .. L
  BY <1>4
<1>10. PICK x \in Nat \ {0}, r \in Nat : x = e[d + 1] /\ r = n - d * B /\ r < B
  <2>1. n - d * B \in Nat /\ n - d * B < B
    BY <1>8
  <2> QED
    BY <1>9, <2>1
<1>11. SumTo(plan, n) = SumTo(costs, d) + r * x
  BY <1>7, <1>8, <1>10 DEF Q
<1>12. r * x < B * x /\ r * x \in Nat /\ B * x \in Nat
  BY <1>10
<1>13. /\ SumTo(costs, L) \in Nat /\ SumTo(costs, d + 1) \in Nat
       /\ SumTo(costs, d + 1) <= SumTo(costs, L)
  BY <1>3, <1>9, SumGrows
<1> QED
  BY <1>9, <1>10, <1>11, <1>12, <1>13

\* A run that was let through is within the ceiling.
BudgetInv == spent \in Nat /\ (Begun => Projected <= MaxSpend)

\* The projection is checked once, and nothing it is made of changes.
LEMMA BudgetStep == BudgetInv /\ [Next]_vars => BudgetInv'
<1> SUFFICES ASSUME BudgetInv, [Next]_vars PROVE BudgetInv'
  OBVIOUS
<1>1. spent' \in Nat
  <2>1. CASE UNCHANGED spent
    BY <2>1 DEF BudgetInv
  <2>2. CASE ReadFlags \/ DryRun \/ Decline \/ Begin \/ Pace \/ TooSmall \/ Expire \/ UNCHANGED vars
    BY <2>1, <2>2 DEF ReadFlags, DryRun, Decline, Begin, Pace, TooSmall, Expire, vars, limiterVars
  <2>3. CASE Reserve \/ Refused \/ Tick
    BY <2>1, <2>3 DEF Reserve, Refused, Tick, Limiter!Check, Limiter!Claim, Limiter!RefuseSpend,
                      Limiter!RefuseRate, Limiter!CallFails, Limiter!Tick
  <2>4. CASE Answer
    <3>1. PICK cost \in Costs : spent' = spent + cost
      BY <2>4 DEF Answer, Limiter!Record
    <3>2. cost \in Nat
      BY MeasurementAssumption
    <3> QED
      BY <3>1, <3>2 DEF BudgetInv
  <2> QED
    BY <2>2, <2>3, <2>4 DEF Next
<1>2. ASSUME UNCHANGED <<sizes, repeats>> PROVE Projected' = Projected
  BY <1>2 DEF Projected, CostOfSizes
<1>3. Begun' => Projected' <= MaxSpend
  <2>1. CASE ReadFlags
    BY <2>1 DEF ReadFlags, Begun
  <2>2. CASE Begin
    BY <1>2, <2>2 DEF Begin, planVars
  <2>3. CASE DryRun \/ Decline \/ Pace \/ TooSmall \/ Expire \/ Reserve \/ Refused \/ Answer \/ Tick
             \/ UNCHANGED vars
    <3>1. UNCHANGED <<sizes, repeats>> /\ (Begun' => Begun)
      BY <2>3 DEF DryRun, Decline, Pace, TooSmall, Expire, Reserve, Refused, Answer, Tick,
                  vars, planVars, Begun
    <3> QED
      BY <1>2, <3>1 DEF BudgetInv
  <2> QED
    BY <2>1, <2>2, <2>3 DEF Next
<1> QED
  BY <1>1, <1>3 DEF BudgetInv

LEMMA BudgetInvariant == Spec => []BudgetInv
<1>1. Init => BudgetInv
  BY DEF Init, Limiter!Init, BudgetInv, Begun
<1> QED
  BY <1>1, BudgetStep, PTL DEF Spec

\* The requests answered so far are fewer than all: their estimates come to less
\* than the projection.
LEMMA PlannedIsLess ==
    ASSUME ReplayInv, stage = "asking", repeats > 0
    PROVE  /\ Planned \in Nat /\ Projected \in Nat
           /\ Planned < Projected
<1>1. /\ SizesOK /\ repeats \in Nat /\ step \in Nat /\ step < Total
  BY DEF ReplayInv
<1>2. /\ Len(sizes) \in Nat \ {0} /\ DOMAIN sizes = 1 .. Len(sizes)
      /\ \A k \in 1 .. Len(sizes) : sizes[k] \in Nat
      /\ Batch \in Nat \ {0} /\ Total = Len(sizes) * Batch
      /\ Batch = repeats * Len(Messages)
  BY <1>1, SizesFact, BatchFact, TotalFact DEF Batch, Repeats
<1>3. ASSUME NEW size \in Nat PROVE Estimate(size) \in Nat \ {0}
  <2>1. \A a, b \in Nat : a * b \in Nat
    OBVIOUS
  <2>2. QuestionCost * size \in Nat /\ BaseCost \in Nat \ {0}
    BY <2>1, MeasurementAssumption
  <2> QED
    BY <2>2 DEF Estimate
<1> DEFINE e == [k \in 1 .. Len(sizes) |-> Estimate(sizes[k])]
           costs == [k \in DOMAIN sizes |-> (repeats * Len(Messages)) * Estimate(sizes[k])]
           plan == [n \in 1 .. step |-> Estimate(SizeOf(n))]
<1>4. \A k \in 1 .. Len(sizes) : e[k] \in Nat \ {0}
  BY <1>2, <1>3
<1>5. \A k \in 1 .. Len(sizes) : costs[k] = Batch * e[k]
  BY <1>2
<1>6. ASSUME NEW k \in 1 .. step PROVE plan[k] = e[((k - 1) \div Batch) + 1]
  <2>1. PICK n \in Nat : n = k - 1 /\ k = n + 1 /\ n < Total
    <3>1. k - 1 \in Nat /\ k = (k - 1) + 1 /\ Total \in Nat
      BY <1>1, TotalFact
    <3>2. k - 1 < Total
      BY <1>1, <3>1
    <3> QED
      BY <3>1, <3>2
  <2>2. PICK q \in 1 .. Len(sizes) : q - 1 = n \div Batch /\ SizeOf(n + 1) = sizes[q]
    BY <1>1, <2>1, PlaceFact
  <2>3. (n \div Batch) + 1 = q
    BY <2>2
  <2>4. plan[k] = Estimate(sizes[q])
    BY <2>1, <2>2
  <2> QED
    BY <2>1, <2>3, <2>4
<1>7. Planned = SumTo(plan, step) /\ Projected = SumTo(costs, Len(sizes))
  BY DEF Planned, Projected, CostOfSizes
<1>8. step < Len(sizes) * Batch
  BY <1>1, <1>2
<1> HIDE DEF e, costs, plan
<1>9. /\ SumTo(plan, step) \in Nat /\ SumTo(costs, Len(sizes)) \in Nat
      /\ SumTo(plan, step) < SumTo(costs, Len(sizes))
  BY <1>1, <1>2, <1>4, <1>5, <1>6, <1>8, FewerCostLess
<1> QED
  BY <1>7, <1>9

(* A run that was let through and costs no more than its estimates is not   *)
(* refused for its spend.                                                   *)
THEOREM EstimateIsEnough == Spec => RunsWithinEstimateAreNotRefused
<1>1. ReplayInv /\ BudgetInv /\ [Next]_vars =>
         [stage = "asking" /\ repeats > 0 /\ spent <= Planned => ~Limiter!RefuseSpend(Harness)]_vars
  <2> SUFFICES ASSUME ReplayInv, BudgetInv, stage = "asking", repeats > 0, spent <= Planned,
                      Limiter!RefuseSpend(Harness)
               PROVE  FALSE
    OBVIOUS
  <2>1. spent >= MaxSpend
    BY DEF Limiter!RefuseSpend, Limiter!SpendExceeded
  <2>2. spent \in Nat /\ Projected <= MaxSpend /\ MaxSpend \in Nat
    BY MeasurementAssumption DEF BudgetInv, Begun
  <2>3. Planned \in Nat /\ Projected \in Nat /\ Planned < Projected
    BY PlannedIsLess
  <2> QED
    BY <2>1, <2>2, <2>3
<1> QED
  BY <1>1, ReplayInvariant, BudgetInvariant, PTL DEF Spec, RunsWithinEstimateAreNotRefused

\* The ceiling is checked before every request, and a run waits for the cost of
\* one before it makes the next.
OvershootInv ==
    /\ spent \in Nat /\ pc \in [{Harness} -> {"idle", "claiming", "calling"}]
    /\ MaxSpend > 0 =>
          /\ spent < MaxSpend + MaxCost
          /\ pc[Harness] # "idle" => spent < MaxSpend

\* It is inductive.
LEMMA OvershootStep == OvershootInv /\ [Limiter!Next]_Limiter!vars => OvershootInv'
<1> SUFFICES ASSUME OvershootInv, [Limiter!Next]_Limiter!vars PROVE OvershootInv'
  OBVIOUS
<1>0. /\ spent \in Nat /\ MaxSpend \in Nat /\ MaxCost \in Nat
      /\ pc \in [{Harness} -> {"idle", "claiming", "calling"}]
      /\ Costs \subseteq 0 .. MaxCost
  BY MeasurementAssumption DEF OvershootInv
<1>1. CASE UNCHANGED <<spent, pc>>
  BY <1>1 DEF OvershootInv
<1>2. CASE UNCHANGED Limiter!vars \/ Limiter!Tick
  BY <1>1, <1>2 DEF Limiter!vars, Limiter!Tick
<1>3. CASE Limiter!RefuseSpend(Harness) \/ Limiter!RefuseRate(Harness)
  BY <1>1, <1>3 DEF Limiter!RefuseSpend, Limiter!RefuseRate
<1>4. CASE Limiter!Check(Harness)
  <2>1. /\ pc' \in [{Harness} -> {"idle", "claiming", "calling"}] /\ UNCHANGED spent
        /\ MaxSpend > 0 => spent < MaxSpend
    BY <1>0, <1>4 DEF Limiter!Check, Limiter!Goto, Limiter!SpendExceeded
  <2> QED
    BY <1>0, <2>1 DEF OvershootInv
<1>5. CASE Limiter!Claim(Harness)
  BY <1>0, <1>5 DEF OvershootInv, Limiter!Claim, Limiter!Goto
<1>6. CASE \E cost \in Costs : Limiter!Record(Harness, cost)
  <2>1. PICK cost \in Costs : Limiter!Record(Harness, cost)
    BY <1>6
  <2>2. /\ cost \in 0 .. MaxCost /\ spent' = spent + cost
        /\ pc[Harness] = "calling" /\ pc' \in [{Harness} -> {"idle", "claiming", "calling"}]
        /\ pc'[Harness] = "idle"
    BY <1>0, <2>1 DEF Limiter!Record, Limiter!Goto
  <2> QED
    BY <1>0, <2>2 DEF OvershootInv
<1>7. CASE Limiter!CallFails(Harness)
  BY <1>0, <1>7 DEF OvershootInv, Limiter!CallFails, Limiter!Goto
<1> QED
  BY <1>2, <1>3, <1>4, <1>5, <1>6, <1>7 DEF Limiter!Next, Limiter!Ask

(* A run is a client of the limiter like any other: whatever the command    *)
(* and the loop do, the limiter takes a step of its own or none.            *)
THEOREM MeasurementUsesLimiter == Spec => Limiter!Spec
<1>1. Init => Limiter!Init
  BY DEF Init
<1>2. [Next]_vars => [Limiter!Next]_Limiter!vars
  <2> SUFFICES ASSUME [Next]_vars PROVE [Limiter!Next]_Limiter!vars
    OBVIOUS
  <2>1. CASE ReadFlags \/ DryRun \/ Decline \/ Begin \/ Pace \/ TooSmall \/ Expire \/ UNCHANGED vars
    <3>1. UNCHANGED limiterVars
      BY <2>1 DEF ReadFlags, DryRun, Decline, Begin, Pace, TooSmall, Expire, vars
    <3> QED
      BY <3>1 DEF limiterVars, Limiter!vars
  <2>2. CASE Reserve
    BY <2>2 DEF Reserve, Limiter!Next, Limiter!Ask
  <2>3. CASE Refused
    BY <2>3 DEF Refused, Limiter!Next, Limiter!Ask
  <2>4. CASE Answer
    BY <2>4 DEF Answer, Limiter!Next, Limiter!Ask
  <2>5. CASE Tick
    BY <2>5 DEF Tick, Limiter!Next
  <2> QED
    BY <2>1, <2>2, <2>3, <2>4, <2>5 DEF Next
<1> QED
  BY <1>1, <1>2, PTL DEF Spec, Limiter!Spec

(* The breaker stops a run that costs more than it was projected at, with   *)
(* the ceiling passed by less than the cost of one call.                    *)
THEOREM OvershootIsOneCall == Spec => [](MaxSpend > 0 => spent < MaxSpend + MaxCost)
<1>1. Limiter!Init => OvershootInv
  BY MeasurementAssumption DEF Limiter!Init, OvershootInv
<1>2. OvershootInv => (MaxSpend > 0 => spent < MaxSpend + MaxCost)
  BY DEF OvershootInv
<1> QED
  BY <1>1, <1>2, OvershootStep, MeasurementUsesLimiter, PTL DEF Limiter!Spec
=============================================================================
