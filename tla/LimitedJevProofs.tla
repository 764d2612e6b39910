-------------------------- MODULE LimitedJevProofs --------------------------
(***************************************************************************)
(* First the limiter alone, for any number of callers and any limits.      *)
(* Then the limiter around the client, which implements it: so what is     *)
(* proved of its ceilings holds however the client retries.  Of the        *)
(* requests themselves: few leave once the breaker has tripped (TripInv),  *)
(* and a window has room for only so many (History).                       *)
(***************************************************************************)
EXTENDS LimitedJev, FiniteSetTheorems, TLAPS

\* Every reachable state of the limiter is well typed.
THEOREM TypeCorrect == Spec => []TypeOK
<1>1. Init => TypeOK
  <2> SUFFICES ASSUME Init PROVE TypeOK
    OBVIOUS
  <2>1. claimed \in Seq(0 .. MaxClock) /\ recent \in SUBSET (1 .. Len(claimed))
    BY DEF Init
  <2>2. 0 \in 0 .. MaxClock
    BY LimiterAssumption
  <2>3. pc \in [Callers -> {"idle", "claiming", "calling"}]
    BY DEF Init
  <2> QED
    BY <2>1, <2>2, <2>3 DEF Init, TypeOK
<1>2. TypeOK /\ [Next]_vars => TypeOK'
  <2> SUFFICES ASSUME TypeOK, [Next]_vars PROVE TypeOK'
    OBVIOUS
  <2> USE LimiterAssumption DEF TypeOK
  <2>1. ASSUME NEW a \in Callers, RefuseSpend(a) PROVE TypeOK'
    BY <2>1 DEF RefuseSpend
  <2>2. ASSUME NEW a \in Callers, RefuseRate(a) PROVE TypeOK'
    BY <2>2 DEF RefuseRate, Kept
  <2>3. ASSUME NEW a \in Callers, Check(a) PROVE TypeOK'
    BY <2>3 DEF Check, Kept, Goto
  <2>4. ASSUME NEW a \in Callers, Claim(a) PROVE TypeOK'
    <3>1. /\ claimed' \in Seq(0 .. MaxClock)
          /\ Len(claimed') = Len(claimed) + 1
      BY <2>4 DEF Claim
    <3>2. recent' \in SUBSET (1 .. Len(claimed'))
      <4>1. Len(claimed) \in Nat /\ recent' = recent \cup {Len(claimed) + 1}
        BY <2>4 DEF Claim
      <4>2. \A i \in 1 .. Len(claimed) : i \in 1 .. Len(claimed) + 1
        BY <4>1
      <4>3. recent \subseteq 1 .. Len(claimed)
        OBVIOUS
      <4>4. Len(claimed) + 1 \in 1 .. Len(claimed) + 1
        BY <4>1
      <4>5. recent' \subseteq 1 .. Len(claimed) + 1
        BY <4>1, <4>2, <4>3, <4>4
      <4> QED
        BY <3>1, <4>5
    <3>3. pc' \in [Callers -> {"idle", "claiming", "calling"}]
      BY <2>4 DEF Claim, Goto
    <3> QED
      BY <2>4, <3>1, <3>2, <3>3 DEF Claim
  <2>5. ASSUME NEW a \in Callers, NEW cost \in Costs, Record(a, cost) PROVE TypeOK'
    BY <2>5 DEF Record, Goto
  <2>6. ASSUME NEW a \in Callers, CallFails(a) PROVE TypeOK'
    BY <2>6 DEF CallFails, Goto
  <2>7. CASE Tick
    BY <2>7 DEF Tick
  <2>8. CASE UNCHANGED vars
    BY <2>8 DEF vars
  <2> QED
    BY <2>1, <2>2, <2>3, <2>4, <2>5, <2>6, <2>7, <2>8 DEF Next, Ask
<1> QED
  BY <1>1, <1>2, PTL DEF Spec

-----------------------------------------------------------------------------
(* The spend ceiling.                                                       *)

\* A caller that enters Ask is one more in flight, and no more than all.
LEMMA OneMore ==
    ASSUME TypeOK, NEW a \in Callers, pc[a] = "idle",
           NEW next \in {"claiming", "calling"}, Goto(a, next)
    PROVE  /\ Cardinality(InFlight') = Cardinality(InFlight) + 1
           /\ Cardinality(InFlight') <= Cardinality(Callers)
           /\ Cardinality(InFlight) \in Nat /\ Cardinality(Callers) \in Nat
<1>1. InFlight' = InFlight \cup {a} /\ a \notin InFlight
  BY DEF InFlight, Goto, TypeOK
<1>2. IsFiniteSet(InFlight) /\ IsFiniteSet(InFlight')
  BY FS_Subset, LimiterAssumption DEF InFlight
<1> QED
  BY <1>1, <1>2, FS_AddElement, FS_Subset, FS_CardinalityType, LimiterAssumption
  DEF InFlight

\* A caller that leaves Ask is one less in flight.
LEMMA OneLess ==
    ASSUME TypeOK, NEW a \in Callers, pc[a] = "calling", Goto(a, "idle")
    PROVE  /\ Cardinality(InFlight') = Cardinality(InFlight) - 1
           /\ Cardinality(InFlight) \in Nat \ {0} /\ Cardinality(Callers) \in Nat
<1>1. InFlight' = InFlight \ {a} /\ a \in InFlight
  BY DEF InFlight, Goto, TypeOK
<1>2. IsFiniteSet(InFlight)
  BY FS_Subset, LimiterAssumption DEF InFlight
<1> QED
  BY <1>1, <1>2, FS_RemoveElement, FS_EmptySet, FS_CardinalityType, LimiterAssumption

\* What has been spent and what is at stake stay below the ceiling and one call
\* for each caller.
THEOREM ExposureCorrect == Spec => []ExposureBounded
<1>1. Init => ExposureBounded
  <2> SUFFICES ASSUME Init, MaxSpend > 0
               PROVE  spent + MaxCost * Cardinality(InFlight)
                        < MaxSpend + MaxCost * Cardinality(Callers)
    BY DEF ExposureBounded
  <2>1. Cardinality(InFlight) = 0
    BY FS_EmptySet DEF Init, InFlight
  <2>2. MaxCost * Cardinality(Callers) \in Nat
    BY FS_CardinalityType, LimiterAssumption
  <2> QED
    BY <2>1, <2>2, LimiterAssumption DEF Init
<1>2. TypeOK /\ ExposureBounded /\ [Next]_vars => ExposureBounded'
  <2> SUFFICES ASSUME TypeOK, ExposureBounded, [Next]_vars, MaxSpend > 0
               PROVE  (spent + MaxCost * Cardinality(InFlight))'
                        < MaxSpend + MaxCost * Cardinality(Callers)
    BY DEF ExposureBounded
  <2>0. spent + MaxCost * Cardinality(InFlight) < MaxSpend + MaxCost * Cardinality(Callers)
    BY DEF ExposureBounded
  <2>1. ASSUME NEW a \in Callers, Check(a)
        PROVE  (spent + MaxCost * Cardinality(InFlight))'
                 < MaxSpend + MaxCost * Cardinality(Callers)
    <3>1. spent < MaxSpend /\ spent' = spent /\ spent \in Nat /\ pc[a] = "idle"
      BY <2>1, LimiterAssumption DEF Check, SpendExceeded, TypeOK
    <3>2. Goto(a, "claiming") \/ Goto(a, "calling")
      BY <2>1 DEF Check
    <3>3. /\ Cardinality(InFlight') <= Cardinality(Callers)
          /\ Cardinality(InFlight') \in Nat /\ Cardinality(Callers) \in Nat
      BY <3>1, <3>2, OneMore
    <3>4. MaxCost * Cardinality(InFlight') <= MaxCost * Cardinality(Callers)
      BY <3>3, LimiterAssumption
    <3>5. MaxCost * Cardinality(InFlight') \in Nat /\ MaxCost * Cardinality(Callers) \in Nat
      BY <3>3, LimiterAssumption
    <3> QED
      BY <3>1, <3>4, <3>5, LimiterAssumption
  <2>2. ASSUME NEW a \in Callers, pc[a] = "calling", Goto(a, "idle"),
               NEW cost \in 0 .. MaxCost, spent' = spent + cost
        PROVE  (spent + MaxCost * Cardinality(InFlight))'
                 < MaxSpend + MaxCost * Cardinality(Callers)
    <3> DEFINE n == Cardinality(InFlight)
    <3>1. Cardinality(InFlight') = n - 1 /\ n \in Nat /\ Cardinality(Callers) \in Nat
      BY <2>2, OneLess
    <3>2. MaxCost * (n - 1) = MaxCost * n - MaxCost
      BY <3>1, LimiterAssumption
    <3>3. MaxCost * n \in Int /\ MaxCost * Cardinality(Callers) \in Int
      BY <3>1, LimiterAssumption
    <3> QED
      BY <2>0, <2>2, <3>1, <3>2, <3>3, LimiterAssumption DEF TypeOK
  <2>3. ASSUME NEW a \in Callers, NEW cost \in Costs, Record(a, cost)
        PROVE  (spent + MaxCost * Cardinality(InFlight))'
                 < MaxSpend + MaxCost * Cardinality(Callers)
    BY <2>2, <2>3, LimiterAssumption DEF Record
  <2>4. ASSUME NEW a \in Callers, CallFails(a)
        PROVE  (spent + MaxCost * Cardinality(InFlight))'
                 < MaxSpend + MaxCost * Cardinality(Callers)
    <3>1. spent' = spent + 0 /\ 0 \in 0 .. MaxCost
      BY <2>4, LimiterAssumption DEF CallFails, TypeOK
    <3> QED
      BY <2>2, <2>4, <3>1 DEF CallFails
  <2>5. CASE UNCHANGED <<spent, InFlight>>
    BY <2>0, <2>5
  <2>6. ASSUME NEW a \in Callers, RefuseSpend(a) \/ RefuseRate(a) \/ Claim(a)
        PROVE  UNCHANGED <<spent, InFlight>>
    BY <2>6 DEF RefuseSpend, RefuseRate, Claim, Goto, InFlight, TypeOK
  <2>7. CASE Tick \/ UNCHANGED vars
    BY <2>0, <2>7 DEF Tick, vars, InFlight
  <2> QED
    BY <2>1, <2>3, <2>4, <2>5, <2>6, <2>7 DEF Next, Ask
<1> QED
  BY <1>1, <1>2, TypeCorrect, PTL DEF Spec

\* The ceiling is overshot by at most one call for each concurrent caller.
THEOREM SpendCorrect == Spec => []SpendBounded
<1>1. TypeOK /\ ExposureBounded => SpendBounded
  <2> SUFFICES ASSUME TypeOK, ExposureBounded, MaxSpend > 0
               PROVE  spent < MaxSpend + MaxCost * Cardinality(Callers)
    BY DEF SpendBounded
  <2>1. Cardinality(InFlight) \in Nat /\ Cardinality(Callers) \in Nat
    BY FS_Subset, FS_CardinalityType, LimiterAssumption DEF InFlight
  <2>2. MaxCost * Cardinality(InFlight) \in Nat /\ MaxCost * Cardinality(Callers) \in Nat
    BY <2>1, LimiterAssumption
  <2> QED
    BY <2>2, LimiterAssumption DEF ExposureBounded, TypeOK
<1> QED
  BY <1>1, TypeCorrect, ExposureCorrect, PTL

-----------------------------------------------------------------------------
(* The rate ceiling.                                                        *)

\* Calls claim their slots in the order of time.
ClaimedInOrder ==
    /\ \A i \in 1 .. Len(claimed) : claimed[i] <= clock
    /\ \A i, j \in 1 .. Len(claimed) : i <= j => claimed[i] <= claimed[j]

\* The mutex: one caller at most is between its checks and its claim, and what
\* it has checked still holds.
OneClaims ==
    /\ \A a, b \in Callers : pc[a] = "claiming" /\ pc[b] = "claiming" => a = b
    /\ \A a \in Callers : pc[a] = "claiming" => MaxCalls > 0 /\ Cardinality(recent) < MaxCalls

RateInv == ClaimedInOrder /\ OneClaims /\ ForgottenAreOld /\ RateBounded

\* The new call claims its slot a window after the call MaxCalls before it:
\* otherwise that call and all since would still fill the window.
LEMMA ClaimIsLate ==
    ASSUME TypeOK, ClaimedInOrder, ForgottenAreOld,
           Cardinality(recent) < MaxCalls,
           NEW i \in 1 .. Len(claimed), i + MaxCalls = Len(claimed) + 1
    PROVE  claimed[i] + Window <= clock
<1> SUFFICES ASSUME ~(claimed[i] + Window <= clock) PROVE FALSE
  OBVIOUS
<1>1. Len(claimed) \in Nat /\ MaxCalls \in Nat /\ Window \in Nat /\ clock \in Nat
  BY LimiterAssumption DEF TypeOK
<1>2. \A j \in 1 .. Len(claimed) : claimed[j] \in Nat
  BY LimiterAssumption DEF TypeOK
<1>3. i .. Len(claimed) \subseteq recent
  BY <1>1, <1>2 DEF ClaimedInOrder, ForgottenAreOld
<1>4. IsFiniteSet(recent)
  <2>1. IsFiniteSet(1 .. Len(claimed))
    BY <1>1, FS_Interval
  <2> QED
    BY <2>1, FS_Subset DEF TypeOK
<1>5. Cardinality(i .. Len(claimed)) = MaxCalls
  BY <1>1, FS_Interval
<1>6. Cardinality(i .. Len(claimed)) <= Cardinality(recent)
  BY <1>3, <1>4, FS_Subset
<1> QED
  BY <1>1, <1>4, <1>5, <1>6, FS_CardinalityType

\* Claiming a slot keeps the rate.
LEMMA ClaimStep ==
    ASSUME TypeOK, TypeOK', RateInv, NEW a \in Callers, Claim(a)
    PROVE  RateInv'
<1> DEFINE n == Len(claimed)
<1>1. /\ n \in Nat /\ clock \in Nat /\ MaxCalls \in Nat /\ Window \in Nat \ {0}
      /\ clock' = clock /\ Len(claimed') = n + 1 /\ recent' = recent \cup {n + 1}
      /\ claimed'[n + 1] = clock
      /\ \A j \in 1 .. n : claimed'[j] = claimed[j] /\ claimed[j] \in Nat
  BY LimiterAssumption DEF TypeOK, Claim
<1> HIDE DEF n
<1>2. Cardinality(recent) < MaxCalls /\ MaxCalls > 0
  BY DEF RateInv, OneClaims, Claim
<1>3. \A j \in 1 .. n + 1 : j \in 1 .. n \/ j = n + 1
  BY <1>1
<1>4. ClaimedInOrder'
  <2>1. \A i \in 1 .. n : claimed[i] <= clock
    BY DEF RateInv, ClaimedInOrder, n
  <2>2. \A i, j \in 1 .. n : i <= j => claimed[i] <= claimed[j]
    BY DEF RateInv, ClaimedInOrder, n
  <2>3. \A i \in 1 .. n + 1 : claimed'[i] <= clock
    BY <1>1, <1>3, <2>1
  <2>4. ASSUME NEW i \in 1 .. n + 1, NEW j \in 1 .. n + 1, i <= j
        PROVE  claimed'[i] <= claimed'[j]
    <3>1. CASE j = n + 1
      BY <1>1, <2>3, <3>1
    <3>2. CASE j \in 1 .. n
      BY <1>1, <2>2, <2>4, <3>2
    <3> QED
      BY <1>3, <3>1, <3>2
  <2> QED
    BY <1>1, <2>3, <2>4 DEF ClaimedInOrder
<1>5. OneClaims'
  BY DEF RateInv, OneClaims, Claim, Goto, TypeOK
<1>6. ForgottenAreOld'
  <2>1. \A i \in 1 .. n : i \in recent \/ claimed[i] + Window <= clock
    BY DEF RateInv, ForgottenAreOld, n
  <2> QED
    BY <1>1, <1>3, <2>1 DEF ForgottenAreOld
<1>7. RateBounded'
  <2> SUFFICES ASSUME NEW i \in 1 .. n + 1, i + MaxCalls <= n + 1
               PROVE  claimed'[i] + Window <= claimed'[i + MaxCalls]
    BY <1>1 DEF RateBounded
  <2>1. i \in 1 .. n
    BY <1>1, <1>2
  <2>2. CASE i + MaxCalls = n + 1
    <3>1. claimed[i] + Window <= clock
      BY <1>2, <2>1, <2>2, ClaimIsLate DEF RateInv, n
    <3> QED
      BY <1>1, <2>1, <2>2, <3>1
  <2>3. CASE i + MaxCalls \in 1 .. n
    BY <1>1, <1>2, <2>1, <2>3 DEF RateInv, RateBounded, n
  <2> QED
    BY <1>1, <1>2, <2>2, <2>3
<1> QED
  BY <1>4, <1>5, <1>6, <1>7 DEF RateInv

\* The limiter keeps its rate, however its callers interleave.
THEOREM RateCorrect == Spec => []RateInv
<1>1. Init => RateInv
  BY DEF Init, RateInv, ClaimedInOrder, OneClaims, ForgottenAreOld, RateBounded
<1>2. TypeOK /\ TypeOK' /\ RateInv /\ [Next]_vars => RateInv'
  <2> SUFFICES ASSUME TypeOK, TypeOK', RateInv, [Next]_vars PROVE RateInv'
    OBVIOUS
  <2> USE DEF RateInv, ClaimedInOrder, OneClaims, ForgottenAreOld, RateBounded
  <2>1. ASSUME NEW a \in Callers, RefuseSpend(a) PROVE RateInv'
    BY <2>1 DEF RefuseSpend
  <2>2. ASSUME recent' = Kept, UNCHANGED <<clock, claimed>>
        PROVE  ClaimedInOrder' /\ ForgottenAreOld' /\ RateBounded'
    <3>1. \A i \in 1 .. Len(claimed) : claimed[i] + Window \in Nat /\ clock \in Nat
      BY LimiterAssumption DEF TypeOK
    <3>2. ForgottenAreOld'
      BY <2>2, <3>1 DEF Kept, InWindow
    <3> QED
      BY <2>2, <3>2
  <2>3. ASSUME NEW a \in Callers, RefuseRate(a) PROVE RateInv'
    <3>1. OneClaims'
      BY <2>3 DEF RefuseRate, Unlocked
    <3> QED
      BY <2>2, <2>3, <3>1 DEF RefuseRate
  <2>4. ASSUME NEW a \in Callers, Check(a) PROVE RateInv'
    <3>1. OneClaims'
      BY <2>4 DEF Check, Unlocked, Goto, TypeOK
    <3>2. CASE MaxCalls > 0
      BY <2>2, <2>4, <3>1, <3>2 DEF Check
    <3>3. CASE ~(MaxCalls > 0)
      BY <2>4, <3>1, <3>3 DEF Check
    <3> QED
      BY <3>2, <3>3
  <2>5. ASSUME NEW a \in Callers, Claim(a) PROVE RateInv'
    BY <2>5, ClaimStep
  <2>6. ASSUME NEW a \in Callers, CallFails(a) \/ (\E cost \in Costs : Record(a, cost))
        PROVE RateInv'
    BY <2>6 DEF Record, CallFails, Goto, TypeOK
  <2>7. CASE Tick
    <3>1. \A i \in 1 .. Len(claimed) : claimed[i] \in Nat
      BY LimiterAssumption DEF TypeOK
    <3>2. clock \in Nat /\ clock' = clock + 1 /\ Window \in Nat
      BY <2>7, LimiterAssumption DEF TypeOK, Tick
    <3> QED
      BY <2>7, <3>1, <3>2 DEF Tick
  <2>8. CASE UNCHANGED vars
    BY <2>8 DEF vars
  <2> QED
    BY <2>1, <2>3, <2>4, <2>5, <2>6, <2>7, <2>8 DEF Next, Ask
<1> QED
  BY <1>1, <1>2, TypeCorrect, PTL DEF Spec

\* Any MaxCalls + 1 consecutive calls take a whole window.
THEOREM RateBound == Spec => []RateBounded
<1>1. RateInv => RateBounded
  BY DEF RateInv
<1> QED
  BY <1>1, RateCorrect, PTL

\* The limiter refuses for rate exactly when the window is full: what it
\* remembers of the window is all there is.
THEOREM RefusalCorrect == Spec => []RefusesExactlyWhenFull
<1>1. TypeOK /\ RateInv => RefusesExactlyWhenFull
  <2> SUFFICES ASSUME TypeOK, RateInv
               PROVE  Kept = {i \in 1 .. Len(claimed) : InWindow(i)}
    BY DEF RefusesExactlyWhenFull, RateExceeded
  <2>1. \A i \in 1 .. Len(claimed) : claimed[i] + Window \in Nat /\ clock \in Nat
    BY LimiterAssumption DEF TypeOK
  <2>2. \A i \in 1 .. Len(claimed) : InWindow(i) => i \in recent
    BY <2>1 DEF RateInv, ForgottenAreOld, InWindow
  <2> QED
    BY <2>2 DEF Kept, TypeOK
<1> QED
  BY <1>1, TypeCorrect, RateCorrect, PTL

\* The breaker trips only at the ceiling, and spending never goes down.
LEMMA TrippedAtCeiling == Spec => [](tripped => SpendExceeded)
<1>1. Init => (tripped => SpendExceeded)
  BY DEF Init
<1>2. TypeOK /\ (tripped => SpendExceeded) /\ [Next]_vars => (tripped => SpendExceeded)'
  <2> SUFFICES ASSUME TypeOK, tripped => SpendExceeded, [Next]_vars
               PROVE  (tripped => SpendExceeded)'
    OBVIOUS
  <2>1. ASSUME NEW a \in Callers, RefuseSpend(a) PROVE (tripped => SpendExceeded)'
    BY <2>1 DEF RefuseSpend, SpendExceeded
  <2>2. ASSUME NEW a \in Callers, NEW cost \in Costs, Record(a, cost)
        PROVE  (tripped => SpendExceeded)'
    BY <2>2, LimiterAssumption DEF Record, SpendExceeded, TypeOK
  <2>3. ASSUME UNCHANGED <<spent, tripped>> PROVE (tripped => SpendExceeded)'
    BY <2>3 DEF SpendExceeded
  <2>4. ASSUME NEW a \in Callers, RefuseRate(a) \/ Check(a) \/ Claim(a) \/ CallFails(a)
        PROVE  UNCHANGED <<spent, tripped>>
    BY <2>4 DEF RefuseRate, Check, Claim, CallFails
  <2>5. CASE Tick \/ UNCHANGED vars
    BY <2>3, <2>5 DEF Tick, vars
  <2> QED
    BY <2>1, <2>2, <2>3, <2>4, <2>5 DEF Next, Ask
<1> QED
  BY <1>1, <1>2, TypeCorrect, PTL DEF Spec

\* Once the breaker has tripped, no call is let through again.
THEOREM TrippedCorrect == Spec => TrippedIsFinal
<1> DEFINE A == tripped => \A a \in Callers : pc[a] = "idle" => pc'[a] = "idle"
<1>1. TypeOK /\ (tripped => SpendExceeded) /\ [Next]_vars => A
  <2> SUFFICES ASSUME TypeOK, SpendExceeded, [Next]_vars,
                      NEW a \in Callers, pc[a] = "idle"
               PROVE  pc'[a] = "idle"
    OBVIOUS
  <2>1. ASSUME NEW b \in Callers, Ask(b) PROVE pc'[a] = "idle"
    BY <2>1 DEF Ask, RefuseSpend, RefuseRate, Check, Claim, Record, CallFails, Goto, TypeOK
  <2>2. CASE Tick \/ UNCHANGED vars
    BY <2>2 DEF Tick, vars
  <2> QED
    BY <2>1, <2>2 DEF Next
<1> QED
  BY <1>1, TypeCorrect, TrippedAtCeiling, PTL DEF Spec, TrippedIsFinal

-----------------------------------------------------------------------------
(* The limiter around the client.                                           *)

ClientProofs == INSTANCE JevClientProofs

\* A step of the client and its caller is a step of the limiter, or none.
LEMMA StepImplemented == [LimitedNext]_limitedVars => [Next]_vars
<1> SUFFICES ASSUME [LimitedNext]_limitedVars PROVE [Next]_vars
  OBVIOUS
<1>1. CASE UNCHANGED limitedVars
  BY <1>1 DEF limitedVars
<1>2. ASSUME NEW a \in Callers, Reserve(a) PROVE [Next]_vars
  BY <1>2 DEF Reserve, Next, Ask
<1>3. ASSUME NEW a \in Callers, Call(a) PROVE [Next]_vars
  BY <1>3 DEF Call
<1>4. ASSUME NEW a \in Callers, Proceed(a) PROVE [Next]_vars
  BY <1>4 DEF Proceed
<1>5. ASSUME NEW a \in Callers, Finish(a) PROVE [Next]_vars
  BY <1>5 DEF Finish, Next, Ask
<1>6. CASE LimitedTick
  BY <1>6 DEF LimitedTick, Next
<1> QED BY <1>1, <1>2, <1>3, <1>4, <1>5, <1>6 DEF LimitedNext

(* The limiter in front of the retrying client behaves as Limiter says.     *)
THEOREM LimiterImplemented == LimitedSpec => Spec
<1>1. LimitedInit => Init
  BY DEF LimitedInit
<1> QED BY <1>1, StepImplemented, PTL DEF LimitedSpec, Spec

(* At the API too the spend and the open exposure stay below the ceiling    *)
(* and one call for each caller.                                            *)
THEOREM LimitedExposure == LimitedSpec => []ExposureBounded
BY LimiterImplemented, ExposureCorrect, PTL

(* Any MaxCalls + 1 consecutive calls take a window, retries or not.        *)
THEOREM LimitedRate == LimitedSpec => []RateBounded
BY LimiterImplemented, RateBound, PTL

-----------------------------------------------------------------------------
(* And the client behind the limiter behaves as JevClient says.             *)

LEMMA ClientAssumed == ClientProofs!ClientAssumption
  BY LimiterAssumption, LimitedAssumption DEF ClientProofs!ClientAssumption

LEMMA ClientStep ==
    ASSUME [LimitedNext]_limitedVars
    PROVE  [ClientProofs!ClientNext]_(ClientProofs!clientVars)
<1> DEFINE Same == UNCHANGED <<clock, place, until, ended, requests>>
<1>1. ASSUME UNCHANGED limitedVars PROVE Same
  BY <1>1 DEF limitedVars, vars, callVars
<1>2. ASSUME NEW a \in Callers, Reserve(a) PROVE Same
  BY <1>2 DEF Reserve, callVars, RefuseSpend, RefuseRate, Check, Claim
<1>3. ASSUME NEW a \in Callers, Call(a) PROVE ClientProofs!ClientNext
  BY <1>3 DEF Call, Client!Start, ClientProofs!ClientNext, ClientProofs!Start,
     Client!Became, ClientProofs!Became, Client!maxRetries, ClientProofs!maxRetries
<1>4. ASSUME NEW a \in Callers, Proceed(a) PROVE ClientProofs!ClientNext
  <2>1. \/ Client!Send(a) \/ Client!SendFails(a) \/ Client!Succeed(a) \/ Client!Fail(a)
        \/ \E wait \in RetryAfters \cup {NoHeader} : Client!Retry(a, wait)
        \/ Client!Wake(a) \/ Client!SleepEnds(a) \/ Client!Expire(a)
    BY <1>4 DEF Proceed, Client!Attempt
  <2> USE DEF ClientProofs!ClientNext, ClientProofs!Attempt, Client!Became, ClientProofs!Became,
              Client!Answered, ClientProofs!Answered
  <2>2. CASE Client!Send(a)
    BY <2>2 DEF Client!Send, ClientProofs!Send
  <2>3. CASE Client!SendFails(a)
    BY <2>3 DEF Client!SendFails, ClientProofs!SendFails
  <2>4. CASE Client!Succeed(a)
    BY <2>4 DEF Client!Succeed, ClientProofs!Succeed
  <2>5. CASE Client!Fail(a)
    BY <2>5 DEF Client!Fail, ClientProofs!Fail
  <2>6. ASSUME NEW wait \in RetryAfters \cup {NoHeader}, Client!Retry(a, wait)
        PROVE  ClientProofs!ClientNext
    BY <2>6 DEF Client!Retry, ClientProofs!Retry, Client!backoff, ClientProofs!backoff,
                Client!maxRetries, ClientProofs!maxRetries
  <2>7. CASE Client!Wake(a)
    BY <2>7 DEF Client!Wake, ClientProofs!Wake
  <2>8. CASE Client!SleepEnds(a)
    BY <2>8 DEF Client!SleepEnds, ClientProofs!SleepEnds
  <2>9. CASE Client!Expire(a)
    BY <2>9 DEF Client!Expire, ClientProofs!Expire
  <2> QED
    BY <2>1, <2>2, <2>3, <2>4, <2>5, <2>6, <2>7, <2>8, <2>9
<1>5. ASSUME NEW a \in Callers, Finish(a) PROVE ClientProofs!ClientNext
  BY <1>5 DEF Finish, Client!Return, ClientProofs!ClientNext, ClientProofs!Return,
              Client!Became, ClientProofs!Became
<1>6. ASSUME LimitedTick PROVE ClientProofs!ClientNext
  BY <1>6 DEF LimitedTick, Client!ClientTick, ClientProofs!ClientNext, ClientProofs!ClientTick
<1> HIDE DEF Same
<1>7. ClientProofs!ClientNext \/ Same
  BY <1>1, <1>2, <1>3, <1>4, <1>5, <1>6 DEF LimitedNext
<1> QED
  BY <1>7 DEF ClientProofs!clientVars, Same

LEMMA ClientInvariant == LimitedSpec => []ClientProofs!IInv
<1>1. LimitedInit => ClientProofs!ClientInit
  BY DEF LimitedInit, Client!ClientInit, ClientProofs!ClientInit
<1>2. LimitedSpec => ClientProofs!ClientSpec
  BY <1>1, ClientStep, PTL DEF LimitedSpec, ClientProofs!ClientSpec
<1>3. ClientProofs!ClientSpec => []ClientProofs!IInv
  BY ClientAssumed, ClientProofs!IInvInvariant
<1> QED
  BY <1>2, <1>3, PTL

\* What there are of a call's attempts, and whose calls are open.
Sent(a) == Len(requests[a])
Tries == Client!maxRetries + 1

LEMMA TriesInt == Client!maxRetries \in Int /\ Tries \in Int
  BY LimitedAssumption DEF Tries, Client!maxRetries

LEMMA SentType ==
    ASSUME ClientProofs!IInv, NEW a \in Callers
    PROVE  /\ Sent(a) \in Nat
           /\ Sent(a) <= Tries \/ Sent(a) = 0
           /\ place[a] = "ready" => Sent(a) + 1 <= Tries
           /\ place[a] = "idle" => Sent(a) = 0
<1> DEFINE n == Len(requests[a])
<1>1. n \in Nat
  BY DEF ClientProofs!IInv, ClientProofs!ClientTypeOK
<1>2. /\ n > 0 => n <= Client!maxRetries + 1
      /\ place[a] = "ready" => n <= Client!maxRetries
      /\ place[a] = "idle" => n = 0
  BY DEF ClientProofs!IInv, ClientProofs!CallInv, ClientProofs!maxRetries, Client!maxRetries
<1> QED
  BY <1>1, <1>2, TriesInt DEF Sent, Tries

\* Callers with a call of the client open are where Ask makes it.
OpenCalls == \A a \in Callers : place[a] # "idle" => pc[a] = "calling"

\* A request leaves; nothing else changes that the ceilings are about.
Sends(a) == Proceed(a) /\ Client!Send(a)

LEMMA SendsStep ==
    ASSUME ClientProofs!IInv, NEW a \in Callers, Sends(a)
    PROVE  /\ place[a] = "ready" /\ UNCHANGED vars
           /\ http' = Append(http, clock)
           /\ afterTrip' = IF tripped THEN afterTrip + 1 ELSE afterTrip
           /\ Sent(a)' = Sent(a) + 1
           /\ \A b \in Callers : b # a => Sent(b)' = Sent(b)
<1> DEFINE e == [sent |-> clock, over |-> clock, answer |-> "none", wait |-> NoHeader]
<1>1. requests \in [Callers -> Seq(ClientProofs!Requests)]
  BY DEF ClientProofs!IInv, ClientProofs!ClientTypeOK
<1>2. /\ place[a] = "ready" /\ UNCHANGED vars
      /\ http' = Append(http, clock)
      /\ afterTrip' = IF tripped THEN afterTrip + 1 ELSE afterTrip
  BY DEF Sends, Proceed, Client!Send
<1>3. requests' = [requests EXCEPT ![a] = Append(@, e)]
  BY DEF Sends, Client!Send
<1> HIDE DEF e
<1>4. requests'[a] = Append(requests[a], e) /\ \A b \in Callers : b # a => requests'[b] = requests[b]
  BY <1>1, <1>3
<1>5. Len(Append(requests[a], e)) = Len(requests[a]) + 1
  BY <1>1
<1> QED
  BY <1>2, <1>4, <1>5 DEF Sent

\* Between two requests nothing is sent and nothing forgotten.
LEMMA ProceedStep ==
    ASSUME ClientProofs!IInv, NEW a \in Callers, Proceed(a), ~Client!Send(a)
    PROVE  /\ UNCHANGED <<vars, http, afterTrip>> /\ place[a] # "idle"
           /\ \A b \in Callers : Sent(b)' = Sent(b)
<1>1. /\ place \in [Callers -> {"idle", "ready", "sent", "waiting", "answered", "failed"}]
      /\ requests \in [Callers -> Seq(ClientProofs!Requests)]
  BY DEF ClientProofs!IInv, ClientProofs!ClientTypeOK
<1>2. UNCHANGED <<vars, http, afterTrip>>
  BY DEF Proceed
<1>3. ASSUME NEW answer \in ClientProofs!Answers, NEW wait \in RetryAfters \cup {NoHeader},
             Client!Answered(a, answer, wait), place[a] = "sent"
      PROVE  \A b \in Callers : Sent(b)' = Sent(b)
  <2>1. Len(requests[a]) > 0
    BY <1>3 DEF ClientProofs!IInv, ClientProofs!CallInv
  <2>2. ClientProofs!Answered(a, answer, wait) /\ ClientProofs!ClientTypeOK
    BY <1>3 DEF Client!Answered, ClientProofs!Answered, ClientProofs!IInv
  <2>3. /\ \A b \in Callers \ {a} : requests'[b] = requests[b]
        /\ Len(requests'[a]) = Len(requests[a])
    BY <2>1, <2>2, ClientAssumed, ClientProofs!Ended
  <2> QED
    BY <2>3 DEF Sent
<1>4. ASSUME UNCHANGED requests PROVE \A b \in Callers : Sent(b)' = Sent(b)
  BY <1>4 DEF Sent
<1>5. NoHeader \in RetryAfters \cup {NoHeader} /\ {"ok", "broken", "fatal", "retry"} \subseteq ClientProofs!Answers
  BY DEF ClientProofs!Answers
<1>6. CASE Client!Succeed(a)
  BY <1>2, <1>3, <1>5, <1>6 DEF Client!Succeed
<1>7. CASE Client!Fail(a)
  BY <1>2, <1>3, <1>5, <1>7 DEF Client!Fail
<1>8. ASSUME NEW wait \in RetryAfters \cup {NoHeader}, Client!Retry(a, wait)
      PROVE  place[a] # "idle" /\ \A b \in Callers : Sent(b)' = Sent(b)
  BY <1>3, <1>5, <1>8 DEF Client!Retry
<1>9. ASSUME Client!SendFails(a) \/ Client!Wake(a) \/ Client!SleepEnds(a) \/ Client!Expire(a)
      PROVE  place[a] # "idle" /\ UNCHANGED requests
  BY <1>9 DEF Client!SendFails, Client!Wake, Client!SleepEnds, Client!Expire
<1> QED
  BY <1>2, <1>4, <1>6, <1>7, <1>8, <1>9 DEF Proceed, Client!Attempt

LEMMA ProceedPlace ==
    ASSUME ClientProofs!IInv, NEW a \in Callers, Proceed(a)
    PROVE  place[a] # "idle" /\ \A b \in Callers : b # a => place'[b] = place[b]
<1>1. place \in [Callers -> {"idle", "ready", "sent", "waiting", "answered", "failed"}]
  BY DEF ClientProofs!IInv, ClientProofs!ClientTypeOK
<1>2. ASSUME NEW x, Client!Became(a, x) PROVE \A b \in Callers : b # a => place'[b] = place[b]
  BY <1>1, <1>2 DEF Client!Became
<1>3. ASSUME Client!Send(a) \/ Client!SendFails(a) \/ Client!Succeed(a) \/ Client!Fail(a)
             \/ Client!Wake(a) \/ Client!SleepEnds(a)
      PROVE  place[a] # "idle" /\ \E x : Client!Became(a, x)
  BY <1>3 DEF Client!Send, Client!SendFails, Client!Succeed, Client!Fail, Client!Wake,
              Client!SleepEnds
<1>4. ASSUME NEW wait, Client!Retry(a, wait)
      PROVE  place[a] # "idle" /\ \E x : Client!Became(a, x)
  BY <1>4 DEF Client!Retry
<1>5. ASSUME Client!Expire(a) PROVE place[a] # "idle" /\ UNCHANGED place
  BY <1>5 DEF Client!Expire
<1> QED
  BY <1>2, <1>3, <1>4, <1>5 DEF Proceed, Client!Attempt

LEMMA OpenCallsStep ==
    ASSUME TypeOK, ClientProofs!IInv, OpenCalls, [LimitedNext]_limitedVars
    PROVE  OpenCalls'
<1>0. /\ pc \in [Callers -> {"idle", "claiming", "calling"}]
      /\ place \in [Callers -> {"idle", "ready", "sent", "waiting", "answered", "failed"}]
  BY DEF TypeOK, ClientProofs!IInv, ClientProofs!ClientTypeOK
<1>1. CASE UNCHANGED limitedVars
  BY <1>1 DEF limitedVars, vars, callVars, OpenCalls
<1>2. ASSUME NEW a \in Callers, Reserve(a) PROVE OpenCalls'
  <2>1. place' = place /\ place[a] = "idle"
    BY <1>2 DEF Reserve, callVars
  <2>2. ASSUME NEW b \in Callers, b # a PROVE pc'[b] = pc[b]
    BY <1>0, <1>2, <2>2 DEF Reserve, RefuseSpend, RefuseRate, Check, Claim, Goto
  <2> QED
    BY <2>1, <2>2 DEF OpenCalls
<1>3. ASSUME NEW a \in Callers, Call(a) PROVE OpenCalls'
  BY <1>0, <1>3 DEF Call, Client!Start, Client!Became, vars, OpenCalls
<1>4. ASSUME NEW a \in Callers, Proceed(a) PROVE OpenCalls'
  BY <1>4, ProceedPlace DEF Proceed, vars, OpenCalls
<1>5. ASSUME NEW a \in Callers, Finish(a) PROVE OpenCalls'
  BY <1>0, <1>5 DEF Finish, Client!Return, Client!Became, Record, CallFails, Goto, OpenCalls
<1>6. CASE LimitedTick
  BY <1>6 DEF LimitedTick, Tick, Client!ClientTick, OpenCalls
<1> QED
  BY <1>1, <1>2, <1>3, <1>4, <1>5, <1>6 DEF LimitedNext

LEMMA OpenCallsCorrect == LimitedSpec => []OpenCalls
<1>1. LimitedInit => OpenCalls
  BY DEF LimitedInit, Client!ClientInit, OpenCalls
<1>2. TypeOK /\ ClientProofs!IInv /\ OpenCalls /\ [LimitedNext]_limitedVars => OpenCalls'
  BY OpenCallsStep
<1> QED
  BY <1>1, <1>2, LimiterImplemented, TypeCorrect, ClientInvariant, PTL DEF LimitedSpec

\* What a step does to the requests, seen from the limiter.
LEMMA RequestSteps ==
    ASSUME TypeOK, ClientProofs!IInv, [LimitedNext]_limitedVars
    PROVE  \/ \E a \in Callers : Sends(a)
           \/ /\ UNCHANGED <<http, afterTrip>>
              /\ \A b \in Callers : Sent(b)' = Sent(b)
           \/ /\ UNCHANGED <<http, afterTrip>>
              /\ \E a \in Callers : /\ Finish(a) /\ pc'[a] = "idle" /\ pc[a] = "calling"
                                    /\ \A b \in Callers : b # a => Sent(b)' = Sent(b)
<1> DEFINE Quiet == UNCHANGED <<http, afterTrip>> /\ \A b \in Callers : Sent(b)' = Sent(b)
<1>1. ASSUME UNCHANGED <<requests, http, afterTrip>> PROVE Quiet
  BY <1>1 DEF Sent
<1>2. ASSUME UNCHANGED limitedVars PROVE Quiet
  BY <1>1, <1>2 DEF limitedVars, callVars
<1>3. ASSUME NEW a \in Callers, Reserve(a) \/ Call(a) PROVE Quiet
  BY <1>1, <1>3 DEF Reserve, Call, Client!Start, callVars
<1>4. ASSUME NEW a \in Callers, Proceed(a), ~Client!Send(a) PROVE Quiet
  BY <1>4, ProceedStep
<1>5. ASSUME NEW a \in Callers, Finish(a)
      PROVE  /\ UNCHANGED <<http, afterTrip>>
             /\ pc'[a] = "idle" /\ pc[a] = "calling"
             /\ \A b \in Callers : b # a => Sent(b)' = Sent(b)
  <2>1. /\ pc \in [Callers -> {"idle", "claiming", "calling"}]
        /\ requests \in [Callers -> Seq(ClientProofs!Requests)]
    BY DEF TypeOK, ClientProofs!IInv, ClientProofs!ClientTypeOK
  <2> QED
    BY <1>5, <2>1 DEF Finish, Client!Return, Record, CallFails, Goto, Sent
<1>6. ASSUME LimitedTick PROVE Quiet
  BY <1>1, <1>6 DEF LimitedTick, Client!ClientTick
<1> HIDE DEF Quiet
<1>7. Quiet \/ (\E a \in Callers : Sends(a)) \/ (\E a \in Callers : Finish(a))
  BY <1>2, <1>3, <1>4, <1>6 DEF LimitedNext, Sends
<1> QED
  BY <1>5, <1>7 DEF Quiet

-----------------------------------------------------------------------------
(* After the breaker has tripped.                                           *)

\* All attempts of all callers but the one that tripped it.
Possible(c) == (Callers \ {c}) \X (1 .. Tries)

\* Each request counted is an attempt of its own, of a caller that was in flight
\* when the breaker tripped.  Caller c met the ceiling.
Counted(c, S) ==
    /\ Cardinality(S) = afterTrip
    /\ pc[c] = "idle"
    /\ \A e \in S : pc[e[1]] # "idle" => e[2] <= Sent(e[1])

TripInv ==
    /\ ~tripped => afterTrip = 0
    /\ tripped => \E c \in Callers : \E S \in SUBSET Possible(c) : Counted(c, S)

LEMMA PossibleFinite ==
    ASSUME NEW c \in Callers, Tries \in Nat
    PROVE  /\ IsFiniteSet(Possible(c))
           /\ Cardinality(Possible(c)) = (Cardinality(Callers) - 1) * Tries
<1>1. /\ IsFiniteSet(Callers \ {c})
      /\ Cardinality(Callers \ {c}) = Cardinality(Callers) - 1
  BY FS_RemoveElement, LimiterAssumption
<1>2. IsFiniteSet(1 .. Tries) /\ Cardinality(1 .. Tries) = Tries
  BY FS_Interval
<1> QED
  BY <1>1, <1>2, FS_Product DEF Possible

\* The breaker trips once, and lets nothing through.
Final == tripped => tripped' /\ \A a \in Callers : pc[a] = "idle" => pc'[a] = "idle"

LEMMA FinalStep ==
    ASSUME [Next]_vars, [tripped => \A a \in Callers : pc[a] = "idle" => pc'[a] = "idle"]_vars
    PROVE  Final
<1>1. tripped => tripped'
  BY DEF Next, Ask, RefuseSpend, RefuseRate, Check, Claim, Record, CallFails, Tick, vars
<1>2. ASSUME UNCHANGED vars, NEW a \in Callers PROVE pc'[a] = pc[a]
  BY <1>2 DEF vars
<1> QED
  BY <1>1, <1>2 DEF Final

LEMMA TripStep ==
    ASSUME TypeOK, ClientProofs!IInv, OpenCalls, TripInv, Final, [LimitedNext]_limitedVars
    PROVE  TripInv'
<1>1. CASE tripped
  <2>0. PICK c \in Callers : \E S \in SUBSET Possible(c) : Counted(c, S)
    BY <1>1 DEF TripInv
  <2>1. PICK S \in SUBSET Possible(c) : Counted(c, S)
    BY <2>0
  <2>2. tripped' /\ \A a \in Callers : pc[a] = "idle" => pc'[a] = "idle"
    BY <1>1 DEF Final
  <2>3. pc'[c] = "idle" /\ \A e \in S : e[1] \in Callers
    BY <2>1, <2>2 DEF Counted, Possible
  <2> SUFFICES \E T \in SUBSET Possible(c) : Counted(c, T)'
    BY <2>2 DEF TripInv
  <2>4. ASSUME NEW a \in Callers, Sends(a)
        PROVE  \E T \in SUBSET Possible(c) : Counted(c, T)'
    <3>0. PICK n : n = Sent(a)
      OBVIOUS
    <3> DEFINE e == <<a, n + 1>>
               T == S \cup {e}
    <3>1. /\ place[a] = "ready" /\ UNCHANGED vars /\ afterTrip' = afterTrip + 1
          /\ Sent(a)' = n + 1
          /\ \A b \in Callers : b # a => Sent(b)' = Sent(b)
      BY <1>1, <2>4, <3>0, SendsStep
    <3>2. pc[a] = "calling" /\ pc' = pc
      BY <3>1 DEF OpenCalls, vars
    <3>3. n \in Nat /\ n + 1 <= Tries /\ Tries \in Int
      BY <3>0, <3>1, SentType, TriesInt
    <3>4. e \in Possible(c)
      BY <2>1, <3>2, <3>3 DEF Possible, Counted
    <3>5. e \notin S
      BY <2>1, <3>0, <3>2, <3>3 DEF Counted
    <3>6. IsFiniteSet(S)
      BY <3>3, PossibleFinite, FS_Subset
    <3>7. Cardinality(T) = Cardinality(S) + 1
      BY <3>5, <3>6, FS_AddElement
    <3>8. ASSUME NEW f \in T, pc'[f[1]] # "idle" PROVE f[2] <= Sent(f[1])'
      <4>1. CASE f = e
        BY <3>1, <3>3, <4>1
      <4>2. CASE f \in S
        <5>1. f[1] \in Callers /\ f[2] \in Int /\ f[2] <= Sent(f[1])
          BY <2>1, <2>3, <3>2, <3>3, <3>8, <4>2 DEF Counted, Possible
        <5>2. Sent(f[1])' = Sent(f[1]) \/ f[1] = a
          BY <3>1, <5>1
        <5> QED
          BY <3>0, <3>1, <3>3, <5>1, <5>2
      <4> QED
        BY <4>1, <4>2
    <3>9. T \in SUBSET Possible(c)
      BY <3>4
    <3>10. Counted(c, T)'
      BY <2>1, <2>3, <3>1, <3>7, <3>8 DEF Counted
    <3> QED
      BY <3>9, <3>10
  <2>5. ASSUME UNCHANGED afterTrip,
               \A b \in Callers : Sent(b)' = Sent(b) \/ pc'[b] = "idle"
        PROVE  Counted(c, S)'
    <3>1. ASSUME NEW f \in S, pc'[f[1]] # "idle" PROVE f[2] <= Sent(f[1])'
      <4>1. pc[f[1]] # "idle" /\ Sent(f[1])' = Sent(f[1])
        BY <2>2, <2>3, <2>5, <3>1
      <4> QED
        BY <2>1, <4>1 DEF Counted
    <3> QED
      BY <2>1, <2>3, <2>5, <3>1 DEF Counted
  <2> QED
    BY <2>4, <2>5, RequestSteps
<1>2. CASE ~tripped
  <2>1. afterTrip = 0
    BY <1>2 DEF TripInv
  <2>2. afterTrip' = 0
    BY <1>2, <2>1, SendsStep, RequestSteps
  <2>3. ASSUME tripped' PROVE \E c \in Callers : pc'[c] = "idle"
    <3>1. [Next]_vars
      BY StepImplemented
    <3>2. PICK a \in Callers : RefuseSpend(a)
      BY <1>2, <2>3, <3>1 DEF Next, Ask, RefuseRate, Check, Claim, Record, CallFails, Tick, vars
    <3> QED
      BY <3>2 DEF RefuseSpend
  <2>4. ASSUME NEW c \in Callers, pc'[c] = "idle" PROVE Counted(c, {})'
    BY <2>2, <2>4, FS_EmptySet DEF Counted
  <2> QED
    BY <2>2, <2>3, <2>4 DEF TripInv
<1> QED
  BY <1>1, <1>2

(* Once the breaker has tripped no more requests leave than the other       *)
(* callers' calls in flight can make, all of their attempts.  With nobody   *)
(* to call or fewer than no attempts nothing leaves, and the product that   *)
(* bounds it would be negative.                                             *)
THEOREM FewAfterTrip ==
    ASSUME Callers # {}, MaxRetriesOption >= -1
    PROVE  LimitedSpec => []RequestsAfterTrip
<1>1. LimitedInit => TripInv
  BY DEF LimitedInit, Init, TripInv
<1>2. /\ TypeOK /\ ClientProofs!IInv /\ OpenCalls /\ TripInv
      /\ [tripped => \A a \in Callers : pc[a] = "idle" => pc'[a] = "idle"]_vars
      /\ [LimitedNext]_limitedVars
      => TripInv'
  BY TripStep, FinalStep, StepImplemented
<1>3. Spec => [][tripped => \A a \in Callers : pc[a] = "idle" => pc'[a] = "idle"]_vars
  BY TrippedCorrect DEF TrippedIsFinal
<1>4. TripInv => RequestsAfterTrip
  <2> SUFFICES ASSUME TripInv
               PROVE  afterTrip <= (Cardinality(Callers) - 1) * Tries
    BY DEF RequestsAfterTrip, Tries
  <2>0. Tries \in Nat
    BY LimitedAssumption DEF Tries, Client!maxRetries
  <2>1. CASE tripped
    <3>0. PICK c \in Callers : \E S \in SUBSET Possible(c) : Counted(c, S)
      BY <2>1 DEF TripInv
    <3>1. PICK S \in SUBSET Possible(c) : Counted(c, S)
      BY <3>0
    <3>2. Cardinality(S) <= Cardinality(Possible(c))
      BY <2>0, PossibleFinite, FS_Subset
    <3> QED
      BY <2>0, <3>1, <3>2, PossibleFinite DEF Counted
  <2>2. CASE ~tripped
    <3>1. Cardinality(Callers) \in Nat /\ Cardinality(Callers) # 0
      BY FS_CardinalityType, FS_EmptySet, LimiterAssumption
    <3>2. (Cardinality(Callers) - 1) * Tries \in Nat
      BY <2>0, <3>1
    <3> QED
      BY <2>2, <3>2 DEF TripInv
  <2> QED
    BY <2>1, <2>2
<1> QED
  BY <1>1, <1>2, <1>3, <1>4, LimiterImplemented, TypeCorrect, ClientInvariant, OpenCallsCorrect,
     PTL DEF LimitedSpec

-----------------------------------------------------------------------------
(* The rate of the requests.                                                *)

\* A history of the calls behind the requests: for each caller the call it has
\* open, by the position of its claim; and for each request its call, which
\* attempt of it it is, how many calls had been claimed when it left, and the
\* calls that were open then.
Histories ==
    [cur : [Callers -> Nat], owner : [Nat -> Nat], attempt : [Nat -> Nat],
     before : [Nat -> Nat], flight : [Nat -> [Callers -> Nat]]]

\* Open calls have claims of their own.
Numbered(cur) ==
    /\ \A a \in Callers : pc[a] = "calling" => cur[a] \in 1 .. Len(claimed)
    /\ \A a, b \in Callers :
          pc[a] = "calling" /\ pc[b] = "calling" /\ cur[a] = cur[b] => a = b

\* No attempt of a call is made twice, and none more than its caller has counted.
Attempted(cur, owner, attempt) ==
    /\ \A i \in 1 .. Len(http) : attempt[i] \in 1 .. Tries
    /\ \A i, j \in 1 .. Len(http) : owner[i] = owner[j] /\ attempt[i] = attempt[j] => i = j
    /\ \A a \in Callers, i \in 1 .. Len(http) :
          pc[a] = "calling" /\ owner[i] = cur[a] => attempt[i] <= Sent(a)

\* A request leaves after the claims before it and before the others.
Dated(owner, before) ==
    /\ http \in Seq(Nat)
    /\ \A i \in 1 .. Len(http) : http[i] <= clock
    /\ \A i \in 1 .. Len(http) : before[i] \in 0 .. Len(claimed) /\ owner[i] \in 1 .. before[i]
    /\ \A i, j \in 1 .. Len(http) : i <= j => before[i] <= before[j]
    /\ \A i \in 1 .. Len(http), k \in 1 .. Len(claimed) :
          IF k <= before[i] THEN claimed[k] <= http[i] ELSE http[i] <= claimed[k]

\* Of the calls claimed before a request only those then open send after it.
Flying(cur, owner, before, flight) ==
    /\ \A i, j \in 1 .. Len(http) :
          i <= j /\ owner[j] <= before[i] => \E a \in Callers : flight[i][a] = owner[j]
    /\ \A a \in Callers, i \in 1 .. Len(http) :
          pc[a] = "calling" /\ cur[a] <= before[i] => flight[i][a] = cur[a]

History(cur, owner, attempt, before, flight) ==
    /\ Numbered(cur)
    /\ Attempted(cur, owner, attempt)
    /\ Dated(owner, before)
    /\ Flying(cur, owner, before, flight)

HasHistory ==
    \E h \in Histories : History(h.cur, h.owner, h.attempt, h.before, h.flight)

\* The requests i to j are attempts of the calls of a stretch of claims and of
\* those in f that were open before.
Crowded(i, j, owner, attempt, n, f, low, high) ==
    /\ \A x \in i .. j : attempt[x] \in 1 .. n
    /\ \A x \in i .. j : owner[x] \in low + 1 .. high \/ \E a \in Callers : f[a] = owner[x]
    /\ \A x, y \in i .. j : owner[x] = owner[y] /\ attempt[x] = attempt[y] => x = y

\* There can be only so many.
LEMMA Crowd ==
    ASSUME NEW n \in Nat, NEW m \in Nat, NEW i \in Int, NEW j \in Int, i <= j,
           NEW owner, NEW attempt, NEW f \in [Callers -> Nat],
           NEW low \in Nat, NEW high \in Nat, high <= low + m,
           Crowded(i, j, owner, attempt, n, f, low, high)
    PROVE  j - i + 1 <= (m + Cardinality(Callers)) * n
<1> DEFINE F == Range(f)
           O == F \cup (low + 1 .. high)
           g == [x \in i .. j |-> <<owner[x], attempt[x]>>]
<1>1. /\ IsFiniteSet(F) /\ Cardinality(F) <= Cardinality(Callers)
      /\ \A a \in Callers : f[a] \in F
  <2>1. f \in Surjection(Callers, F)
    BY DEF Surjection, Range
  <2>2. \A a \in Callers : f[a] \in F
    BY DEF Range
  <2> QED
    BY <2>1, <2>2, FS_Surjection, LimiterAssumption
<1>2. IsFiniteSet(low + 1 .. high) /\ Cardinality(low + 1 .. high) <= m
  <2>1. low + 1 \in Int /\ high \in Int
    OBVIOUS
  <2>2. /\ IsFiniteSet(low + 1 .. high)
        /\ Cardinality(low + 1 .. high) = IF low + 1 > high THEN 0 ELSE high - (low + 1) + 1
    BY <2>1, FS_Interval
  <2> QED
    BY <2>2
<1> HIDE DEF F
<1>3. IsFiniteSet(O) /\ Cardinality(O) <= m + Cardinality(Callers)
  <2>1. /\ IsFiniteSet(O)
        /\ Cardinality(O) = Cardinality(F) + Cardinality(low + 1 .. high)
                            - Cardinality(F \cap (low + 1 .. high))
    BY <1>1, <1>2, FS_Union
  <2>2. Cardinality(F \cap (low + 1 .. high)) \in Nat
    <3>1. IsFiniteSet(F \cap (low + 1 .. high))
      BY <1>1, FS_Subset
    <3> QED
      BY <3>1, FS_CardinalityType
  <2>3. /\ Cardinality(F) \in Nat /\ Cardinality(low + 1 .. high) \in Nat
        /\ Cardinality(Callers) \in Nat
    BY <1>1, <1>2, FS_CardinalityType, LimiterAssumption
  <2> QED
    BY <1>1, <1>2, <2>1, <2>2, <2>3
<1>4. \A x \in i .. j : owner[x] \in O
  BY <1>1 DEF Crowded
<1> HIDE DEF O
<1>5. IsFiniteSet(O \X (1 .. n)) /\ Cardinality(O \X (1 .. n)) = Cardinality(O) * n
  <2>1. IsFiniteSet(1 .. n) /\ Cardinality(1 .. n) = n
    BY FS_Interval
  <2> QED
    BY <1>3, <2>1, FS_Product
<1>6. g \in Injection(i .. j, O \X (1 .. n))
  <2>1. g \in [i .. j -> O \X (1 .. n)]
    BY <1>4 DEF Crowded
  <2>2. ASSUME NEW x \in i .. j, NEW y \in i .. j, g[x] = g[y] PROVE x = y
    BY <2>2 DEF Crowded
  <2> HIDE DEF g
  <2> QED
    BY <2>1, <2>2 DEF Injection, IsInjective
<1> HIDE DEF g
<1>7. Cardinality(i .. j) <= Cardinality(O) * n
  BY <1>5, <1>6, FS_Injection
<1>8. Cardinality(i .. j) = j - i + 1
  BY FS_Interval
<1>9. Cardinality(O) * n <= (m + Cardinality(Callers)) * n
  <2>1. Cardinality(O) \in Nat /\ Cardinality(Callers) \in Nat
    BY <1>3, FS_CardinalityType, LimiterAssumption
  <2> QED
    BY <1>3, <2>1
<1>10. Cardinality(O) * n \in Int /\ (m + Cardinality(Callers)) * n \in Int
  BY <1>3, FS_CardinalityType, LimiterAssumption
<1> QED
  BY <1>7, <1>8, <1>9, <1>10

\* So a window has not room for more, since the claims keep their rate.
LEMMA RateFromHistory ==
    ASSUME TypeOK, RateInv, HasHistory
    PROVE  RequestRateBounded
<1> DEFINE L == Len(http)
           M == Len(claimed)
           span == (MaxCalls + Cardinality(Callers)) * Tries
<1> SUFFICES ASSUME MaxCalls > 0, NEW i \in 1 .. L, i + span <= L
             PROVE  http[i] + Window <= http[i + span]
  BY DEF RequestRateBounded, Tries
<1> HIDE DEF L, M, span
<1>1. PICK h : h \in Histories /\ History(h.cur, h.owner, h.attempt, h.before, h.flight)
  BY DEF HasHistory
<1> DEFINE owner == h.owner
           attempt == h.attempt
           before == h.before
           flight == h.flight
<1>2. /\ \A x \in Nat : before[x] \in Nat /\ flight[x] \in [Callers -> Nat]
      /\ \A x \in Nat : owner[x] \in Nat
  BY <1>1 DEF Histories
<1>3. Attempted(h.cur, owner, attempt) /\ Dated(owner, before)
      /\ Flying(h.cur, owner, before, flight)
  BY <1>1 DEF History
<1> HIDE DEF owner, attempt, before, flight
<1>4. http \in Seq(Nat) /\ L \in Nat /\ M \in Nat /\ MaxCalls \in Nat /\ Window \in Nat
  BY <1>3, LimiterAssumption DEF Dated, TypeOK, L, M
<1>5. Tries \in Nat /\ Tries >= 1
  <2>1. attempt[i] \in 1 .. Tries
    BY <1>3 DEF Attempted, L
  <2> QED
    BY <2>1, TriesInt
<1>6. Cardinality(Callers) \in Nat
  BY FS_CardinalityType, LimiterAssumption
<1>7. span \in Nat
  BY <1>4, <1>5, <1>6 DEF span
<1> DEFINE j == i + span
<1>8. j \in 1 .. L /\ i <= j /\ i \in Nat
  BY <1>4, <1>7
<1> HIDE DEF j
<1>9. before[j] > before[i] + MaxCalls
  <2> SUFFICES ASSUME before[j] <= before[i] + MaxCalls PROVE FALSE
    <3>1. before[j] \in Nat /\ before[i] + MaxCalls \in Nat
      BY <1>2, <1>4, <1>8
    <3> QED
      BY <3>1
  <2>1. i .. j \subseteq 1 .. L
    BY <1>4, <1>8
  <2>2. \A x \in i .. j : attempt[x] \in 1 .. Tries
    BY <1>3, <2>1 DEF Attempted, L
  <2>3. \A x, y \in i .. j : owner[x] = owner[y] /\ attempt[x] = attempt[y] => x = y
    BY <1>3, <2>1 DEF Attempted, L
  <2>4. ASSUME NEW x \in i .. j
        PROVE  owner[x] \in before[i] + 1 .. before[j] \/ \E a \in Callers : flight[i][a] = owner[x]
    <3>1. x \in 1 .. L /\ i <= x /\ x <= j
      BY <1>8, <2>1
    <3>2. owner[x] \in 1 .. before[x] /\ before[x] <= before[j]
      BY <1>3, <1>8, <3>1 DEF Dated, L
    <3>3. before[x] \in Nat /\ before[i] \in Nat /\ before[j] \in Nat
      BY <1>2, <1>8, <3>1
    <3>4. CASE owner[x] <= before[i]
      BY <1>3, <3>1, <3>4 DEF Flying, L
    <3>5. CASE ~(owner[x] <= before[i])
      BY <3>2, <3>3, <3>5
    <3> QED
      BY <3>4, <3>5
  <2>5. flight[i] \in [Callers -> Nat] /\ before[i] \in Nat /\ before[j] \in Nat
    BY <1>2, <1>8
  <2>6. i \in Int /\ j \in Int /\ i <= j
    BY <1>8
  <2> DEFINE low == before[i]
             high == before[j]
             f == flight[i]
  <2>7. /\ low \in Nat /\ high \in Nat /\ f \in [Callers -> Nat] /\ high <= low + MaxCalls
        /\ MaxCalls \in Nat /\ Tries \in Nat
    BY <1>4, <1>5, <2>5
  <2>8. \A x \in i .. j : owner[x] \in low + 1 .. high \/ \E a \in Callers : f[a] = owner[x]
    BY <2>4
  <2> HIDE DEF low, high, f
  <2>9. Crowded(i, j, owner, attempt, Tries, f, low, high)
    BY <2>2, <2>3, <2>8 DEF Crowded
  <2>10. j - i + 1 <= (MaxCalls + Cardinality(Callers)) * Tries
    BY <2>6, <2>7, <2>9, Crowd
  <2> QED
    BY <1>7, <1>8, <2>10 DEF j, span
<1>10. PICK k \in Nat : k = before[i] + 1
  BY <1>2, <1>8
<1>11. /\ k \in 1 .. M /\ k + MaxCalls \in 1 .. M
       /\ before[i] < k /\ k + MaxCalls <= before[j]
  <2>1. before[j] \in 0 .. M
    BY <1>3, <1>8 DEF Dated, L, M
  <2>2. before[i] \in Nat
    BY <1>2, <1>8
  <2> QED
    BY <1>4, <1>9, <1>10, <2>1, <2>2
<1>12. http[i] <= claimed[k]
  <2>1. ~(k <= before[i])
    BY <1>2, <1>8, <1>10
  <2> QED
    BY <1>3, <1>8, <1>11, <2>1 DEF Dated, L, M
<1>13. claimed[k] + Window <= claimed[k + MaxCalls]
  BY <1>4, <1>11 DEF RateInv, RateBounded, M
<1>14. claimed[k + MaxCalls] <= http[j]
  BY <1>3, <1>8, <1>11 DEF Dated, L, M
<1>15. http[i] \in Nat /\ http[j] \in Nat /\ claimed[k] \in Nat /\ claimed[k + MaxCalls] \in Nat
  <2>1. \A x \in 1 .. Len(claimed) : claimed[x] \in Nat
    BY LimiterAssumption DEF TypeOK
  <2> QED
    BY <1>4, <1>8, <1>11, <2>1 DEF L, M
<1>16. http[i] + Window <= http[j]
  BY <1>4, <1>12, <1>13, <1>14, <1>15
<1> QED
  BY <1>16 DEF j

Typed(cur, owner, attempt, before, flight) ==
    /\ cur \in [Callers -> Nat]
    /\ owner \in [Nat -> Nat] /\ attempt \in [Nat -> Nat] /\ before \in [Nat -> Nat]
    /\ flight \in [Nat -> [Callers -> Nat]]

LEMMA HistoryNow ==
    ASSUME NEW cur, NEW owner, NEW attempt, NEW before, NEW flight,
           Typed(cur, owner, attempt, before, flight),
           History(cur, owner, attempt, before, flight)'
    PROVE  HasHistory'
<1> DEFINE h == [cur |-> cur, owner |-> owner, attempt |-> attempt, before |-> before,
                 flight |-> flight]
<1>1. /\ h \in Histories
      /\ h.cur = cur /\ h.owner = owner /\ h.attempt = attempt /\ h.before = before
      /\ h.flight = flight
  BY DEF Typed, Histories
<1> HIDE DEF h
<1>2. History(h.cur, h.owner, h.attempt, h.before, h.flight)'
  BY <1>1
<1> QED
  BY <1>1, <1>2 DEF HasHistory

\* Where nothing is sent and nothing claimed, the history is the same.
LEMMA HistoryKept ==
    ASSUME NEW cur, NEW owner, NEW attempt, NEW before, NEW flight,
           History(cur, owner, attempt, before, flight),
           UNCHANGED <<http, claimed>>,
           clock \in Nat, clock' \in Nat, clock <= clock',
           \A a \in Callers : pc'[a] = "calling" => pc[a] = "calling" /\ Sent(a)' = Sent(a)
    PROVE  History(cur, owner, attempt, before, flight)'
<1>1. Numbered(cur)'
  BY DEF History, Numbered
<1>2. Attempted(cur, owner, attempt)'
  BY DEF History, Attempted
<1>3. Dated(owner, before)'
  <2>1. \A i \in 1 .. Len(http) : http[i] \in Nat /\ http[i] <= clock
    BY DEF History, Dated
  <2>2. \A i \in 1 .. Len(http) : http[i] <= clock'
    BY <2>1
  <2> QED
    BY <2>2 DEF History, Dated
<1>4. Flying(cur, owner, before, flight)'
  BY DEF History, Flying
<1> QED
  BY <1>1, <1>2, <1>3, <1>4 DEF History

\* A claim is a new call, later than every request so far.
LEMMA HistoryOfClaim ==
    ASSUME TypeOK, NEW cur, NEW owner, NEW attempt, NEW before, NEW flight,
           Typed(cur, owner, attempt, before, flight),
           History(cur, owner, attempt, before, flight),
           NEW a \in Callers, Claim(a), UNCHANGED http,
           \A b \in Callers : Sent(b)' = Sent(b)
    PROVE  HasHistory'
<1>0. PICK m : m = Len(claimed) + 1
  OBVIOUS
<1> DEFINE cur2 == [cur EXCEPT ![a] = m]
<1>1. /\ claimed \in Seq(Nat) /\ Len(claimed) \in Nat /\ m \in Nat
      /\ clock \in Nat /\ clock' = clock
      /\ Len(claimed') = m /\ claimed'[m] = clock
      /\ \A k \in 1 .. Len(claimed) : claimed'[k] = claimed[k]
  BY <1>0, LimiterAssumption DEF TypeOK, Claim
<1>2. \A k \in 1 .. m : k \in 1 .. Len(claimed) \/ k = m
  BY <1>0, <1>1
<1>3. /\ pc'[a] = "calling" /\ \A b \in Callers : b # a => pc'[b] = pc[b]
  BY DEF Claim, Goto, TypeOK
<1>4. /\ cur2 \in [Callers -> Nat]
      /\ cur2[a] = m /\ \A b \in Callers : b # a => cur2[b] = cur[b]
  BY <1>1 DEF Typed
<1> HIDE DEF cur2
<1>5. \A i \in 1 .. Len(http) : /\ before[i] \in Nat /\ owner[i] \in Nat
                                /\ before[i] < m /\ owner[i] < m
  <2> SUFFICES ASSUME NEW i \in 1 .. Len(http)
               PROVE  /\ before[i] \in Nat /\ owner[i] \in Nat
                      /\ before[i] < m /\ owner[i] < m
    OBVIOUS
  <2>1. before[i] \in 0 .. Len(claimed) /\ owner[i] \in 1 .. before[i]
    BY DEF History, Dated
  <2> QED
    BY <1>0, <1>1, <2>1
<1>6. Numbered(cur2)'
  <2>1. \A b \in Callers : b # a /\ pc'[b] = "calling" => cur2[b] \in 1 .. Len(claimed)
    BY <1>3, <1>4 DEF History, Numbered
  <2>2. \A b \in Callers : pc'[b] = "calling" => cur2[b] \in 1 .. m
    BY <1>0, <1>1, <1>4, <2>1
  <2>3. \A b \in Callers : b # a /\ pc'[b] = "calling" => cur2[b] # m
    BY <1>0, <1>1, <2>1
  <2>4. \A b, c \in Callers : b # a /\ c # a /\ pc'[b] = "calling" /\ pc'[c] = "calling"
                              /\ cur2[b] = cur2[c] => b = c
    BY <1>3, <1>4 DEF History, Numbered
  <2> QED
    BY <1>1, <1>4, <2>2, <2>3, <2>4 DEF Numbered
<1>7. Attempted(cur2, owner, attempt)'
  <2>1. ASSUME NEW b \in Callers, NEW i \in 1 .. Len(http), pc'[b] = "calling",
               owner[i] = cur2[b]
        PROVE  attempt[i] <= Sent(b)'
    <3>1. b # a
      BY <1>1, <1>4, <1>5, <2>1
    <3> QED
      BY <1>3, <1>4, <2>1, <3>1 DEF History, Attempted
  <2> QED
    BY <2>1 DEF History, Attempted
<1>8. Dated(owner, before)'
  <2>1. \A i \in 1 .. Len(http) : before[i] \in 0 .. m
    BY <1>1, <1>5
  <2>2. ASSUME NEW i \in 1 .. Len(http), NEW k \in 1 .. m
        PROVE  IF k <= before[i] THEN claimed'[k] <= http[i] ELSE http[i] <= claimed'[k]
    <3>1. CASE k \in 1 .. Len(claimed)
      BY <1>1, <3>1 DEF History, Dated
    <3>2. CASE k = m
      <4>1. ~(k <= before[i])
        BY <1>1, <1>5, <3>2
      <4>2. http[i] <= clock
        BY DEF History, Dated
      <4> QED
        BY <1>1, <3>2, <4>1, <4>2
    <3> QED
      BY <1>2, <3>1, <3>2
  <2> QED
    BY <1>1, <2>1, <2>2 DEF History, Dated
<1>9. Flying(cur2, owner, before, flight)'
  <2>1. ASSUME NEW b \in Callers, NEW i \in 1 .. Len(http), pc'[b] = "calling",
               cur2[b] <= before[i]
        PROVE  flight[i][b] = cur2[b]
    <3>1. b # a
      BY <1>1, <1>4, <1>5, <2>1
    <3> QED
      BY <1>3, <1>4, <2>1, <3>1 DEF History, Flying
  <2> QED
    BY <2>1 DEF History, Flying
<1>10. Typed(cur2, owner, attempt, before, flight)
  BY <1>4 DEF Typed
<1>11. History(cur2, owner, attempt, before, flight)'
  BY <1>6, <1>7, <1>8, <1>9 DEF History
<1> QED
  BY <1>10, <1>11, HistoryNow

\* A request is the next attempt of its caller's call.
LEMMA HistoryOfSend ==
    ASSUME TypeOK, ClaimedInOrder, ClientProofs!IInv, OpenCalls,
           NEW cur, NEW owner, NEW attempt, NEW before, NEW flight,
           Typed(cur, owner, attempt, before, flight),
           History(cur, owner, attempt, before, flight),
           NEW a \in Callers, Sends(a)
    PROVE  HasHistory'
<1>0. PICK l, n, m : l = Len(http) + 1 /\ n = Sent(a) + 1 /\ m = Len(claimed)
  OBVIOUS
<1> DEFINE owner2   == [owner EXCEPT ![l] = cur[a]]
           attempt2 == [attempt EXCEPT ![l] = n]
           before2  == [before EXCEPT ![l] = m]
           flight2  == [flight EXCEPT ![l] = cur]
<1>1. /\ place[a] = "ready" /\ UNCHANGED vars /\ http' = Append(http, clock)
      /\ Sent(a)' = n /\ \A b \in Callers : b # a => Sent(b)' = Sent(b)
  BY <1>0, SendsStep
<1>2. /\ pc[a] = "calling" /\ pc' = pc /\ claimed' = claimed /\ clock' = clock
  BY <1>1 DEF OpenCalls, vars
<1>3. /\ Sent(a) \in Nat /\ n \in 1 .. Tries /\ n \in Nat
      /\ m \in Nat /\ clock \in Nat /\ \A k \in 1 .. m : claimed[k] \in Nat
  BY <1>0, <1>1, SentType, TriesInt, LimiterAssumption DEF TypeOK
<1>4. /\ http \in Seq(Nat) /\ Len(http) \in Nat /\ l \in Nat
      /\ http' \in Seq(Nat) /\ Len(http') = l /\ http'[l] = clock
      /\ \A i \in 1 .. Len(http) : http'[i] = http[i] /\ i \in Nat /\ i < l
  <2>1. http \in Seq(Nat)
    BY DEF History, Dated
  <2> QED
    BY <1>0, <1>1, <1>3, <2>1
<1>5. \A i \in 1 .. l : i \in 1 .. Len(http) \/ i = l
  BY <1>0, <1>4
<1>6. /\ owner2[l] = cur[a] /\ attempt2[l] = n /\ before2[l] = m /\ flight2[l] = cur
      /\ \A i \in 1 .. Len(http) : /\ owner2[i] = owner[i] /\ attempt2[i] = attempt[i]
                                   /\ before2[i] = before[i] /\ flight2[i] = flight[i]
  <2>1. /\ DOMAIN owner = Nat /\ DOMAIN attempt = Nat /\ DOMAIN before = Nat
        /\ DOMAIN flight = Nat
    BY DEF Typed
  <2>2. owner2[l] = cur[a] /\ attempt2[l] = n
    BY <1>4, <2>1
  <2>3. before2[l] = m /\ flight2[l] = cur
    BY <1>4, <2>1
  <2>4. ASSUME NEW i \in 1 .. Len(http)
        PROVE  /\ owner2[i] = owner[i] /\ attempt2[i] = attempt[i]
               /\ before2[i] = before[i] /\ flight2[i] = flight[i]
    <3>1. i \in Nat /\ i # l
      BY <1>4
    <3> QED
      BY <2>1, <3>1
  <2> QED
    BY <2>2, <2>3, <2>4
<1>7. cur[a] \in Nat /\ cur[a] \in 1 .. m
  BY <1>0, <1>2 DEF Typed, History, Numbered
<1>8. Typed(cur, owner2, attempt2, before2, flight2)
  BY <1>3, <1>4, <1>7 DEF Typed
<1> HIDE DEF owner2, attempt2, before2, flight2
<1>9. \A i \in 1 .. Len(http) : /\ before[i] \in 0 .. m /\ owner[i] \in 1 .. before[i]
                                /\ before[i] <= m
  BY <1>0, <1>3 DEF History, Dated
<1>10. Numbered(cur)'
  BY <1>2 DEF History, Numbered
<1>11. Attempted(cur, owner2, attempt2)'
  <2>1. \A i \in 1 .. l : attempt2[i] \in 1 .. Tries
    BY <1>3, <1>5, <1>6 DEF History, Attempted
  <2>2. ASSUME NEW i \in 1 .. Len(http), owner[i] = cur[a] PROVE attempt[i] # n
    <3>1. attempt[i] <= Sent(a) /\ attempt[i] \in 1 .. Tries
      BY <1>2, <2>2 DEF History, Attempted
    <3> QED
      BY <1>0, <1>3, <3>1, TriesInt
  <2>3. ASSUME NEW i \in 1 .. l, NEW j \in 1 .. l, owner2[i] = owner2[j],
               attempt2[i] = attempt2[j]
        PROVE  i = j
    <3>1. CASE i \in 1 .. Len(http) /\ j \in 1 .. Len(http)
      BY <1>6, <2>3, <3>1 DEF History, Attempted
    <3>2. CASE i = l /\ j \in 1 .. Len(http)
      BY <1>6, <2>2, <2>3, <3>2
    <3>3. CASE j = l /\ i \in 1 .. Len(http)
      BY <1>6, <2>2, <2>3, <3>3
    <3> QED
      BY <1>5, <3>1, <3>2, <3>3
  <2>4. ASSUME NEW b \in Callers, NEW i \in 1 .. l, pc[b] = "calling", owner2[i] = cur[b]
        PROVE  attempt2[i] <= Sent(b)'
    <3>1. CASE i = l
      <4>1. a = b
        BY <1>2, <1>6, <2>4, <3>1 DEF History, Numbered
      <4> QED
        BY <1>1, <1>3, <1>6, <3>1, <4>1
    <3>2. CASE i \in 1 .. Len(http)
      <4>1. attempt[i] <= Sent(b) /\ attempt2[i] = attempt[i] /\ attempt[i] \in 1 .. Tries
        BY <1>6, <2>4, <3>2 DEF History, Attempted
      <4>2. CASE b = a
        BY <1>0, <1>1, <1>3, <4>1, <4>2, TriesInt
      <4>3. CASE b # a
        BY <1>1, <4>1, <4>3
      <4> QED
        BY <4>2, <4>3
    <3> QED
      BY <1>5, <3>1, <3>2
  <2> QED
    BY <1>2, <1>4, <2>1, <2>3, <2>4 DEF Attempted
<1>12. Dated(owner2, before2)'
  <2>1. ASSUME NEW i \in 1 .. l PROVE http'[i] <= clock
    <3>1. CASE i = l
      BY <1>3, <1>4, <3>1
    <3>2. CASE i \in 1 .. Len(http)
      <4>1. http[i] <= clock
        BY <3>2 DEF History, Dated
      <4> QED
        BY <1>4, <3>2, <4>1
    <3> QED
      BY <1>5, <3>1, <3>2
  <2>2. \A i \in 1 .. l : before2[i] \in 0 .. m /\ owner2[i] \in 1 .. before2[i]
    BY <1>3, <1>5, <1>6, <1>7, <1>9
  <2>3. ASSUME NEW i \in 1 .. l, NEW j \in 1 .. l, i <= j PROVE before2[i] <= before2[j]
    <3>1. CASE j = l
      BY <1>3, <2>2, <1>6, <3>1
    <3>2. CASE j \in 1 .. Len(http)
      <4>1. i \in 1 .. Len(http)
        BY <1>4, <1>5, <2>3, <3>2
      <4> QED
        BY <1>6, <2>3, <3>2, <4>1 DEF History, Dated
    <3> QED
      BY <1>5, <3>1, <3>2
  <2>4. ASSUME NEW i \in 1 .. l, NEW k \in 1 .. m
        PROVE  IF k <= before2[i] THEN claimed[k] <= http'[i] ELSE http'[i] <= claimed[k]
    <3>1. CASE i = l
      <4>1. claimed[k] <= clock /\ k <= m
        BY <1>0, <1>3 DEF ClaimedInOrder
      <4> QED
        BY <1>4, <1>6, <3>1, <4>1
    <3>2. CASE i \in 1 .. Len(http)
      BY <1>0, <1>4, <1>6, <3>2 DEF History, Dated
    <3> QED
      BY <1>5, <3>1, <3>2
  <2> QED
    BY <1>0, <1>2, <1>4, <2>1, <2>2, <2>3, <2>4 DEF Dated
<1>13. Flying(cur, owner2, before2, flight2)'
  <2>1. ASSUME NEW i \in 1 .. l, NEW j \in 1 .. l, i <= j, owner2[j] <= before2[i]
        PROVE  \E b \in Callers : flight2[i][b] = owner2[j]
    <3>1. CASE i = l
      <4>1. j = l
        BY <1>4, <1>5, <2>1, <3>1
      <4> QED
        BY <1>6, <3>1, <4>1
    <3>2. CASE i \in 1 .. Len(http) /\ j = l
      <4>1. flight[i][a] = cur[a]
        BY <1>2, <1>6, <2>1, <3>2 DEF History, Flying
      <4> QED
        BY <1>6, <3>2, <4>1
    <3>3. CASE i \in 1 .. Len(http) /\ j \in 1 .. Len(http)
      BY <1>6, <2>1, <3>3 DEF History, Flying
    <3> QED
      BY <1>5, <3>1, <3>2, <3>3
  <2>2. ASSUME NEW b \in Callers, NEW i \in 1 .. l, pc[b] = "calling", cur[b] <= before2[i]
        PROVE  flight2[i][b] = cur[b]
    <3>1. CASE i = l
      BY <1>6, <3>1
    <3>2. CASE i \in 1 .. Len(http)
      BY <1>6, <2>2, <3>2 DEF History, Flying
    <3> QED
      BY <1>5, <3>1, <3>2
  <2> QED
    BY <1>2, <1>4, <2>1, <2>2 DEF Flying
<1>14. History(cur, owner2, attempt2, before2, flight2)'
  BY <1>10, <1>11, <1>12, <1>13 DEF History
<1> QED
  BY <1>8, <1>14, HistoryNow

LEMMA HistoryStep ==
    ASSUME TypeOK, TypeOK', ClaimedInOrder, ClientProofs!IInv, OpenCalls, MaxCalls > 0,
           HasHistory, [LimitedNext]_limitedVars
    PROVE  HasHistory'
<1>0. PICK h : h \in Histories /\ History(h.cur, h.owner, h.attempt, h.before, h.flight)
  BY DEF HasHistory
<1> DEFINE cur == h.cur
           owner == h.owner
           attempt == h.attempt
           before == h.before
           flight == h.flight
<1>1. Typed(cur, owner, attempt, before, flight) /\ History(cur, owner, attempt, before, flight)
  BY <1>0 DEF Typed, Histories
<1> HIDE DEF cur, owner, attempt, before, flight
<1>2. ASSUME NEW a \in Callers, Sends(a) PROVE HasHistory'
  BY <1>1, <1>2, HistoryOfSend
<1>3. [Next]_vars
  BY StepImplemented
<1>4. clock \in Nat /\ clock' \in Nat /\ clock <= clock'
  <2>1. clock' = clock \/ clock' = clock + 1
    BY <1>3 DEF Next, Ask, RefuseSpend, RefuseRate, Check, Claim, Record, CallFails, Tick, vars
  <2> QED
    BY <2>1, LimiterAssumption DEF TypeOK
<1>5. ASSUME UNCHANGED <<http, claimed>>,
             \A a \in Callers : pc'[a] = "calling" => pc[a] = "calling" /\ Sent(a)' = Sent(a)
      PROVE  HasHistory'
  BY <1>1, <1>4, <1>5, HistoryKept, HistoryNow
<1>6. ASSUME UNCHANGED http, ~ \E a \in Callers : Claim(a)
      PROVE  UNCHANGED claimed /\ \A a \in Callers : pc'[a] = "calling" => pc[a] = "calling"
  BY <1>3, <1>6
  DEF Next, Ask, RefuseSpend, RefuseRate, Check, Record, CallFails, Tick, vars, Goto, TypeOK
<1>7. ASSUME UNCHANGED http, \A b \in Callers : Sent(b)' = Sent(b) PROVE HasHistory'
  <2>1. CASE \E a \in Callers : Claim(a)
    BY <1>1, <1>7, <2>1, HistoryOfClaim
  <2>2. CASE ~ \E a \in Callers : Claim(a)
    BY <1>5, <1>6, <1>7, <2>2
  <2> QED
    BY <2>1, <2>2
<1>8. ASSUME UNCHANGED http, NEW a \in Callers, Finish(a), pc'[a] = "idle", pc[a] = "calling",
             \A b \in Callers : b # a => Sent(b)' = Sent(b)
      PROVE  HasHistory'
  <2>1. UNCHANGED claimed
    BY <1>8 DEF Finish, Record, CallFails
  <2>2. \A b \in Callers : b # a => pc'[b] = pc[b]
    BY <1>8 DEF Finish, Record, CallFails, Goto, TypeOK
  <2> QED
    BY <1>5, <1>8, <2>1, <2>2
<1> QED
  BY <1>2, <1>7, <1>8, RequestSteps

(* The rate ceiling at the API: any (MaxCalls + callers) * attempts + 1     *)
(* consecutive requests take at least a window, however the callers         *)
(* interleave and whatever the client retries.                              *)
THEOREM RequestRate == LimitedSpec => []RequestRateBounded
<1>1. CASE MaxCalls > 0
  <2>1. LimitedInit => HasHistory
    <3> SUFFICES ASSUME LimitedInit PROVE HasHistory
      OBVIOUS
    <3> DEFINE h == [cur |-> [a \in Callers |-> 0], owner |-> [i \in Nat |-> 0],
                     attempt |-> [i \in Nat |-> 0], before |-> [i \in Nat |-> 0],
                     flight |-> [i \in Nat |-> [a \in Callers |-> 0]]]
    <3>1. h \in Histories
      BY DEF Histories
    <3> HIDE DEF h
    <3>2. http = <<>> /\ \A a \in Callers : pc[a] = "idle"
      BY DEF LimitedInit, Init
    <3>3. History(h.cur, h.owner, h.attempt, h.before, h.flight)
      BY <3>2 DEF History, Numbered, Attempted, Dated, Flying
    <3> QED
      BY <3>1, <3>3 DEF HasHistory
  <2>2. /\ TypeOK /\ TypeOK' /\ RateInv /\ ClientProofs!IInv /\ OpenCalls /\ HasHistory
        /\ [LimitedNext]_limitedVars
        => HasHistory'
    BY <1>1, HistoryStep DEF RateInv
  <2>3. TypeOK /\ RateInv /\ HasHistory => RequestRateBounded
    BY RateFromHistory
  <2> QED
    BY <2>1, <2>2, <2>3, LimiterImplemented, TypeCorrect, RateCorrect, ClientInvariant,
       OpenCallsCorrect, PTL DEF LimitedSpec
<1>2. CASE ~(MaxCalls > 0)
  <2>1. RequestRateBounded
    BY <1>2 DEF RequestRateBounded
  <2> QED
    BY <2>1, PTL
<1> QED
  BY <1>1, <1>2
=============================================================================
