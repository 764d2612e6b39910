------------------------------ MODULE Limiter ------------------------------
(***************************************************************************)
(* internal/budget/budget.go: the Limiter between the judge and the Jev    *)
(* client.  Ask reserves under the mutex (the spend ceiling, then the rate *)
(* ceiling), makes the call outside it, and takes it again to record what  *)
(* the call cost.  Any number of publishes ask at the same time.           *)
(*                                                                         *)
(* The code keeps the times of the calls in the rate window; here a call   *)
(* is its position in claimed, the times of all claims, and recent is a    *)
(* set of calls.  Money is counted in whole units; the counters that only  *)
(* Stats reports (calls, tokens, refused) are left out.                    *)
(***************************************************************************)
EXTENDS Naturals, Sequences, FiniteSets

CONSTANTS Callers,    \* goroutines that may be inside Ask
          MaxSpend,   \* Options.MaxSpendUSD; 0 disables the check
          MaxCalls,   \* Options.MaxCallsPerMin; 0 disables the check
          Window,     \* a minute, in ticks
          Costs,      \* what one call may cost
          MaxCost,    \* the most one call may cost
          MaxClock    \* bound: the time at which the model stops

ASSUME LimiterAssumption ==
    /\ IsFiniteSet(Callers)
    /\ MaxSpend \in Nat /\ MaxCalls \in Nat
    /\ Window \in Nat \ {0}
    /\ MaxCost \in Nat /\ Costs \subseteq 0 .. MaxCost
    /\ MaxClock \in Nat

VARIABLES
    clock,    \* what now() answers
    spent,    \* spentUSD
    tripped,
    recent,   \* the calls the limiter believes are in the window
    claimed,  \* the time at which each call claimed its slot
    pc        \* where each caller is in Ask

vars == <<clock, spent, tripped, recent, claimed, pc>>

TypeOK ==
    /\ clock \in 0 .. MaxClock
    /\ spent \in Nat
    /\ tripped \in BOOLEAN
    /\ recent \in SUBSET (1 .. Len(claimed))
    /\ claimed \in Seq(0 .. MaxClock)
    /\ pc \in [Callers -> {"idle", "claiming", "calling"}]

Init ==
    /\ clock = 0
    /\ spent = 0
    /\ tripped = FALSE
    /\ recent = {}
    /\ claimed = <<>>
    /\ pc = [a \in Callers |-> "idle"]

\* The mutex is held from the checks of reserve to the claim of a slot.
Unlocked == \A a \in Callers : pc[a] # "claiming"

InWindow(i) == claimed[i] + Window > clock      \* t.After(cutoff)
KeptAll == recent      \* mutated: nothing is pruned
Kept == {i \in recent : InWindow(i)}

SpendPassed == MaxSpend > 0 /\ spent > MaxSpend      \* mutated: off by one
SpendExceeded == MaxSpend > 0 /\ spent >= MaxSpend

RateExceeded == MaxCalls > 0 /\ Cardinality(Kept) >= MaxCalls

Goto(a, place) == pc' = [pc EXCEPT ![a] = place]

-----------------------------------------------------------------------------
(* reserve                                                                  *)

RefuseSpend(a) ==
    /\ pc[a] = "idle" /\ Unlocked
    /\ SpendExceeded
    /\ tripped' = TRUE
    /\ UNCHANGED <<clock, spent, recent, claimed, pc>>

RefuseRate(a) ==
    /\ pc[a] = "idle" /\ Unlocked
    /\ ~SpendExceeded
    /\ RateExceeded
    /\ recent' = Kept
    /\ UNCHANGED <<clock, spent, tripped, claimed, pc>>

\* Both ceilings allow the call.  Time may pass before the slot is claimed:
\* the code reads the clock twice.
Check(a) ==
    /\ pc[a] = "idle" /\ Unlocked
    /\ ~SpendExceeded
    /\ IF MaxCalls > 0
       THEN /\ recent' = Kept
            /\ Cardinality(Kept) < MaxCalls
            /\ Goto(a, "claiming")
       ELSE Goto(a, "calling") /\ UNCHANGED recent
    /\ UNCHANGED <<clock, spent, tripped, claimed>>

ClaimUntimed(a) ==      \* mutated: the time of the call is not kept
    /\ pc[a] = "claiming"
    /\ recent' = recent \cup {Len(claimed) + 1}
    /\ Goto(a, "calling")
    /\ UNCHANGED <<clock, spent, tripped, claimed>>

Claim(a) ==
    /\ pc[a] = "claiming"
    /\ claimed' = Append(claimed, clock)
    /\ recent' = recent \cup {Len(claimed) + 1}
    /\ Goto(a, "calling")
    /\ UNCHANGED <<clock, spent, tripped>>

-----------------------------------------------------------------------------
(* After the call                                                           *)

Record(a, cost) ==
    /\ pc[a] = "calling" /\ Unlocked
    /\ spent' = spent + cost
    /\ Goto(a, "idle")
    /\ UNCHANGED <<clock, tripped, recent, claimed>>

CallFailsFreeing(a) ==      \* mutated: a failed call gives its slot back
    /\ pc[a] = "calling"
    /\ recent' = recent \ {Len(claimed)}
    /\ Goto(a, "idle")
    /\ UNCHANGED <<clock, spent, tripped, claimed>>

\* A failed call costs nothing and keeps its slot.
CallFails(a) ==
    /\ pc[a] = "calling"
    /\ Goto(a, "idle")
    /\ UNCHANGED <<clock, spent, tripped, recent, claimed>>

Tick ==
    /\ clock < MaxClock
    /\ clock' = clock + 1
    /\ UNCHANGED <<spent, tripped, recent, claimed, pc>>

Ask(a) ==
    \/ RefuseSpend(a) \/ RefuseRate(a) \/ Check(a) \/ Claim(a)
    \/ \E cost \in Costs : Record(a, cost)
    \/ CallFails(a)

Next == (\E a \in Callers : Ask(a)) \/ Tick

Spec == Init /\ [][Next]_vars

-----------------------------------------------------------------------------
InFlight == {a \in Callers : pc[a] # "idle"}

(* The spend ceiling: what has been spent together with the most the calls  *)
(* in flight can still cost stays below the ceiling and one call for each   *)
(* concurrent caller.                                                       *)
ExposureBounded ==
    MaxSpend > 0 =>
        spent + MaxCost * Cardinality(InFlight) < MaxSpend + MaxCost * Cardinality(Callers)

(* So the overshoot is at most one call for each concurrent caller.         *)
SpendBounded ==
    MaxSpend > 0 => spent < MaxSpend + MaxCost * Cardinality(Callers)

(* The rate ceiling: any MaxCalls + 1 consecutive calls take at least a     *)
(* whole window, failed calls included, however callers interleave.         *)
RateBounded ==
    MaxCalls > 0 =>
        \A i \in 1 .. Len(claimed) :
            i + MaxCalls <= Len(claimed) => claimed[i] + Window <= claimed[i + MaxCalls]

(* A call the limiter no longer remembers is out of the window, so its slot *)
(* is not given out again too early.                                        *)
ForgottenAreOld ==
    \A i \in 1 .. Len(claimed) : i \in recent \/ claimed[i] + Window <= clock

(* The limiter would refuse for rate exactly when the window is full, by    *)
(* all calls there ever were: no slot leaks and none is given out again too *)
(* early, whatever failed, was refused or was pruned before.                *)
RefusesExactlyWhenFull ==
    MaxCalls > 0 =>
        (RateExceeded <=> Cardinality({i \in 1 .. Len(claimed) : InWindow(i)}) >= MaxCalls)

(* Once the breaker has tripped no further call is let through.             *)
TrippedIsFinal ==
    [][tripped => \A a \in Callers : pc[a] = "idle" => pc'[a] = "idle"]_vars
=============================================================================
