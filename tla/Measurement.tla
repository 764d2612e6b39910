---------------------------- MODULE Measurement ----------------------------
(***************************************************************************)
(* A measurement run: RunStability, RunBatch and RunWording of             *)
(* internal/measure, as cmd/measure starts them behind a Limiter, and the  *)
(* analysis of the file a run leaves.  The three share one loop: for each  *)
(* size of request, repeat and message, wait for the pace, ask, write the  *)
(* response to the file and keep its probabilities.  Stability and wording *)
(* have one size.                                                          *)
(*                                                                         *)
(* A probability is its place in 0 .. TopProb.  Means are compared without *)
(* dividing.  The interests are the anchors of a request, which all sizes  *)
(* share; they are also the phrasings of one concept.  Of the limiter's    *)
(* client only the outcome matters.  Writes to the file succeed; the code  *)
(* ignores it when they do not.  Fillers, latencies and what is printed    *)
(* are left out.                                                           *)
(***************************************************************************)
EXTENDS Naturals, Sequences, FiniteSets, SequencesExt

CONSTANTS
    Messages,    \* the fixtures, a sequence
    Interests,
    SizeFlags,   \* what -sizes may be, as sequences of sizes
    RepeatFlags, \* what -repeats may be
    DefaultRepeats,
    BaseCost, QuestionCost,      \* the estimate of a request and of a question in it
    TopProb, Threshold,
    Interval,    \* MinInterval, in ticks
    Slack,       \* bound: ticks from a reading of the clock to the claim of a slot
    MaxSpend, MaxCalls, Window, Costs, MaxCost, MaxClock     \* the limiter's

\* parseSizes refuses a size below one but not one given twice; here there is none.
\* The pace is set from the ceiling with a margin, which covers the slack.
ASSUME MeasurementAssumption ==
    /\ Len(Messages) \in Nat \ {0} /\ DOMAIN Messages = 1 .. Len(Messages)
    /\ IsFiniteSet(Interests)
    /\ \A flag \in SizeFlags : flag \in Seq(Nat \ {0}) /\ IsInjective(flag)
    /\ RepeatFlags \subseteq Nat /\ DefaultRepeats \in Nat \ {0}
    /\ BaseCost \in Nat \ {0} /\ QuestionCost \in Nat
    /\ Threshold \in Nat /\ TopProb \in Nat
    /\ MaxSpend \in Nat /\ Costs \subseteq 0 .. MaxCost /\ MaxCost \in Nat
    /\ Interval \in Nat /\ Slack \in Nat /\ MaxCalls \in Nat /\ Window \in Nat
    /\ MaxCalls * Interval >= Window + Slack

VARIABLES
    clock, spent, tripped, recent, claimed, pc,    \* the limiter's
    sizes,    \* the sizes of request, ascending: one, of all questions, for M1 and M3
    repeats,  \* -repeats
    stage,    \* "flags", "planned", "pacing", "asking", then how the command ended
    step,     \* requests answered so far
    last,     \* when the latest request was due
    file,     \* the lines of the file
    obs       \* the probabilities of each size, message and interest

limiterVars == <<clock, spent, tripped, recent, claimed, pc>>
planVars == <<sizes, repeats>>
vars == <<limiterVars, planVars, stage, step, last, file, obs>>

Harness == "harness"
Limiter == INSTANCE Limiter WITH Callers <- {Harness}

Elements(s) == {s[i] : i \in DOMAIN s}
Probs == 0 .. TopProb

SumTo(f, n) ==
    LET sum[k \in 0 .. n] == IF k = 0 THEN 0 ELSE sum[k - 1] + f[k]
    IN  sum[n]

\* The values of f at the places S among the first n, in their order.
Picked(S, f, n) ==
    LET picked[k \in 0 .. n] ==
            IF k = 0 THEN <<>>
            ELSE IF k \in S THEN Append(picked[k - 1], f[k]) ELSE picked[k - 1]
    IN  picked[n]

\* What a response says of the anchors: some may be left out.
Answers == UNION {[some -> Probs] : some \in SUBSET Interests}

\* The experiments run the default when they are asked for no repeat.
Repeats == IF repeats = 0 THEN DefaultRepeats ELSE repeats

\* How many requests a run makes.
Total == Len(sizes) * Repeats * Len(Messages)

\* The size and the message of the n-th request.
SizeOf(n)    == sizes[((n - 1) \div (Repeats * Len(Messages))) + 1]
MessageOf(n) == Messages[((n - 1) % Len(Messages)) + 1]

Init ==
    /\ Limiter!Init
    /\ sizes = <<>> /\ repeats \in RepeatFlags
    /\ stage = "flags" /\ step = 0 /\ last = 0
    /\ file = <<>>
    /\ obs = <<>>

-----------------------------------------------------------------------------
(* The command, before the run.                                             *)

Estimate(size) == BaseCost + QuestionCost * size

CostOfSizes(requests) == SumTo([k \in DOMAIN sizes |-> requests * Estimate(sizes[k])], Len(sizes))
ProjectedOnce == CostOfSizes(Len(Messages))      \* mutated: without the repeats
Projected == CostOfSizes(repeats * Len(Messages))

\* sort.Ints; there is no size twice.
Sorted(flag) ==
    {s \in [DOMAIN flag -> Elements(flag)] :
        /\ Elements(s) = Elements(flag)
        /\ \A i, j \in DOMAIN s : i < j => s[i] < s[j]}

\* M1 and M3; M2 with its sizes, of which it needs two.
ReadFlags ==
    /\ stage = "flags"
    /\ \/ sizes' = <<Cardinality(Interests)>> /\ stage' = "planned"
       \/ \E flag \in SizeFlags :
             IF Len(flag) < 2
             THEN stage' = "refused" /\ UNCHANGED sizes
             ELSE stage' = "planned" /\ sizes' \in Sorted(flag)
    /\ UNCHANGED <<limiterVars, repeats, step, last, file, obs>>

DryRun ==
    /\ stage = "planned"
    /\ stage' = "dry"
    /\ UNCHANGED <<limiterVars, planVars, step, last, file, obs>>

\* The projection is over the ceiling, or there is no key or no file.
Decline ==
    /\ stage = "planned"
    /\ stage' = "refused"
    /\ UNCHANGED <<limiterVars, planVars, step, last, file, obs>>

Begin ==
    /\ stage = "planned"
    /\ Projected <= MaxSpend
    /\ stage' = "pacing"
    /\ obs' = [s \in Elements(sizes) |->
                  [m \in Elements(Messages) |-> [i \in Interests |-> <<>>]]]
    /\ UNCHANGED <<limiterVars, planVars, step, last, file>>

-----------------------------------------------------------------------------
(* The run.                                                                 *)

PaceRushed == step = 0 \/ clock >= last + Interval - 1      \* mutated: too soon
PaceKept   == step = 0 \/ clock >= last + Interval

Pace ==
    /\ stage = "pacing" /\ PaceKept
    /\ SizeOf(step + 1) >= Cardinality(Interests)
    /\ stage' = "asking" /\ last' = clock
    /\ UNCHANGED <<limiterVars, planVars, step, file, obs>>

\* The smallest request has no room for the anchors.
TooSmall ==
    /\ stage = "pacing" /\ SizeOf(step + 1) < Cardinality(Interests)
    /\ stage' = "failed"
    /\ UNCHANGED <<limiterVars, planVars, step, last, file, obs>>

\* The context ends before a request is due, or while the run waits for it.
Expire ==
    /\ stage = "pacing"
    /\ stage' = "failed"
    /\ UNCHANGED <<limiterVars, planVars, step, last, file, obs>>

Reserve ==
    /\ stage = "asking"
    /\ Limiter!Check(Harness) \/ Limiter!Claim(Harness)
    /\ UNCHANGED <<planVars, stage, step, last, file, obs>>

\* A refusal ends the run, and so does a call that fails.
Refused ==
    /\ stage = "asking"
    /\ Limiter!RefuseSpend(Harness) \/ Limiter!RefuseRate(Harness) \/ Limiter!CallFails(Harness)
    /\ stage' = "failed"
    /\ UNCHANGED <<planVars, step, last, file, obs>>

KeepMissing(before, probs) ==      \* mutated: no answer is kept as a zero
    [i \in Interests |-> Append(before[i], IF i \in DOMAIN probs THEN probs[i] ELSE 0)]

\* What the interests have been answered; some may be left out.
Keep(before, probs) ==
    [i \in Interests |-> IF i \in DOMAIN probs THEN Append(before[i], probs[i]) ELSE before[i]]

Line(s, m, probs) == [size |-> s, message |-> m, probs |-> probs]

\* The response: a line of the file, and the observations.
Answer ==
    /\ stage = "asking"
    /\ \E cost \in Costs : Limiter!Record(Harness, cost)
    /\ step' = step + 1
    /\ stage' = IF step' = Total THEN "reported" ELSE "pacing"
    /\ LET s == SizeOf(step')
           m == MessageOf(step')
       IN \E probs \in Answers :
            /\ file' = Append(file, Line(s, m, probs))
            /\ obs' = [obs EXCEPT ![s][m] = Keep(@, probs)]
    /\ UNCHANGED <<planVars, last>>

Tick ==
    /\ stage = "asking" /\ pc[Harness] # "calling" => clock < last + Slack
    /\ Limiter!Tick
    /\ UNCHANGED <<planVars, stage, step, last, file, obs>>

Next ==
    \/ ReadFlags \/ DryRun \/ Decline \/ Begin
    \/ Pace \/ TooSmall \/ Expire \/ Reserve \/ Refused \/ Answer \/ Tick

Spec == Init /\ [][Next]_vars

-----------------------------------------------------------------------------
(* The reports.                                                             *)

DeliveredIn(seen) == Cardinality({n \in DOMAIN seen : seen[n] >= Threshold})
Flips(seen)       == DeliveredIn(seen) \notin {0, Len(seen)}

\* RunStability: a case that does not flip, and contradicts what is expected of it.
Disagrees(seen, shouldDeliver) ==
    seen # <<>> /\ ~Flips(seen) /\ (DeliveredIn(seen) = Len(seen)) # shouldDeliver

Sum(seen) == SumTo(seen, Len(seen))
MeanDeliversOfAll(seen) == Sum(seen) >= Threshold * Repeats   \* mutated: mean of all repeats
MeanDelivers(seen) == Sum(seen) >= Threshold * Len(seen)

\* RunBatch: sizes at which the mean of a case delivers, and did not at the
\* first size, or the other way round.
DecisionChanged(s, m, i) ==
    /\ obs[s][m][i] # <<>>
    /\ MeanDelivers(obs[s][m][i])
         # (obs[sizes[1]][m][i] # <<>> /\ MeanDelivers(obs[sizes[1]][m][i]))

\* RunWording: all phrasings that were answered deliver, or none.
Agreed(s, m) ==
    \A i, j \in {k \in Interests : obs[s][m][k] # <<>>} :
        MeanDelivers(obs[s][m][i]) = MeanDelivers(obs[s][m][j])

\* analyseRecorded: the file's probabilities of a case, whatever their size.
ProbsOf(lines, i) == Picked(lines, [n \in lines |-> file[n].probs[i]], Len(file))
Analysed(m, i) ==
    ProbsOf({n \in DOMAIN file : file[n].message = m /\ i \in DOMAIN file[n].probs}, i)

\* The console's explorer: the repeats behind a cell of the matrix for a size,
\* and whether it counts the cell as unstable.
Cell(s, m, i) ==
    ProbsOf({n \in DOMAIN file : /\ file[n].size = s /\ file[n].message = m
                                 /\ i \in DOMAIN file[n].probs}, i)
Unstable(seen) ==
    /\ \E n \in DOMAIN seen : seen[n] >= Threshold
    /\ \E n \in DOMAIN seen : seen[n] < Threshold

-----------------------------------------------------------------------------
Begun == stage \in {"pacing", "asking", "reported", "failed"}

(* cmd/measure: the pace is there "to stay under" the rate ceiling, so that *)
(* the guard stays armed.  However late a request is, and however long the  *)
(* calls take, a paced run is never refused for its rate.                   *)
PacedRunsAreNotRefused ==
    [][stage = "asking" => ~Limiter!RefuseRate(Harness)]_vars

(* "A run happens once and can be re-analysed": the file gives an analysis  *)
(* the observations of the run, size after size, of a run that broke off as *)
(* well, and the explorer those of one size; so the same cases flip.        *)
ReplayAgrees ==
    Begun => \A m \in Elements(Messages), i \in Interests :
        /\ Analysed(m, i) = FlattenSeq([n \in DOMAIN sizes |-> obs[sizes[n]][m][i]])
        /\ \A s \in Elements(sizes) :
              /\ Cell(s, m, i) = obs[s][m][i]
              /\ Unstable(Cell(s, m, i)) <=> Flips(obs[s][m][i])

(* cmd/measure refuses a run whose projection is over the ceiling, so that  *)
(* the breaker does not stop one half way.  A run that was let through, and *)
(* has cost no more so far than its requests were estimated at, is never    *)
(* refused for its spend, not even one whose projection is the ceiling      *)
(* itself; unless -repeats is zero, for which the projection is nothing and *)
(* the run is the default one.                                              *)
Planned == SumTo([n \in 1 .. step |-> Estimate(SizeOf(n))], step)

RunsWithinEstimateAreNotRefused ==
    [][stage = "asking" /\ repeats > 0 /\ spent <= Planned =>
          ~Limiter!RefuseSpend(Harness)]_vars

OnBothSides(one, other) ==
    \E p \in Elements(one), q \in Elements(other) : (p >= Threshold) # (q >= Threshold)

(* What the reports call a change of decision is one: there are answers on  *)
(* both sides of the threshold, however many answers are missing.  It is so *)
(* for a case that flips, for one that a size of request changes, if the    *)
(* first size has an answer at all, and for phrasings that disagree.  And a *)
(* case that is reported against its expectation has no answer that meets   *)
(* it.                                                                      *)
ChangesCrossTheThreshold ==
    Begun => \A m \in Elements(Messages), s \in Elements(sizes) :
        /\ \A i \in Interests :
              /\ \A should \in BOOLEAN : Disagrees(obs[s][m][i], should) =>
                     \A p \in Elements(obs[s][m][i]) : (p >= Threshold) = ~should
              /\ Flips(obs[s][m][i]) <=> OnBothSides(obs[s][m][i], obs[s][m][i])
              /\ DecisionChanged(s, m, i) /\ obs[sizes[1]][m][i] # <<>> =>
                     OnBothSides(obs[sizes[1]][m][i], obs[s][m][i])
        /\ ~Agreed(s, m) => \E i, j \in Interests : OnBothSides(obs[s][m][i], obs[s][m][j])
=============================================================================
