--------------------------- MODULE SeedingProofs ---------------------------
(***************************************************************************)
(* Seeding over the store, for any number of instances that start.         *)
(***************************************************************************)
EXTENDS Seeding, InterestStoreProofs

SeedTypeOK ==
    /\ at \in [Seeders -> {"none", "looking", "writing"} \X Topics]
    /\ existing \in [Seeders -> BOOLEAN]
    /\ unwritten \in [Seeders -> SUBSET Conns]

\* An interest of a user that lookups find.
Users(t, c) == Routable(t, c) /\ predicate[<<t, c>>] # Demo

\* What a seeder that no user has overtaken knows of its topic: its lookup has
\* read every interest of a user there, and if it found nothing there is none.
Knows(w) ==
    /\ Doing(w, "looking") =>
          /\ call[w].op \in {"idle", "lookup", "prune"}
          /\ call[w].op = "lookup" =>
                /\ call[w].topic = Topic(w)
                /\ \A c \in Conns : Users(Topic(w), c) => c \in call[w].ids
          /\ call[w].op # "lookup" /\ ~existing[w] => \A c \in Conns : ~Users(Topic(w), c)
    /\ Doing(w, "writing") => \A c \in Conns : ~Users(Topic(w), c)

SeedInv == \A w \in Seeders \ touched : Knows(w)

\* Only a Set makes an interest routable or gives it another predicate.
LEMMA OnlyLess ==
    ASSUME TypeOK,
           \/ \E w \in Workers : Candidates(w) \/ Drop(w) \/ Abandon(w)
           \/ Tick
           \/ UNCHANGED vars,
           NEW t \in Topics, NEW c \in Conns
    PROVE  /\ Users(t, c)' => Users(t, c)
           /\ predicate'[<<t, c>>] \in {predicate[<<t, c>>], NoPredicate}
<1>0. <<t, c>> \in Keys
  BY DEF Keys
<1>1. CASE UNCHANGED redis
  BY <1>1 DEF Users, Routable, Live, redis
<1>2. ASSUME NEW w \in Workers, Prune(w)
      PROVE  /\ Users(t, c)' => Users(t, c)
             /\ predicate'[<<t, c>>] \in {predicate[<<t, c>>], NoPredicate}
  <2>1. index'[t] \subseteq index[t]
    BY <1>2 DEF Prune, TypeOK
  <2> QED
    BY <1>2, <2>1 DEF Users, Routable, Live, Prune
<1>3. ASSUME NEW w \in Workers, CommitDrop(w)
      PROVE  /\ Users(t, c)' => Users(t, c)
             /\ predicate'[<<t, c>>] \in {predicate[<<t, c>>], NoPredicate}
  <2>1. index'[t] \subseteq index[t]
    BY <1>3 DEF CommitDrop
  <2>2. /\ predicate'[<<t, c>>] \in {predicate[<<t, c>>], NoPredicate}
        /\ \/ predicate'[<<t, c>>] = predicate[<<t, c>>]
              /\ interestTTL'[<<t, c>>] = interestTTL[<<t, c>>]
           \/ interestTTL'[<<t, c>>] = 0
    BY <1>0, <1>3 DEF CommitDrop
  <2> QED
    BY <2>1, <2>2 DEF Users, Routable, Live
<1>4. ASSUME Tick
      PROVE  /\ Users(t, c)' => Users(t, c)
             /\ predicate'[<<t, c>>] \in {predicate[<<t, c>>], NoPredicate}
  <2>1. index'[t] \subseteq index[t]
    BY <1>4 DEF Tick
  <2>2. /\ interestTTL[<<t, c>>] \in Nat
        /\ interestTTL'[<<t, c>>] = Left(interestTTL[<<t, c>>])
        /\ predicate'[<<t, c>>] = IF interestTTL[<<t, c>>] <= 1 THEN NoPredicate
                                  ELSE predicate[<<t, c>>]
    BY <1>0, <1>4, StoreAssumption DEF Tick, TypeOK
  <2>3. interestTTL'[<<t, c>>] > 0 => interestTTL[<<t, c>>] > 1
    BY <2>2 DEF Left
  <2> QED
    BY <2>1, <2>2, <2>3 DEF Users, Routable, Live
<1> QED
  BY <1>1, <1>2, <1>3, <1>4
  DEF Candidates, Drop, ReadIndex, ReadInterests, ReadTopicsToDrop, Abandon, vars, redis

\* What Set does to the others' interests, and to its own.
LEMMA SetUsers ==
    ASSUME TypeOK, NEW u \in Topics, NEW d \in Conns, NEW p \in Predicates, Set(u, d, p),
           NEW t \in Topics, NEW c \in Conns
    PROVE  /\ <<t, c>> = <<u, d>> => predicate'[<<t, c>>] = p
           /\ <<t, c>> # <<u, d>> => predicate'[<<t, c>>] = predicate[<<t, c>>]
           /\ <<t, c>> # <<u, d>> \/ p = Demo => (Users(t, c)' => Users(t, c))
<1>1. <<t, c>> \in Keys /\ <<u, d>> \in Keys
  BY DEF Keys
<1>2. predicate'[<<t, c>>] = IF <<t, c>> = <<u, d>> THEN p ELSE predicate[<<t, c>>]
  BY <1>1 DEF Set, TypeOK
<1>3. interestTTL'[<<t, c>>] = IF <<t, c>> = <<u, d>> THEN TTL ELSE interestTTL[<<t, c>>]
  BY <1>1 DEF Set, TypeOK
<1>4. <<t, c>> # <<u, d>> => (c \in index'[t] => c \in index[t])
  BY DEF Set, TypeOK
<1> QED
  BY <1>2, <1>3, <1>4 DEF Users, Routable, Live

\* Each step is one of the store.
LEMMA SeedingStep ==
    ASSUME SeedTypeOK, [SeedingNext]_seedingVars
    PROVE  [Next]_vars
<1>1. CASE UNCHANGED seedingVars
  BY <1>1 DEF seedingVars
<1>2. ASSUME NEW w \in Seeders, Seed(w) PROVE [Next]_vars
  <2>0. w \in Workers
    BY SeedingAssumption
  <2>1. ASSUME NEW t \in Topics, LookUp(w, t) PROVE [Next]_vars
    BY <2>0, <2>1 DEF LookUp, Next, Candidates
  <2>2. ASSUME LookFurther(w) \/ LookFails(w) PROVE [Next]_vars
    BY <2>0, <2>2 DEF LookFurther, LookFails, Next, Candidates
  <2>3. ASSUME Decide(w) \/ FinishTopic(w) PROVE [Next]_vars
    BY <2>3 DEF Decide, FinishTopic
  <2>4. ASSUME NEW id \in Conns, WriteSeed(w, id) PROVE [Next]_vars
    <3>1. Topic(w) \in Topics
      BY DEF SeedTypeOK, Topic
    <3> QED
      BY <2>4, <3>1, SeedingAssumption DEF WriteSeed, Next
  <2> QED
    BY <1>2, <2>1, <2>2, <2>3, <2>4 DEF Seed
<1> QED
  BY <1>1, <1>2 DEF SeedingNext, UserSet, UserDrop, Next

LEMMA SeedTypeStep ==
    ASSUME SeedTypeOK, [SeedingNext]_seedingVars
    PROVE  SeedTypeOK'
<1>1. ASSUME NEW w \in Seeders, Seed(w) PROVE SeedTypeOK'
  <2>0. at[w] \in {"none", "looking", "writing"} \X Topics /\ Topic(w) \in Topics
    BY DEF SeedTypeOK, Topic
  <2>1. ASSUME NEW t \in Topics, LookUp(w, t) PROVE SeedTypeOK'
    BY <2>1, SeedingAssumption DEF LookUp, SeedTypeOK
  <2>2. ASSUME LookFurther(w) PROVE SeedTypeOK'
    BY <2>2 DEF LookFurther, SeedTypeOK
  <2>3. ASSUME LookFails(w) PROVE SeedTypeOK'
    BY <2>0, <2>3 DEF LookFails, SeedTypeOK
  <2>4. ASSUME Decide(w) PROVE SeedTypeOK'
    BY <2>0, <2>4, SeedingAssumption DEF Decide, SeedTypeOK, Topic
  <2>5. ASSUME NEW id \in Conns, WriteSeed(w, id) PROVE SeedTypeOK'
    BY <2>5 DEF WriteSeed, SeedTypeOK
  <2>6. ASSUME FinishTopic(w) PROVE SeedTypeOK'
    BY <2>0, <2>6 DEF FinishTopic, SeedTypeOK
  <2> QED
    BY <1>1, <2>1, <2>2, <2>3, <2>4, <2>5, <2>6 DEF Seed
<1>2. CASE UNCHANGED <<at, existing, unwritten>>
  BY <1>2 DEF SeedTypeOK
<1> QED
  BY <1>1, <1>2 DEF SeedingNext, UserSet, UserDrop, seedVars, seedingVars

\* A seeder's own steps.
LEMMA OwnStep ==
    ASSUME TypeOK, SeedTypeOK, NEW w \in Seeders, Seed(w), w \notin touched', SeedInv
    PROVE  Knows(w)'
<1>0. /\ w \in Workers /\ at[w] \in {"none", "looking", "writing"} \X Topics
      /\ Topic(w) \in Topics /\ call[w] \in Calls
  BY SeedingAssumption DEF SeedTypeOK, TypeOK, Topic
<1>1. ASSUME NEW t \in Topics, LookUp(w, t) PROVE Knows(w)'
  <2>1. CASE index[t] = {}
    <3>1. Doing(w, "writing")' /\ ~Doing(w, "looking")' /\ Topic(w)' = t /\ UNCHANGED vars
      BY <1>1, <2>1 DEF LookUp, SeedTypeOK, Doing, Topic
    <3>2. \A c \in Conns : ~Users(t, c)'
      BY <2>1, <3>1 DEF Users, Routable, vars
    <3> QED
      BY <3>1, <3>2 DEF Knows
  <2>2. CASE index[t] # {}
    <3>1. /\ Doing(w, "looking")' /\ ~Doing(w, "writing")' /\ Topic(w)' = t
          /\ ReadIndex(w, t)
      BY <1>1, <2>2 DEF LookUp, SeedTypeOK, Doing, Topic
    <3>2. /\ call'[w] = [op |-> "lookup", topic |-> t, ids |-> index[t]]
          /\ UNCHANGED redis
      BY <1>0, <3>1 DEF ReadIndex, Begin, TypeOK
    <3>3. \A c \in Conns : Users(t, c)' => c \in index[t]
      BY <3>2 DEF Users, Routable, redis
    <3> QED
      BY <3>1, <3>2, <3>3 DEF Knows
  <2> QED
    BY <2>1, <2>2
<1>2. ASSUME Doing(w, "looking") \/ Doing(w, "writing"), w \notin touched PROVE Knows(w)
  BY <1>2 DEF SeedInv
<1>3. ASSUME LookFurther(w) PROVE Knows(w)'
  <2>1. /\ Doing(w, "looking") /\ at' = at /\ Knows(w)
        /\ Doing(w, "looking")' /\ ~Doing(w, "writing")' /\ Topic(w)' = Topic(w)
    BY <1>2, <1>3 DEF LookFurther, Doing, Topic
  <2>2. CASE ReadInterests(w) /\ existing' = [existing EXCEPT ![w] = Found(w) # {}]
    <3>1. /\ call[w].op = "lookup" /\ UNCHANGED redis
          /\ call'[w].op \in {"idle", "prune"}
          /\ existing'[w] = (Found(w) # {})
      BY <1>0, <2>2 DEF ReadInterests, Continue, Idle, TypeOK, SeedTypeOK
    <3>2. ASSUME NEW c \in Conns, Users(Topic(w), c) PROVE existing'[w]
      BY <2>1, <3>1, <3>2 DEF Knows, Found, Users, Routable
    <3>3. \A c \in Conns : Users(Topic(w), c)' => Users(Topic(w), c)
      BY <2>1, <3>1 DEF Users, Routable, Live, redis, Topic
    <3> QED
      BY <2>1, <3>1, <3>2, <3>3 DEF Knows, Topic
  <2>3. CASE (Prune(w) \/ (call[w].op = "prune" /\ Abandon(w))) /\ UNCHANGED existing
    <3>1. call[w].op = "prune" /\ call'[w].op = "idle"
      BY <1>0, <2>3 DEF Prune, Abandon, Continue, Idle, TypeOK
    <3>2. \A c \in Conns : Users(Topic(w), c)' => Users(Topic(w), c)
      <4>1. \A t \in Topics, c \in Conns : Users(t, c)' => Users(t, c)
        BY <1>0, <2>3, OnlyLess DEF Candidates
      <4> QED
        BY <1>0, <2>1, <4>1 DEF Topic
    <3> QED
      BY <2>1, <2>3, <3>1, <3>2 DEF Knows, Topic
  <2> QED
    BY <1>3, <2>2, <2>3 DEF LookFurther
<1>4. ASSUME LookFails(w) PROVE Knows(w)'
  <2>1. ~Doing(w, "looking")' /\ ~Doing(w, "writing")'
    BY <1>0, <1>4 DEF LookFails, SeedTypeOK, Doing
  <2> QED
    BY <2>1 DEF Knows
<1>5. ASSUME Decide(w) PROVE Knows(w)'
  <2>1. /\ Doing(w, "looking") /\ call[w].op = "idle" /\ UNCHANGED vars /\ Knows(w)
        /\ ~Doing(w, "looking")' /\ Topic(w)' = Topic(w)
        /\ Doing(w, "writing")' => ~existing[w]
    BY <1>0, <1>2, <1>5 DEF Decide, SeedTypeOK, Doing, Topic, Idle
  <2>2. Doing(w, "writing")' => \A c \in Conns : ~Users(Topic(w), c)
    BY <2>1 DEF Knows
  <2>3. \A c \in Conns : Users(Topic(w), c)' => Users(Topic(w), c)
    BY <2>1 DEF Users, Routable, Live, vars, Topic
  <2> QED
    BY <2>1, <2>2, <2>3 DEF Knows
<1>6. ASSUME NEW id \in Conns, WriteSeed(w, id) PROVE Knows(w)'
  <2>1. /\ Doing(w, "writing") /\ at' = at /\ Knows(w)
        /\ ~Doing(w, "looking")' /\ Doing(w, "writing")'
    BY <1>2, <1>6 DEF WriteSeed, Doing
  <2>2. \A c \in Conns : Users(Topic(w), c)' => Users(Topic(w), c)
    <3>1. CASE UNCHANGED vars
      BY <2>1, <3>1 DEF Users, Routable, Live, vars, Topic
    <3>2. CASE Set(Topic(w), id, Demo)
      <4>1. \A t \in Topics, c \in Conns : Users(t, c)' => Users(t, c)
        BY <1>0, <3>2, SetUsers, SeedingAssumption
      <4> QED
        BY <1>0, <2>1, <4>1 DEF Topic
    <3> QED
      BY <1>6, <3>1, <3>2 DEF WriteSeed
  <2> QED
    BY <2>1, <2>2 DEF Knows, Topic
<1>7. ASSUME FinishTopic(w) PROVE Knows(w)'
  <2>1. ~Doing(w, "looking")' /\ ~Doing(w, "writing")'
    BY <1>0, <1>7 DEF FinishTopic, SeedTypeOK, Doing
  <2> QED
    BY <2>1 DEF Knows
<1> QED
  BY <1>1, <1>3, <1>4, <1>5, <1>6, <1>7 DEF Seed

\* What a seeder knows lasts, while its topic gains no interest of a user.
LEMMA KnowsKept ==
    ASSUME NEW w \in Seeders, Knows(w), UNCHANGED <<at[w], existing[w], call[w]>>,
           \A c \in Conns : Users(Topic(w), c)' => Users(Topic(w), c)
    PROVE  Knows(w)'
<1>1. Topic(w)' = Topic(w) /\ \A what : Doing(w, what)' <=> Doing(w, what)
  BY DEF Topic, Doing
<1> QED
  BY <1>1 DEF Knows

\* A call changes by the hand of its goroutine alone.
LEMMA CallsOfOthers ==
    ASSUME TypeOK, NEW v \in Workers, NEW w \in Workers \ {v},
           Candidates(v) \/ Drop(v) \/ Abandon(v)
    PROVE  call'[w] = call[w]
  BY DEF Candidates, Drop, Abandon, ReadIndex, ReadInterests, Prune, ReadTopicsToDrop,
         CommitDrop, Begin, Continue, TypeOK

LEMMA OthersStep ==
    ASSUME TypeOK, SeedTypeOK, SeedInv, [SeedingNext]_seedingVars,
           NEW w \in Seeders, ~Seed(w), w \notin touched'
    PROVE  Knows(w)'
<1>0. w \in Workers /\ Topic(w) \in Topics /\ Demo \in Predicates
  BY SeedingAssumption DEF SeedTypeOK, Topic
<1>1. w \notin touched /\ Knows(w)
  BY DEF SeedInv, SeedingNext, Seed, LookUp, BeginTopic, LookFurther, LookFails, Decide, WriteSeed,
         FinishTopic, UserSet, UserDrop, seedVars, seedingVars
<1>2. ASSUME NEW t \in Topics, NEW c \in Conns, NEW p \in Predicates, UserSet(t, c, p)
      PROVE  Knows(w)'
  <2>1. /\ Set(t, c, p) /\ UNCHANGED <<at, existing, call>>
        /\ Doing(w, "none") \/ Topic(w) # t
    BY <1>2 DEF UserSet, Set
  <2>2. CASE Topic(w) # t
    <3>1. \A d \in Conns : Users(Topic(w), d)' => Users(Topic(w), d)
      <4>1. \A u \in Topics, d \in Conns : u # t => (Users(u, d)' => Users(u, d))
        BY <2>1, SetUsers
      <4> QED
        BY <1>0, <2>1, <2>2, <4>1 DEF Topic
    <3> QED
      BY <1>1, <2>1, <3>1, KnowsKept
  <2>3. CASE Doing(w, "none")
    BY <2>1, <2>3 DEF Knows, Doing
  <2> QED
    BY <2>1, <2>2, <2>3
<1>3. ASSUME UNCHANGED <<at[w], existing[w], call[w]>>,
             \A t \in Topics, c \in Conns : Users(t, c)' => Users(t, c)
      PROVE  Knows(w)'
  <2>1. \A c \in Conns : Users(Topic(w), c)' => Users(Topic(w), c)
    BY <1>0, <1>3 DEF Topic
  <2> QED
    BY <1>1, <1>3, <2>1, KnowsKept
<1>4. ASSUME NEW v \in Seeders, Seed(v) PROVE Knows(w)'
  <2>0. v \in Workers /\ w # v /\ Topic(v) \in Topics
    BY <1>4, SeedingAssumption DEF SeedTypeOK, Topic
  <2>1. UNCHANGED <<at[w], existing[w]>>
    BY <1>4, <2>0
    DEF Seed, LookUp, LookFurther, LookFails, Decide, WriteSeed, FinishTopic, SeedTypeOK
  <2>2. CASE Candidates(v) \/ Abandon(v) \/ UNCHANGED vars
    <3>1. call'[w] = call[w]
      BY <1>0, <2>0, <2>2, CallsOfOthers DEF vars
    <3>2. \A t \in Topics, c \in Conns : Users(t, c)' => Users(t, c)
      BY <2>0, <2>2, OnlyLess
    <3> QED
      BY <1>3, <2>1, <3>1, <3>2
  <2>3. ASSUME NEW id \in Conns, Set(Topic(v), id, Demo) PROVE Knows(w)'
    <3>1. call' = call
      BY <2>3 DEF Set
    <3>2. \A t \in Topics, c \in Conns : Users(t, c)' => Users(t, c)
      BY <1>0, <2>0, <2>3, SetUsers
    <3> QED
      BY <1>3, <2>1, <3>1, <3>2
  <2> QED
    BY <1>4, <2>2, <2>3
    DEF Seed, LookUp, LookFurther, LookFails, Decide, WriteSeed, FinishTopic, Candidates
<1>5. ASSUME NEW v \in Workers, UserDrop(v) PROVE Knows(w)'
  <2>1. Drop(v) /\ v # w /\ UNCHANGED <<at, existing>>
    BY <1>5 DEF UserDrop, seedVars
  <2>2. call'[w] = call[w]
    BY <1>0, <2>1, CallsOfOthers
  <2>3. \A t \in Topics, c \in Conns : Users(t, c)' => Users(t, c)
    BY <2>1, OnlyLess
  <2> QED
    BY <1>3, <2>1, <2>2, <2>3
<1>6. ASSUME Tick, UNCHANGED seedVars PROVE Knows(w)'
  <2>1. \A t \in Topics, c \in Conns : Users(t, c)' => Users(t, c)
    BY <1>6, OnlyLess
  <2> QED
    BY <1>3, <1>6, <2>1 DEF seedVars, Tick
<1>7. CASE UNCHANGED seedingVars
  <2>1. \A t \in Topics, c \in Conns : Users(t, c)' => Users(t, c)
    BY <1>7, OnlyLess DEF seedingVars
  <2> QED
    BY <1>3, <1>7, <2>1 DEF seedVars, seedingVars, vars
<1> QED
  BY <1>2, <1>4, <1>5, <1>6, <1>7 DEF SeedingNext

LEMMA SeedInvCorrect == SeedingSpec => [](TypeOK /\ SeedTypeOK /\ SeedInv)
<1>1. SeedingInit => TypeOK /\ SeedTypeOK /\ SeedInv
  <2> SUFFICES ASSUME SeedingInit PROVE TypeOK /\ SeedTypeOK /\ SeedInv
    OBVIOUS
  <2>1. TypeOK
    BY InitType DEF SeedingInit
  <2>2. SeedTypeOK
    BY DEF SeedingInit, SeedTypeOK
  <2>3. \A w \in Seeders : Doing(w, "none")
    BY DEF SeedingInit, Doing
  <2> QED
    BY <2>1, <2>2, <2>3 DEF SeedInv, Knows, Doing
<1>2. TypeOK /\ SeedTypeOK /\ SeedInv /\ [SeedingNext]_seedingVars
      => TypeOK' /\ SeedTypeOK' /\ SeedInv'
  <2> SUFFICES ASSUME TypeOK, SeedTypeOK, SeedInv, [SeedingNext]_seedingVars
               PROVE  TypeOK' /\ SeedTypeOK' /\ SeedInv'
    OBVIOUS
  <2>1. TypeOK'
    BY SeedingStep, TypeStep
  <2>2. ASSUME NEW w \in Seeders, w \notin touched' PROVE Knows(w)'
    BY <2>2, OwnStep, OthersStep
  <2> QED
    BY <2>1, <2>2, SeedTypeStep DEF SeedInv
<1> QED
  BY <1>1, <1>2, PTL DEF SeedingSpec

(* A seeder overwrites what a user registered only if the user did so after *)
(* the topic's lookup began, or if a prune that a Set overlapped had hidden *)
(* it from the index: however many instances seed at a time, and whatever   *)
(* of their commands fail.                                                  *)
THEOREM SeedingCorrect == SeedingSpec => OverwritesAreRaces
<1>1. TypeOK /\ SeedTypeOK /\ SeedInv /\ [SeedingNext]_seedingVars =>
         [\A t \in Topics, c \in Conns : Overwrites(t, c) =>
             \E w \in Seeders : WriteSeed(w, c) /\ Topic(w) = t
                                /\ (w \in touched \/ ~Routable(t, c))]_seedingVars
  <2> SUFFICES ASSUME TypeOK, SeedTypeOK, SeedInv, SeedingNext,
                      NEW t \in Topics, NEW c \in Conns, Overwrites(t, c)
               PROVE  \E w \in Seeders : WriteSeed(w, c) /\ Topic(w) = t
                                         /\ (w \in touched \/ ~Routable(t, c))
    BY DEF Overwrites, seedingVars, vars
  <2>1. /\ predicate[<<t, c>>] # Demo /\ predicate'[<<t, c>>] = Demo
        /\ Demo \in Predicates /\ Demo # NoPredicate
    BY SeedingAssumption, StoreAssumption DEF Overwrites
  <2>2. ~ \/ \E w \in Workers : Candidates(w) \/ Drop(w) \/ Abandon(w)
          \/ Tick
          \/ UNCHANGED vars
    BY <2>1, OnlyLess
  <2>3. ASSUME NEW u \in Topics, NEW d \in Conns, NEW p \in Predicates, Set(u, d, p)
        PROVE  u = t /\ d = c /\ p = Demo
    <3>1. /\ <<t, c>> = <<u, d>> => predicate'[<<t, c>>] = p
          /\ <<t, c>> # <<u, d>> => predicate'[<<t, c>>] = predicate[<<t, c>>]
      BY <2>3, SetUsers
    <3> QED
      BY <2>1, <3>1
  <2>4. PICK w \in Seeders : Seed(w)
    BY <2>2, <2>3 DEF SeedingNext, UserSet, UserDrop
  <2>5. PICK id \in Conns : WriteSeed(w, id) /\ Set(Topic(w), id, Demo)
    BY <2>2, <2>4, SeedingAssumption
    DEF Seed, LookUp, LookFurther, LookFails, Decide, WriteSeed, FinishTopic, Candidates
  <2>6. Topic(w) = t /\ id = c
    <3>1. Topic(w) \in Topics
      BY DEF SeedTypeOK, Topic
    <3> QED
      BY <2>1, <2>3, <2>5, <3>1
  <2>7. w \in touched \/ ~Routable(t, c)
    BY <2>1, <2>5, <2>6 DEF SeedInv, Knows, Users, WriteSeed
  <2> QED
    BY <2>5, <2>6, <2>7
<1> QED
  BY <1>1, SeedInvCorrect, PTL DEF SeedingSpec, OverwritesAreRaces
=============================================================================
