------------------------------ MODULE Seeding ------------------------------
(***************************************************************************)
(* internal/app/seed.go: at its start an instance registers demonstration  *)
(* subscribers for each configured topic that has none.  It looks a topic  *)
(* up with the store's Candidates and then writes the topic's seeds one    *)
(* after the other; other instances start, and users register and remove   *)
(* interests, at the same time.  The store is InterestStore; each seeder   *)
(* is one of its workers.                                                  *)
(*                                                                         *)
(* A failed lookup skips the topic and a failed write skips the seed; the  *)
(* expiry of the ten seconds all this has fails whatever is left.  Topics  *)
(* without seeds are not looked at and are left out of Topics.             *)
(***************************************************************************)
EXTENDS InterestStore

CONSTANTS Seeders,   \* the workers that seed, one for each instance that starts
          Seeds,     \* the demonstration subscribers of each topic
          Demo       \* the predicate of a seed; users register others

ASSUME SeedingAssumption ==
    /\ Seeders \subseteq Workers
    /\ Seeds \in [Topics -> SUBSET Conns]
    /\ Demo \in Predicates

VARIABLES
    todo,      \* the topics each seeder has still to look at
    at,        \* the topic it is at, once its lookup began
    unwritten, \* the seeds it has still to write there
    existing,  \* whether its lookup found an interest
    touched    \* history: seeders whose topic a user wrote to since the lookup

seedVars == <<todo, at, unwritten, existing, touched>>
seedingVars == <<vars, seedVars>>

SeedingInit ==
    /\ Init
    /\ todo = [w \in Seeders |-> Topics]
    /\ at \in [Seeders -> {"none"} \X Topics]
    /\ unwritten = [w \in Seeders |-> {}]
    /\ existing = [w \in Seeders |-> FALSE]
    /\ touched = {}

Doing(w, what) == at[w][1] = what
Topic(w)       == at[w][2]

BeginTopic(w, t) ==
    /\ Doing(w, "none") /\ t \in todo[w]
    /\ todo' = [todo EXCEPT ![w] = @ \ {t}]
    /\ touched' = touched \ {w}

\* Candidates begins.  An empty index is its answer.
LookUp(w, t) ==
    /\ BeginTopic(w, t)
    /\ existing' = [existing EXCEPT ![w] = FALSE]
    /\ IF index[t] = {}
       THEN /\ at' = [at EXCEPT ![w] = <<"writing", t>>]
            /\ unwritten' = [unwritten EXCEPT ![w] = Seeds[t]]
            /\ UNCHANGED vars
       ELSE /\ ReadIndex(w, t)
            /\ at' = [at EXCEPT ![w] = <<"looking", t>>]
            /\ UNCHANGED unwritten

LookFurther(w) ==
    /\ Doing(w, "looking")
    /\ \/ ReadInterests(w) /\ existing' = [existing EXCEPT ![w] = Found(w) # {}]
       \/ Prune(w) /\ UNCHANGED existing
       \/ call[w].op = "prune" /\ Abandon(w) /\ UNCHANGED existing
    /\ UNCHANGED <<todo, at, unwritten, touched>>

\* The lookup itself fails.
LookFails(w) ==
    /\ Doing(w, "looking") /\ call[w].op = "lookup"
    /\ Abandon(w)
    /\ at' = [at EXCEPT ![w][1] = "none"]
    /\ UNCHANGED <<todo, unwritten, existing, touched>>

DecideBlindly(w) ==      \* mutated: existing interests are not asked for
    /\ Doing(w, "looking") /\ call[w] = Idle
    /\ at' = [at EXCEPT ![w][1] = "writing"]
    /\ unwritten' = [unwritten EXCEPT ![w] = Seeds[Topic(w)]]
    /\ UNCHANGED <<vars, todo, existing, touched>>

\* The lookup is over: seed the topic, or leave it alone.
Decide(w) ==
    /\ Doing(w, "looking") /\ call[w] = Idle
    /\ at' = [at EXCEPT ![w][1] = IF existing[w] THEN "none" ELSE "writing"]
    /\ unwritten' = [unwritten EXCEPT ![w] = IF existing[w] THEN {} ELSE Seeds[Topic(w)]]
    /\ UNCHANGED <<vars, todo, existing, touched>>

WriteSeed(w, id) ==
    /\ Doing(w, "writing") /\ id \in unwritten[w]
    /\ unwritten' = [unwritten EXCEPT ![w] = @ \ {id}]
    /\ Set(Topic(w), id, Demo) \/ UNCHANGED vars      \* or the write failed
    /\ UNCHANGED <<todo, at, existing, touched>>

FinishTopic(w) ==
    /\ Doing(w, "writing") /\ unwritten[w] = {}
    /\ at' = [at EXCEPT ![w][1] = "none"]
    /\ UNCHANGED <<vars, todo, unwritten, existing, touched>>

Seed(w) ==
    \/ \E t \in Topics : LookUp(w, t)
    \/ LookFurther(w) \/ LookFails(w) \/ Decide(w)
    \/ \E id \in Conns : WriteSeed(w, id)
    \/ FinishTopic(w)

-----------------------------------------------------------------------------
(* Users, through consoles of other instances and through sockets.          *)
UserSet(t, c, p) ==
    /\ p # Demo
    /\ Set(t, c, p)
    /\ touched' = touched \cup {w \in Seeders : ~Doing(w, "none") /\ Topic(w) = t}
    /\ UNCHANGED <<todo, at, unwritten, existing>>

UserDrop(w) ==
    /\ w \in Workers \ Seeders
    /\ Drop(w)
    /\ UNCHANGED seedVars

SeedingNext ==
    \/ \E w \in Seeders : Seed(w)
    \/ \E t \in Topics, c \in Conns, p \in Predicates : UserSet(t, c, p)
    \/ \E w \in Workers : UserDrop(w)
    \/ Tick /\ UNCHANGED seedVars

SeedingSpec == SeedingInit /\ [][SeedingNext]_seedingVars

-----------------------------------------------------------------------------
Overwrites(t, c) ==
    Live(t, c) /\ predicate[<<t, c>>] # Demo /\ predicate'[<<t, c>>] = Demo

(* A seeder overwrites what a user registered only if the user did so after *)
(* the topic's lookup began, or if a prune that a Set overlapped had hidden *)
(* it from the index: however many instances seed at a time.                *)
OverwritesAreRaces ==
    [][\A t \in Topics, c \in Conns : Overwrites(t, c) =>
          \E w \in Seeders : WriteSeed(w, c) /\ Topic(w) = t
                             /\ (w \in touched \/ ~Routable(t, c))]_seedingVars
=============================================================================
