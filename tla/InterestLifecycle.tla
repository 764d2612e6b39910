------------------------- MODULE InterestLifecycle -------------------------
(***************************************************************************)
(* Who keeps the interests of InterestStore alive, and who removes them:   *)
(* one instance (internal/app/app.go), the sockets it holds, its refresher *)
(* (internal/app/refresher.go) and the console, which registers ids of its *)
(* own that no refresher tracks.                                           *)
(*                                                                         *)
(* The store's operations are InterestStore's; this module says which of   *)
(* them run, when.  The goroutine Refresher runs the sweeps, the others    *)
(* run Candidates for publishes and Drop for disconnects and the console.  *)
(* A connection id is never used again, so a socket has one life.          *)
(***************************************************************************)
EXTENDS InterestStore

CONSTANTS Sockets,    \* the Conns that are sockets; the others are console ids
          Refresher,  \* the worker that runs refresher.run
          Second,     \* a second, in ticks: the least refresh interval
          Lag,        \* bound: ticks a sweep may be late, from firing to its end
          MaxMisses,  \* bound: refreshes of a connection that fail in a row
          Drain       \* bound: ticks that sockets stay open once the server stops

ASSUME LifecycleAssumption ==
    /\ Sockets \subseteq Conns
    /\ Refresher \in Workers
    /\ Second \in Nat \ {0} /\ Lag \in Nat /\ MaxMisses \in Nat
    /\ Drain \in Nat

VARIABLES
    status,   \* each socket: "new", "open", "leaving" (in OnDisconnect) or "gone"
    tracked,  \* refresher.conns
    due,      \* ticks until the ticker fires
    fired,    \* the ticker's channel holds a tick
    stopped,  \* the context of Run is cancelled
    sweep,    \* the ids refreshAll has still to refresh
    lag,      \* history: ticks since the ticker fired, while the sweep is not over
    drained,  \* history: ticks since the context was cancelled, while a socket is open
    misses,   \* history: refreshes missed in a row, per socket, until the context ends
    held,     \* history: what open sockets have registered
    goneFor   \* history: ticks since a socket went, up to TTL + Lag

stopVars == <<stopped, drained>>
appVars == <<status, tracked, due, fired, sweep, lag, misses, held, goneFor, stopVars>>
allVars == <<vars, appVars>>

IntervalOfTTL == TTL      \* mutated: one refresh per TTL

Interval == IF TTL \div 3 < Second THEN Second ELSE TTL \div 3

LifecycleInit ==
    /\ Init
    /\ status = [s \in Sockets |-> "new"]
    /\ tracked = {}
    /\ due = Interval
    /\ fired = FALSE
    /\ sweep = {}
    /\ lag = 0
    /\ misses = [s \in Sockets |-> 0]
    /\ held = {}
    /\ goneFor = [s \in Sockets |-> 0]
    /\ stopped = FALSE /\ drained = 0

Sweeping == sweep # {} \/ call[Refresher] # Idle

Become(s, state) == status' = [status EXCEPT ![s] = state]

-----------------------------------------------------------------------------
(* Sockets                                                                  *)

\* OnConnect: the refresher tracks the connection.
Connect(s) ==
    /\ status[s] = "new" /\ ~stopped
    /\ Become(s, "open")
    /\ tracked' = tracked \cup {s}
    /\ UNCHANGED <<vars, due, fired, sweep, lag, misses, held, goneFor, stopVars>>

\* interestHandler: a frame of an open socket registers an interest.
Register(t, s, p) ==
    /\ status[s] = "open"
    /\ Set(t, s, p)
    /\ held' = held \cup {<<t, s>>}
    /\ UNCHANGED <<status, tracked, due, fired, sweep, lag, misses, goneFor, stopVars>>

\* OnDisconnect: untrack, then drop.
DisconnectTracked(s) ==      \* mutated: the refresher keeps the connection
    /\ status[s] = "open"
    /\ Become(s, "leaving")
    /\ held' = {k \in held : k[2] # s}
    /\ UNCHANGED <<vars, tracked, due, fired, sweep, lag, misses, goneFor, stopVars>>

Disconnect(s) ==
    /\ status[s] = "open"
    /\ Become(s, "leaving")
    /\ tracked' = tracked \ {s}
    /\ held' = {k \in held : k[2] # s}
    /\ UNCHANGED <<vars, due, fired, sweep, lag, misses, goneFor, stopVars>>

DropOf(s) == {w \in Workers : call[w].op = "drop" /\ call[w].conn = s}

StartDrop(w, s) ==
    /\ status[s] = "leaving" /\ DropOf(s) = {}
    /\ ReadTopicsToDrop(w, s)
    /\ UNCHANGED appVars

FinishDrop(w, s) ==
    /\ w \in DropOf(s)
    /\ CommitDrop(w) \/ Abandon(w)      \* a failure is only logged
    /\ Become(s, "gone")
    /\ UNCHANGED <<tracked, due, fired, sweep, lag, misses, held, goneFor, stopVars>>

\* The first command of the drop fails.
DropFails(s) ==
    /\ status[s] = "leaving" /\ DropOf(s) = {}
    /\ Become(s, "gone")
    /\ UNCHANGED <<vars, tracked, due, fired, sweep, lag, misses, held, goneFor, stopVars>>

-----------------------------------------------------------------------------
(* The refresher                                                            *)

StartSweep ==
    /\ fired /\ ~Sweeping /\ ~stopped
    /\ fired' = FALSE
    /\ sweep' = tracked
    /\ lag' = IF tracked = {} THEN 0 ELSE lag
    /\ UNCHANGED <<vars, status, tracked, due, misses, held, goneFor, stopVars>>

\* The sweep's next id.  Refresh of a connection without topics does nothing.
RefreshNext(s) ==
    /\ s \in sweep /\ call[Refresher] = Idle
    /\ sweep' = sweep \ {s}
    /\ IF topicsOf[s] = {}
       THEN UNCHANGED vars /\ lag' = (IF sweep' = {} THEN 0 ELSE lag)
       ELSE ReadTopicsToRefresh(Refresher, s) /\ UNCHANGED lag
    /\ UNCHANGED <<status, tracked, due, fired, misses, held, goneFor, stopVars>>

RefreshStep ==
    /\ \E t \in Topics : ExtendInterest(Refresher, t) \/ ExtendIndex(Refresher, t)
    /\ UNCHANGED appVars

RefreshDone ==
    /\ ExtendConn(Refresher)
    /\ misses' = [s \in Sockets |-> IF s = call[Refresher].conn THEN 0 ELSE misses[s]]
    /\ lag' = IF sweep = {} THEN 0 ELSE lag
    /\ UNCHANGED <<status, tracked, due, fired, sweep, held, goneFor, stopVars>>

\* A failed refresh is logged and the sweep goes on.  A pipeline that fails half
\* way has renewed some of the keys.  All fail once the context is cancelled.
RefreshFails ==
    /\ call[Refresher].op \in {"refresh", "extend"}
    /\ Abandon(Refresher)
    /\ \/ stopped /\ UNCHANGED misses
       \/ /\ ~stopped
          /\ misses[call[Refresher].conn] < MaxMisses
          /\ misses' = [misses EXCEPT ![call[Refresher].conn] = @ + 1]
    /\ lag' = IF sweep = {} THEN 0 ELSE lag
    /\ UNCHANGED <<status, tracked, due, fired, sweep, held, goneFor, stopVars>>

\* An interrupt: run returns at its next select, and the server closes its sockets
\* one by one, each with its OnDisconnect.
Stop ==
    /\ ~stopped
    /\ stopped' = TRUE
    /\ sweep' = {} /\ fired' = FALSE /\ due' = Interval
    /\ misses' = [s \in Sockets |-> 0]
    /\ lag' = IF call[Refresher] = Idle THEN 0 ELSE lag
    /\ UNCHANGED <<vars, status, tracked, held, goneFor, drained>>

Draining == stopped /\ \E s \in Sockets : status[s] = "open"

\* Time passes.  The ticker's channel holds one tick, and those that find it
\* full are lost.
LifecycleTick ==
    /\ Tick
    /\ fired \/ Sweeping => lag < Lag
    /\ lag' = IF fired \/ Sweeping THEN lag + 1 ELSE 0
    /\ IF stopped
       THEN UNCHANGED <<due, fired>>
       ELSE /\ due' = IF due = 1 THEN Interval ELSE due - 1
            /\ fired' = (fired \/ due = 1)
    /\ Draining => drained < Drain
    /\ drained' = IF Draining THEN drained + 1 ELSE drained
    /\ goneFor' = [s \in Sockets |->
                      IF status[s] = "gone" /\ goneFor[s] < TTL + Lag
                      THEN goneFor[s] + 1 ELSE goneFor[s]]
    /\ UNCHANGED <<status, tracked, sweep, misses, held, stopped>>

-----------------------------------------------------------------------------
(* The instance is killed: its sockets go without a Drop, and its calls end *)
(* where they are.                                                          *)
Crash ==
    /\ \E s \in Sockets : status[s] \in {"open", "leaving"}
    /\ status' = [s \in Sockets |-> IF status[s] = "new" THEN "new" ELSE "gone"]
    /\ tracked' = {} /\ held' = {} /\ sweep' = {} /\ fired' = FALSE /\ lag' = 0
    /\ call' = [w \in Workers |-> Idle]
    /\ UNCHANGED <<redis, raced, due, misses, goneFor, stopVars>>

(* Publishes, on any instance, and the console's subscribers.               *)
Publish(w) ==
    /\ w # Refresher
    /\ Candidates(w) \/ (call[w].op \in {"lookup", "prune"} /\ Abandon(w))
    /\ UNCHANGED appVars

ConsoleSet(t, k, p) ==
    /\ k \in Conns \ Sockets
    /\ Set(t, k, p)
    /\ UNCHANGED appVars

ConsoleDelete(w, k) ==
    /\ w # Refresher /\ k \in Conns \ Sockets
    /\ \/ ReadTopicsToDrop(w, k)
       \/ w \in DropOf(k) /\ (CommitDrop(w) \/ Abandon(w))
    /\ UNCHANGED appVars

SocketStep(s) ==
    \/ Connect(s) \/ Disconnect(s) \/ DropFails(s)
    \/ \E t \in Topics, p \in Predicates : Register(t, s, p)
    \/ \E w \in Workers \ {Refresher} : StartDrop(w, s) \/ FinishDrop(w, s)

Sweep == StartSweep \/ (\E s \in Sockets : RefreshNext(s)) \/ RefreshStep \/ RefreshDone
         \/ RefreshFails

LifecycleNext ==
    \/ \E s \in Sockets : SocketStep(s)
    \/ Sweep
    \/ LifecycleTick
    \/ Stop \/ Crash
    \/ \E w \in Workers : Publish(w)
    \/ \E k \in Conns, t \in Topics, p \in Predicates : ConsoleSet(t, k, p)
    \/ \E k \in Conns, w \in Workers : ConsoleDelete(w, k)

LifecycleSpec == LifecycleInit /\ [][LifecycleNext]_allVars

\* Time goes on and a goroutine that can run runs in the end.  Of the rest of
\* the system this assumes that publishes to every topic keep coming and that
\* not every lookup and prune fails.
Lookup(t) == \E w \in Workers \ {Refresher} : ReadIndex(w, t) /\ UNCHANGED appVars
Answer(w) == ReadInterests(w) /\ UNCHANGED appVars
Pruning(w) == Prune(w) /\ UNCHANGED appVars
Dropping(w) == \E s \in Sockets : FinishDrop(w, s)
Deleting(w) == CommitDrop(w) /\ UNCHANGED appVars
Closing == stopped /\ \E s \in Sockets : Disconnect(s)

Fairness ==
    /\ WF_allVars(LifecycleTick) /\ WF_allVars(Sweep) /\ WF_allVars(Closing)
    /\ \A w \in Workers \ {Refresher} : WF_allVars(Dropping(w)) /\ WF_allVars(Deleting(w))
    /\ \A t \in Topics : SF_allVars(Lookup(t))
    /\ \A w \in Workers \ {Refresher} : SF_allVars(Answer(w)) /\ SF_allVars(Pruning(w))

FairLifecycleSpec == LifecycleSpec /\ Fairness

-----------------------------------------------------------------------------
(* Refresh's comment: "the TTL only ever expires interests belonging to     *)
(* connections that have genuinely gone away", and newRefresher's: a single *)
(* missed cycle "does not expire live interests".  What an open socket has  *)
(* registered stays routable, through sweeps that are late or fail for it   *)
(* once, publishes that prune and others that leave, to the end of a server *)
(* that stops refreshing while it closes them; and it stays where the next  *)
(* Refresh and the Drop will find it.                                       *)
OpenSocketsKeepInterests ==
    \A k \in held : Routable(k[1], k[2]) /\ Owned(k[1], k[2])

(* The backstop: whether its Drop failed or its instance died, what a       *)
(* socket had registered is dead one TTL after it went, or after the end of *)
(* a sweep that still had it on its list.                                   *)
GoneSocketsExpire ==
    \A s \in Sockets : goneFor[s] >= TTL + Lag =>
        \A t \in Topics : ~Live(t, s)

Promised == INSTANCE Subscriptions WITH
    socket    <- [s \in Sockets |-> IF status[s] = "leaving" THEN "gone" ELSE status[s]],
    interests <- [k \in Topics \X Sockets |->
                     IF Routable(k[1], k[2]) THEN predicate[k] ELSE NoPredicate]

(* All of it together, the store's three kinds of key, the refresher and    *)
(* the drops, keeps what Subscriptions promises: a refresh that meets a     *)
(* drop, a publish that prunes or a failure half way neither takes an       *)
(* interest from an open socket nor brings one back for a socket that has   *)
(* gone.                                                                    *)
ImplementsSubscriptions == Promised!SubscriptionsSpec

(* "The index converges on the truth without a sweeper": in the end a gone  *)
(* socket has left no trace in any key, not even in an index that other     *)
(* connections keep alive, if publishes to its topics keep coming.          *)
GoneSocketsLeaveNoTrace ==
    \A s \in Sockets : status[s] = "gone" ~>
        \A t \in Topics : ~Live(t, s) /\ s \notin index[t] /\ t \notin topicsOf[s]
=============================================================================
