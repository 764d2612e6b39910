---------------------- MODULE InterestLifecycleProofs ----------------------
(***************************************************************************)
(* Proofs about InterestLifecycle, for any topics, sockets, console ids,   *)
(* goroutines, times to live and bounds.                                   *)
(*                                                                         *)
(* What open sockets have registered is kept by an invariant in two parts. *)
(* Ownership says that until it goes a socket is in an index, and in what  *)
(* a lookup has read, only with what it still holds, and that no prune and *)
(* no drop under way is after it: that is why races of others cannot hurt  *)
(* it.  Keeping says that each of the three keys of an interest has more   *)
(* time left than passes, in the worst case, before the refresher has      *)
(* renewed it.                                                             *)
(***************************************************************************)
EXTENDS InterestLifecycle, InterestStoreProofs, Integers

-----------------------------------------------------------------------------
(* The invariant.                                                           *)

AppTypeOK ==
    /\ status \in [Sockets -> {"new", "open", "leaving", "gone"}]
    /\ tracked \in SUBSET Sockets
    /\ due \in 1 .. Interval
    /\ fired \in BOOLEAN
    /\ sweep \in SUBSET Sockets
    /\ lag \in 0 .. Lag
    /\ misses \in [Sockets -> 0 .. MaxMisses]
    /\ held \in SUBSET (Topics \X Sockets)
    /\ goneFor \in [Sockets -> 0 .. TTL + Lag]
    /\ stopped \in BOOLEAN
    /\ drained \in 0 .. Drain

\* Only the refresher refreshes, sockets it is, and the others do the rest.
Roles ==
    /\ call[Refresher].op \in {"idle", "refresh", "extend"}
    /\ call[Refresher].op # "idle" => call[Refresher].conn \in Sockets
    /\ \A w \in Workers : w # Refresher => call[w].op \in {"idle", "lookup", "prune", "drop"}

\* The socket has not begun to go.
Present(s) == status[s] \in {"new", "open"}

\* The refresher tracks the open sockets, and none of those is being dropped.
Tracking ==
    /\ tracked = {s \in Sockets : status[s] = "open"}
    /\ \A s \in Sockets, w \in Workers :
          Present(s) /\ call[w].op = "drop" => call[w].conn # s

Ownership ==
    /\ Tracking
    /\ \A k \in held : status[k[2]] = "open"
    /\ \A s \in Sockets, t \in Topics : Present(s) /\ s \in index[t] => <<t, s>> \in held
    /\ \A s \in Sockets, w \in Workers : Present(s) =>
          /\ call[w].op = "lookup" /\ s \in call[w].ids => <<call[w].topic, s>> \in held
          /\ call[w].op = "prune" => s \notin call[w].stale

\* The ticker: it does not fire again before the sweep is over.
Ticker ==
    /\ ~(fired /\ Sweeping)
    /\ stopped => ~fired /\ sweep = {}
    /\ ~stopped => drained = 0
    /\ ~stopped /\ (fired \/ Sweeping) => due = Interval - lag

\* The refresher is at it, or will be before the ticker fires again.
Refreshing(s) == call[Refresher].op # "idle" /\ call[Refresher].conn = s
Pending(s)    == fired \/ s \in sweep \/ Refreshing(s)

\* The most ticks there can be before the keys of s have been renewed, or s
\* has been closed.
Need(s) ==
    IF stopped
    THEN Drain - drained
    ELSE (IF Pending(s) THEN Lag - lag ELSE due + Lag)
         + (MaxMisses - misses[s]) * Interval + Drain

Keeping ==
    \A t \in Topics, s \in Sockets : <<t, s>> \in held =>
        /\ s \in index[t] /\ t \in topicsOf[s]
        /\ interestTTL[<<t, s>>] > Need(s)
        /\ indexTTL[t] > Need(s)
        /\ connTTL[s] > Need(s)

\* What the refresh under way does not find in its list, because it has been
\* there or because it is newer, has lost no more time than the sweep has
\* taken.
Renewing ==
    \A t \in Topics, s \in Sockets : <<t, s>> \in held /\ Refreshing(s) =>
        \/ t \in call[Refresher].topics
        \/ /\ interestTTL[<<t, s>>] + lag >= TTL
           /\ t \in call[Refresher].pending \/ indexTTL[t] + lag >= TTL

LifeInv == AppTypeOK /\ Roles /\ Ownership /\ Ticker /\ Keeping /\ Renewing

\* A socket's interests have no more time left than if they had last been
\* renewed at the end of the sweep that had it on its list when it went.
Expiring ==
    /\ \A s \in Sockets : status[s] # "gone" => goneFor[s] = 0
    /\ \A s \in Sockets : s \in sweep \/ Refreshing(s) => goneFor[s] <= lag
    /\ \A s \in Sockets, t \in Topics : interestTTL[<<t, s>>] + goneFor[s] <= TTL + Lag

-----------------------------------------------------------------------------
(* Constants.                                                               *)

\* What the bounds must satisfy for a refresher that fires every Interval to
\* keep up: a sweep is over before the next one is due, and a TTL outlasts the
\* refreshes that may fail in a row, a late sweep and the end of the server.
Timing ==
    /\ Lag < Interval
    /\ (MaxMisses + 1) * Interval + Lag + Drain < TTL

LEMMA IntervalType == Interval \in Nat \ {0}
<1>1. Second \in Nat \ {0} /\ TTL \div 3 \in Int
  BY StoreAssumption, LifecycleAssumption
<1> QED
  BY <1>1 DEF Interval

\* A step of the lifecycle is a step of the store, or the instance dies.
LEMMA StoreStep ==
    ASSUME [LifecycleNext]_allVars
    PROVE  [Next]_vars \/ Crash
<1>1. CASE UNCHANGED allVars
  BY <1>1 DEF allVars, vars
<1>2. ASSUME NEW s \in Sockets, SocketStep(s) PROVE [Next]_vars
  <2>0. s \in Conns
    BY LifecycleAssumption
  <2>1. CASE Connect(s) \/ Disconnect(s) \/ DropFails(s)
    BY <2>1 DEF Connect, Disconnect, DropFails
  <2>2. ASSUME NEW t \in Topics, NEW p \in Predicates, Register(t, s, p) PROVE Next
    BY <2>0, <2>2 DEF Register, Next
  <2>3. ASSUME NEW w \in Workers, StartDrop(w, s) PROVE Next
    BY <2>0, <2>3 DEF StartDrop, Next, Drop
  <2>4. ASSUME NEW w \in Workers, FinishDrop(w, s) PROVE Next
    BY <2>4 DEF FinishDrop, Next, Drop
  <2> QED
    BY <1>2, <2>1, <2>2, <2>3, <2>4 DEF SocketStep
<1>3. CASE Sweep
  <2>1. Refresher \in Workers /\ Sockets \subseteq Conns
    BY LifecycleAssumption
  <2>2. CASE StartSweep
    BY <2>2 DEF StartSweep
  <2>3. ASSUME NEW s \in Sockets, RefreshNext(s) PROVE [Next]_vars
    BY <2>1, <2>3 DEF RefreshNext, Next, Refresh
  <2>4. CASE RefreshStep
    BY <2>1, <2>4 DEF RefreshStep, Next, Refresh
  <2>5. CASE RefreshDone
    BY <2>1, <2>5 DEF RefreshDone, Next, Refresh
  <2>6. CASE RefreshFails
    BY <2>1, <2>6 DEF RefreshFails, Next
  <2> QED
    BY <1>3, <2>2, <2>3, <2>4, <2>5, <2>6 DEF Sweep
<1>4. CASE LifecycleTick
  BY <1>4 DEF LifecycleTick, Next
<1>5. CASE Stop
  BY <1>5 DEF Stop
<1>6. ASSUME NEW w \in Workers, Publish(w) PROVE [Next]_vars
  BY <1>6 DEF Publish, Next
<1>7. ASSUME NEW k \in Conns, NEW t \in Topics, NEW p \in Predicates, ConsoleSet(t, k, p)
      PROVE  [Next]_vars
  BY <1>7 DEF ConsoleSet, Next
<1>8. ASSUME NEW k \in Conns, NEW w \in Workers, ConsoleDelete(w, k) PROVE [Next]_vars
  BY <1>8 DEF ConsoleDelete, Next, Drop
<1> QED
  BY <1>1, <1>2, <1>3, <1>4, <1>5, <1>6, <1>7, <1>8 DEF LifecycleNext

\* A step changes the call of the goroutine that takes it only.
LEMMA OneCall ==
    ASSUME TypeOK, NEW w \in Workers, NEW v \in Workers, v # w, NEW x,
           Begin(w, x) \/ Continue(w, x)
    PROVE  call'[v] = call[v]
  BY DEF Begin, Continue, TypeOK

LEMMA OwnCall ==
    ASSUME TypeOK, NEW w \in Workers, NEW x, Begin(w, x) \/ Continue(w, x)
    PROVE  call'[w] = x
  BY DEF Begin, Continue, TypeOK

\* What goroutines other than the refresher do to the calls.
LEMMA OthersStep ==
    ASSUME TypeOK, NEW w \in Workers, w # Refresher,
           Candidates(w) \/ Drop(w) \/ Abandon(w)
    PROVE  /\ call'[Refresher] = call[Refresher]
           /\ \A v \in Workers : v # w => call'[v] = call[v]
           /\ call'[w].op \in {"idle", "lookup", "prune", "drop"}
<1> DEFINE Op == {"idle", "lookup", "prune", "drop"}
           Aside == /\ \A v \in Workers : v # w => call'[v] = call[v]
                    /\ call'[w].op \in Op
<1>0. Refresher \in Workers
  BY LifecycleAssumption
<1>1. ASSUME NEW x, Begin(w, x) \/ Continue(w, x), x.op \in Op PROVE Aside
  <2>1. call'[w] = x
    BY <1>1, OwnCall
  <2>2. ASSUME NEW v \in Workers, v # w PROVE call'[v] = call[v]
    BY <1>1, <2>2, OneCall
  <2> QED
    BY <1>1, <2>1, <2>2
<1>2. Idle.op = "idle"
  BY DEF Idle
<1> HIDE DEF Aside
<1>3. ASSUME Continue(w, Idle) PROVE Aside
  BY <1>1, <1>2, <1>3
<1>4. ASSUME NEW t \in Topics, ReadIndex(w, t) PROVE Aside
  BY <1>1, <1>4 DEF ReadIndex
<1>5. ASSUME ReadInterests(w) PROVE Aside
  <2> DEFINE x == IF Stale(w) = {}
                  THEN Idle
                  ELSE [op |-> "prune", topic |-> call[w].topic, stale |-> Stale(w)]
  <2>1. x.op \in Op
    BY <1>2
  <2>2. Continue(w, x)
    BY <1>5 DEF ReadInterests
  <2> QED
    BY <1>1, <2>1, <2>2
<1>6. ASSUME NEW c \in Conns, ReadTopicsToDrop(w, c) PROVE Aside
  BY <1>1, <1>6 DEF ReadTopicsToDrop
<1>7. Aside
  BY <1>3, <1>4, <1>5, <1>6 DEF Candidates, Drop, Abandon, Prune, CommitDrop
<1> QED
  BY <1>0, <1>7 DEF Aside

-----------------------------------------------------------------------------
(* Types, and who runs what.                                                *)

LEMMA StoreInvStep ==
    ASSUME TypeOK, KeysConsistent, [LifecycleNext]_allVars
    PROVE  TypeOK' /\ KeysConsistent'
<1>1. CASE [Next]_vars
  BY <1>1, TypeStep, KeysStep
<1>2. CASE Crash
  <2>1. Idle \in Calls
    BY DEF Calls
  <2> QED
    BY <1>2, <2>1 DEF Crash, TypeOK, KeysConsistent, redis
<1> QED
  BY <1>1, <1>2, StoreStep

LEMMA AppTypeStep ==
    ASSUME TypeOK, AppTypeOK, Roles, [LifecycleNext]_allVars
    PROVE  AppTypeOK'
<1> USE IntervalType DEF AppTypeOK
<1>0. /\ Lag \in Nat /\ MaxMisses \in Nat /\ Drain \in Nat /\ TTL \in Nat
      /\ 0 \in 0 .. Lag /\ 0 \in 0 .. MaxMisses /\ Interval \in 1 .. Interval
  BY LifecycleAssumption, StoreAssumption
<1>1. CASE UNCHANGED allVars
  BY <1>1 DEF allVars, appVars, stopVars
<1>2. ASSUME NEW s \in Sockets, Connect(s) \/ Disconnect(s) \/ DropFails(s)
      PROVE  AppTypeOK'
  BY <1>2 DEF Connect, Disconnect, DropFails, Become, stopVars
<1>3. ASSUME NEW s \in Sockets, NEW t \in Topics, NEW p \in Predicates, Register(t, s, p)
      PROVE  AppTypeOK'
  BY <1>3 DEF Register, stopVars
<1>4. ASSUME NEW s \in Sockets, NEW w \in Workers, StartDrop(w, s) \/ FinishDrop(w, s)
      PROVE  AppTypeOK'
  BY <1>4 DEF StartDrop, FinishDrop, Become, appVars, stopVars
<1>5. CASE StartSweep
  BY <1>0, <1>5 DEF StartSweep, stopVars
<1>6. ASSUME NEW s \in Sockets, RefreshNext(s) PROVE AppTypeOK'
  BY <1>0, <1>6 DEF RefreshNext, stopVars
<1>7. CASE RefreshStep
  BY <1>7 DEF RefreshStep, appVars, stopVars
<1>8. CASE RefreshDone
  BY <1>0, <1>8 DEF RefreshDone, stopVars
<1>9. CASE RefreshFails
  <2>1. call[Refresher].conn \in Sockets
    BY <1>9 DEF RefreshFails, Roles
  <2>2. misses' \in [Sockets -> 0 .. MaxMisses]
    BY <1>0, <1>9, <2>1 DEF RefreshFails
  <2> QED
    BY <1>0, <1>9, <2>2 DEF RefreshFails, stopVars
<1>10. CASE LifecycleTick
  <2>1. due' \in 1 .. Interval /\ fired' \in BOOLEAN
    <3>1. due \in Nat /\ 1 <= due /\ due <= Interval
      OBVIOUS
    <3>2. CASE stopped
      BY <1>10, <3>2 DEF LifecycleTick
    <3>3. CASE ~stopped
      <4>1. /\ due' = IF due = 1 THEN Interval ELSE due - 1
            /\ fired' = (fired \/ due = 1)
        BY <1>10, <3>3 DEF LifecycleTick
      <4>2. due' \in 1 .. Interval
        BY <1>0, <3>1, <4>1
      <4>3. fired' \in BOOLEAN
        BY <4>1
      <4> QED
        BY <4>2, <4>3
    <3> QED
      BY <3>2, <3>3
  <2>2. lag' \in 0 .. Lag
    BY <1>0, <1>10 DEF LifecycleTick
  <2>3. drained' \in 0 .. Drain
    BY <1>0, <1>10 DEF LifecycleTick
  <2>4. goneFor' \in [Sockets -> 0 .. TTL + Lag]
    BY <1>0, <1>10 DEF LifecycleTick
  <2> QED
    BY <1>10, <2>1, <2>2, <2>3, <2>4 DEF LifecycleTick
<1>11. CASE Stop
  BY <1>0, <1>11 DEF Stop
<1>12. CASE Crash
  BY <1>0, <1>12 DEF Crash, stopVars
<1>13. ASSUME NEW w \in Workers, Publish(w) PROVE AppTypeOK'
  BY <1>13 DEF Publish, appVars, stopVars
<1>14. ASSUME NEW k \in Conns, NEW t \in Topics, NEW p \in Predicates, ConsoleSet(t, k, p)
       PROVE  AppTypeOK'
  BY <1>14 DEF ConsoleSet, appVars, stopVars
<1>15. ASSUME NEW k \in Conns, NEW w \in Workers, ConsoleDelete(w, k) PROVE AppTypeOK'
  BY <1>15 DEF ConsoleDelete, appVars, stopVars
<1> QED
  BY <1>1, <1>2, <1>3, <1>4, <1>5, <1>6, <1>7, <1>8, <1>9, <1>10, <1>11, <1>12, <1>13,
     <1>14, <1>15 DEF LifecycleNext, SocketStep, Sweep

\* Steps of the lifecycle that goroutines other than the refresher take in the
\* store, one by one or through the calls of others.
Aside(w) ==
    \/ \E s \in Sockets : StartDrop(w, s) \/ FinishDrop(w, s)
    \/ Publish(w)
    \/ \E k \in Conns : ConsoleDelete(w, k)

LEMMA AsideStep ==
    ASSUME TypeOK, NEW w \in Workers, w # Refresher, Aside(w)
    PROVE  Candidates(w) \/ Drop(w) \/ Abandon(w)
<1>1. Sockets \subseteq Conns
  BY LifecycleAssumption
<1>2. ASSUME NEW s \in Sockets, StartDrop(w, s) \/ FinishDrop(w, s)
      PROVE  Drop(w) \/ Abandon(w)
  BY <1>1, <1>2 DEF StartDrop, FinishDrop, Drop
<1>3. CASE Publish(w)
  BY <1>3 DEF Publish
<1>4. ASSUME NEW k \in Conns, ConsoleDelete(w, k) PROVE Drop(w) \/ Abandon(w)
  BY <1>4 DEF ConsoleDelete, Drop
<1> QED
  BY <1>2, <1>3, <1>4 DEF Aside

LEMMA RolesStep ==
    ASSUME TypeOK, Roles, [LifecycleNext]_allVars
    PROVE  Roles'
<1>0. Refresher \in Workers
  BY LifecycleAssumption
<1>1. CASE UNCHANGED call
  BY <1>1 DEF Roles
<1>2. ASSUME NEW w \in Workers, w # Refresher, Aside(w) PROVE Roles'
  <2>1. /\ call'[Refresher] = call[Refresher]
        /\ \A v \in Workers : v # w => call'[v] = call[v]
        /\ call'[w].op \in {"idle", "lookup", "prune", "drop"}
    BY <1>2, AsideStep, OthersStep
  <2> QED
    BY <2>1 DEF Roles
<1>3. ASSUME NEW x, Begin(Refresher, x) \/ Continue(Refresher, x),
             x.op \in {"idle", "refresh", "extend"},
             x.op # "idle" => x.conn \in Sockets
      PROVE  Roles'
  <2>1. call'[Refresher] = x
    BY <1>0, <1>3, OwnCall
  <2>2. ASSUME NEW v \in Workers, v # Refresher PROVE call'[v] = call[v]
    BY <1>0, <1>3, <2>2, OneCall
  <2> QED
    BY <1>3, <2>1, <2>2 DEF Roles
<1>4. ASSUME Continue(Refresher, Idle) PROVE Roles'
  BY <1>3, <1>4 DEF Idle
<1>5. ASSUME NEW s \in Sockets, RefreshNext(s) PROVE Roles'
  BY <1>1, <1>3, <1>5 DEF RefreshNext, ReadTopicsToRefresh, vars
<1>6. CASE RefreshStep
  <2>1. PICK t \in Topics : ExtendInterest(Refresher, t) \/ ExtendIndex(Refresher, t)
    BY <1>6 DEF RefreshStep
  <2>2. call[Refresher] \in [op : {"refresh", "extend"}, conn : Conns,
                             topics : SUBSET Topics, pending : SUBSET Topics]
    BY <1>0, <2>1 DEF ExtendInterest, ExtendIndex, TypeOK, Calls, Idle
  <2>3. call[Refresher].conn \in Sockets
    BY <2>1 DEF ExtendInterest, ExtendIndex, Roles
  <2>4. CASE ExtendInterest(Refresher, t)
    <3> DEFINE x == [call[Refresher] EXCEPT !.op = "extend", !.topics = @ \ {t},
                                            !.pending = {t}]
    <3>1. x.op = "extend" /\ x.conn = call[Refresher].conn
      BY <2>2
    <3>2. Continue(Refresher, x)
      BY <2>4 DEF ExtendInterest
    <3> QED
      BY <1>3, <2>3, <3>1, <3>2
  <2>5. CASE ExtendIndex(Refresher, t)
    <3> DEFINE x == [call[Refresher] EXCEPT !.pending = @ \ {t}]
    <3>1. x.op = "extend" /\ x.conn = call[Refresher].conn
      BY <2>2, <2>5 DEF ExtendIndex
    <3>2. Continue(Refresher, x)
      BY <2>5 DEF ExtendIndex
    <3> QED
      BY <1>3, <2>3, <3>1, <3>2
  <2> QED
    BY <2>1, <2>4, <2>5
<1>7. CASE RefreshDone \/ RefreshFails
  BY <1>4, <1>7 DEF RefreshDone, RefreshFails, ExtendConn, Abandon
<1>8. CASE Crash
  BY <1>0, <1>8 DEF Crash, Roles, Idle
<1>9. ASSUME NEW s \in Sockets, \/ Connect(s) \/ Disconnect(s) \/ DropFails(s)
                                \/ \E t \in Topics, p \in Predicates : Register(t, s, p)
      PROVE  UNCHANGED call
  BY <1>9 DEF Connect, Disconnect, DropFails, Register, Set, vars
<1>10. ASSUME StartSweep \/ Stop \/ LifecycleTick \/ UNCHANGED allVars
       PROVE  UNCHANGED call
  BY <1>10 DEF StartSweep, Stop, LifecycleTick, Tick, allVars, vars
<1>11. ASSUME NEW k \in Conns, NEW t \in Topics, NEW p \in Predicates, ConsoleSet(t, k, p)
       PROVE  UNCHANGED call
  BY <1>11 DEF ConsoleSet, Set
<1>12. ASSUME NEW w \in Workers, Publish(w) PROVE Roles'
  BY <1>2, <1>12 DEF Aside, Publish
<1>13. ASSUME NEW k \in Conns, NEW w \in Workers, ConsoleDelete(w, k) PROVE Roles'
  BY <1>2, <1>13 DEF Aside, ConsoleDelete
<1>14. ASSUME NEW s \in Sockets, NEW w \in Workers \ {Refresher},
              StartDrop(w, s) \/ FinishDrop(w, s)
       PROVE  Roles'
  BY <1>2, <1>14 DEF Aside
<1> QED
  BY <1>1, <1>5, <1>6, <1>7, <1>8, <1>9, <1>10, <1>11, <1>12, <1>13, <1>14
  DEF LifecycleNext, SocketStep, Sweep

-----------------------------------------------------------------------------
(* What a step can do.                                                      *)

\* Calls other than the refresher's go on by steps aside.
LEMMA CallsAside ==
    ASSUME TypeOK, [LifecycleNext]_allVars, NEW v \in Workers, v # Refresher
    PROVE  call'[v] = call[v] \/ call'[v] = Idle \/ Aside(v)
<1>0. Refresher \in Workers
  BY LifecycleAssumption
<1>1. ASSUME NEW w \in Workers, w # Refresher, Aside(w)
      PROVE  call'[v] = call[v] \/ Aside(v)
  <2>1. v # w => call'[v] = call[v]
    BY <1>1, AsideStep, OthersStep
  <2> QED
    BY <1>1, <2>1
<1>2. ASSUME NEW x, Begin(Refresher, x) \/ Continue(Refresher, x)
      PROVE  call'[v] = call[v]
  BY <1>0, <1>2, OneCall
<1>3. ASSUME NEW s \in Sockets, RefreshNext(s) PROVE call'[v] = call[v]
  BY <1>2, <1>3 DEF RefreshNext, ReadTopicsToRefresh, vars
<1>4. CASE RefreshStep \/ RefreshDone \/ RefreshFails
  BY <1>2, <1>4 DEF RefreshStep, RefreshDone, RefreshFails, ExtendInterest, ExtendIndex,
                    ExtendConn, Abandon
<1>5. CASE Crash
  BY <1>5 DEF Crash
<1>6. ASSUME NEW s \in Sockets, \/ Connect(s) \/ Disconnect(s) \/ DropFails(s)
                                \/ \E t \in Topics, p \in Predicates : Register(t, s, p)
      PROVE  UNCHANGED call
  BY <1>6 DEF Connect, Disconnect, DropFails, Register, Set, vars
<1>7. ASSUME StartSweep \/ Stop \/ LifecycleTick \/ UNCHANGED allVars
      PROVE  UNCHANGED call
  BY <1>7 DEF StartSweep, Stop, LifecycleTick, Tick, allVars, vars
<1>8. ASSUME NEW k \in Conns, NEW t \in Topics, NEW p \in Predicates, ConsoleSet(t, k, p)
      PROVE  UNCHANGED call
  BY <1>8 DEF ConsoleSet, Set
<1>9. ASSUME NEW w \in Workers, Publish(w) PROVE call'[v] = call[v] \/ Aside(v)
  BY <1>1, <1>9 DEF Aside, Publish
<1>10. ASSUME NEW k \in Conns, NEW w \in Workers, ConsoleDelete(w, k)
       PROVE  call'[v] = call[v] \/ Aside(v)
  BY <1>1, <1>10 DEF Aside, ConsoleDelete
<1>11. ASSUME NEW s \in Sockets, NEW w \in Workers \ {Refresher},
              StartDrop(w, s) \/ FinishDrop(w, s)
       PROVE  call'[v] = call[v] \/ Aside(v)
  BY <1>1, <1>11 DEF Aside
<1> QED
  BY <1>3, <1>4, <1>5, <1>6, <1>7, <1>8, <1>9, <1>10, <1>11
  DEF LifecycleNext, SocketStep, Sweep

\* A drop begins for a socket that is leaving or for an id of the console.
LEMMA DropBegins ==
    ASSUME TypeOK, Roles', [LifecycleNext]_allVars, NEW v \in Workers,
           call'[v].op = "drop", call'[v] # call[v]
    PROVE  call'[v].conn \in Sockets => status[call'[v].conn] = "leaving"
<1>1. v # Refresher
  BY DEF Roles
<1>2. Idle.op # "drop"
  BY DEF Idle
<1>3. Aside(v)
  BY <1>1, <1>2, CallsAside
<1>4. ASSUME NEW x, Begin(v, x) \/ Continue(v, x) PROVE call'[v] = x
  BY <1>4, OwnCall
<1>5. ~Continue(v, Idle)
  BY <1>2, <1>4
<1>6. ASSUME NEW s \in Sockets, StartDrop(v, s)
      PROVE  call'[v].conn = s /\ status[s] = "leaving"
  BY <1>4, <1>6 DEF StartDrop, ReadTopicsToDrop
<1>7. ASSUME NEW s \in Sockets, FinishDrop(v, s) PROVE FALSE
  BY <1>5, <1>7 DEF FinishDrop, CommitDrop, Abandon
<1>8. ASSUME Publish(v) PROVE FALSE
  <2>1. ASSUME NEW t \in Topics, ReadIndex(v, t) PROVE FALSE
    BY <1>4, <2>1 DEF ReadIndex
  <2>2. ASSUME ReadInterests(v) PROVE FALSE
    <3> DEFINE x == IF Stale(v) = {}
                    THEN Idle
                    ELSE [op |-> "prune", topic |-> call[v].topic, stale |-> Stale(v)]
    <3>1. x.op # "drop"
      BY <1>2
    <3>2. Continue(v, x)
      BY <2>2 DEF ReadInterests
    <3>3. call'[v] = x
      BY <1>4, <3>2
    <3> QED
      BY <3>1, <3>3
  <2>3. ASSUME Prune(v) \/ Abandon(v) PROVE FALSE
    BY <1>5, <2>3 DEF Prune, Abandon
  <2> QED
    BY <1>8, <2>1, <2>2, <2>3 DEF Publish, Candidates
<1>9. ASSUME NEW k \in Conns, ConsoleDelete(v, k)
      PROVE  call'[v].conn = k /\ k \notin Sockets
  <2>1. ~CommitDrop(v) /\ ~Abandon(v)
    BY <1>5 DEF CommitDrop, Abandon
  <2>2. ReadTopicsToDrop(v, k) /\ k \notin Sockets
    BY <1>9, <2>1 DEF ConsoleDelete
  <2> QED
    BY <1>4, <2>2 DEF ReadTopicsToDrop
<1> QED
  BY <1>3, <1>6, <1>7, <1>8, <1>9 DEF Aside

\* A command that writes to Redis, other than Set.
Writes(w) == \/ Prune(w) \/ CommitDrop(w) \/ ExtendConn(w)
             \/ \E t \in Topics : ExtendInterest(w, t)
             \/ \E t \in Topics : ExtendIndex(w, t)

\* Who changes Redis: time, a socket's frame, the console, or a call that goes on.
LEMMA LifecycleWrites ==
    ASSUME TypeOK, [LifecycleNext]_allVars
    PROVE  \/ LifecycleTick
           \/ UNCHANGED redis
           \/ \E s \in Sockets, t \in Topics, p \in Predicates : Register(t, s, p)
           \/ \E k \in Conns \ Sockets, t \in Topics, p \in Predicates :
                 Set(t, k, p) /\ UNCHANGED appVars
           \/ \E w \in Workers : Writes(w)
<1> DEFINE Calm == UNCHANGED redis \/ \E w \in Workers : Writes(w)
<1>1. ASSUME NEW w \in Workers, Candidates(w) \/ Drop(w) \/ Refresh(w) \/ Abandon(w)
      PROVE  UNCHANGED redis \/ Writes(w)
  BY <1>1 DEF Candidates, Drop, Refresh, Abandon, ReadIndex, ReadInterests, ReadTopicsToDrop,
              ReadTopicsToRefresh, Writes
<1>2. Refresher \in Workers /\ Sockets \subseteq Conns
  BY LifecycleAssumption
<1>3. ASSUME NEW w \in Workers, w # Refresher, Aside(w) PROVE Calm
  BY <1>1, <1>3, AsideStep
<1>4. ASSUME NEW s \in Sockets, RefreshNext(s) PROVE UNCHANGED redis
  BY <1>4 DEF RefreshNext, ReadTopicsToRefresh, vars, redis
<1>5. ASSUME RefreshStep \/ RefreshDone \/ RefreshFails PROVE Calm
  <2>1. Refresh(Refresher) \/ Abandon(Refresher)
    BY <1>5 DEF RefreshStep, RefreshDone, RefreshFails, Refresh
  <2> QED
    BY <1>1, <1>2, <2>1
<1>6. ASSUME NEW s \in Sockets, Connect(s) \/ Disconnect(s) \/ DropFails(s)
      PROVE  UNCHANGED redis
  BY <1>6 DEF Connect, Disconnect, DropFails, vars, redis
<1>7. ASSUME StartSweep \/ Stop \/ Crash \/ UNCHANGED allVars
      PROVE  UNCHANGED redis
  BY <1>7 DEF StartSweep, Stop, Crash, allVars, vars, redis
<1>8. ASSUME NEW k \in Conns, NEW t \in Topics, NEW p \in Predicates, ConsoleSet(t, k, p)
      PROVE  k \in Conns \ Sockets /\ Set(t, k, p) /\ UNCHANGED appVars
  BY <1>8 DEF ConsoleSet
<1>9. ASSUME NEW w \in Workers, Publish(w) PROVE Calm
  BY <1>3, <1>9 DEF Aside, Publish
<1>10. ASSUME NEW k \in Conns, NEW w \in Workers, ConsoleDelete(w, k) PROVE Calm
  BY <1>3, <1>10 DEF Aside, ConsoleDelete
<1>11. ASSUME NEW s \in Sockets, NEW w \in Workers \ {Refresher},
              StartDrop(w, s) \/ FinishDrop(w, s)
       PROVE  Calm
  BY <1>3, <1>11 DEF Aside
<1>12. CASE UNCHANGED redis
  BY <1>12
<1> HIDE DEF Calm
<1>13. CASE Calm
  BY <1>13 DEF Calm
<1> QED
  BY <1>4, <1>5, <1>6, <1>7, <1>8, <1>9, <1>10, <1>11, <1>12, <1>13
  DEF LifecycleNext, SocketStep, Sweep

\* Only Set puts an id into an index: a socket's frame or the console.
LEMMA OnlyRegisters ==
    ASSUME TypeOK, [LifecycleNext]_allVars
    PROVE  \/ \E s \in Sockets, t \in Topics, p \in Predicates : Register(t, s, p)
           \/ \E k \in Conns \ Sockets, t \in Topics, p \in Predicates :
                 Set(t, k, p) /\ UNCHANGED appVars
           \/ \A t \in Topics : index'[t] \subseteq index[t]
<1>1. CASE UNCHANGED redis
  BY <1>1 DEF redis
<1>2. ASSUME NEW w \in Workers, Prune(w) PROVE \A t \in Topics : index'[t] \subseteq index[t]
  <2>1. call[w].topic \in Topics
    BY <1>2, CallTopic DEF Prune, TypeOK
  <2> QED
    BY <1>2, <2>1 DEF Prune, TypeOK
<1>3. ASSUME NEW w \in Workers, CommitDrop(w)
      PROVE  \A t \in Topics : index'[t] \subseteq index[t]
  BY <1>3 DEF CommitDrop
<1>4. ASSUME NEW w \in Workers, Writes(w), ~Prune(w), ~CommitDrop(w)
      PROVE  \A t \in Topics : index'[t] \subseteq index[t]
  BY <1>4 DEF Writes, ExtendConn, ExtendInterest, ExtendIndex
<1>5. CASE LifecycleTick
  BY <1>5 DEF LifecycleTick, Tick
<1>6. CASE \E w \in Workers : Writes(w)
  BY <1>2, <1>3, <1>4, <1>6
<1> QED
  BY <1>1, <1>5, <1>6, LifecycleWrites

-----------------------------------------------------------------------------
(* Ownership and the ticker.                                                *)

\* What Need counts is a natural number.
LEMMA NeedType ==
    ASSUME AppTypeOK, NEW s \in Sockets
    PROVE  Need(s) \in Nat
<1>1. /\ Lag \in Nat /\ MaxMisses \in Nat /\ Drain \in Nat
      /\ lag \in 0 .. Lag /\ drained \in 0 .. Drain /\ due \in Nat
      /\ misses[s] \in 0 .. MaxMisses
  BY LifecycleAssumption, IntervalType DEF AppTypeOK
<1>2. MaxMisses - misses[s] \in Nat /\ Interval \in Nat
  BY <1>1, IntervalType
<1>3. (MaxMisses - misses[s]) * Interval \in Nat
  BY <1>2
<1>4. Drain - drained \in Nat /\ Lag - lag \in Nat /\ due + Lag \in Nat
  BY <1>1
<1> QED
  BY <1>1, <1>3, <1>4 DEF Need

\* What is held has time left.
LEMMA HeldIsLive ==
    ASSUME TypeOK, AppTypeOK, Keeping, NEW t \in Topics, NEW s \in Sockets, <<t, s>> \in held
    PROVE  /\ Live(t, s) /\ s \in index[t] /\ t \in topicsOf[s]
           /\ indexTTL[t] > 0 /\ connTTL[s] > 0
<1>1. Need(s) \in Nat
  BY NeedType
<1>2. /\ interestTTL[<<t, s>>] \in Nat /\ indexTTL[t] \in Nat /\ connTTL[s] \in Nat
  BY LifecycleAssumption, StoreAssumption DEF TypeOK, Keys
<1>3. interestTTL[<<t, s>>] > Need(s) /\ indexTTL[t] > Need(s) /\ connTTL[s] > Need(s)
  BY DEF Keeping
<1>4. s \in index[t] /\ t \in topicsOf[s]
  BY DEF Keeping
<1> QED
  BY <1>1, <1>2, <1>3, <1>4 DEF Live

\* A socket that is present after a step was so before it.
LEMMA PresentBefore ==
    ASSUME AppTypeOK, [LifecycleNext]_allVars, NEW s \in Sockets, Present(s)'
    PROVE  Present(s)
<1>1. CASE status' = status
  BY <1>1 DEF Present
<1>2. ASSUME NEW q \in Sockets, Connect(q) \/ Disconnect(q) \/ DropFails(q)
      PROVE  Present(s)
  BY <1>2 DEF Connect, Disconnect, DropFails, Become, Present, AppTypeOK
<1>3. ASSUME NEW q \in Sockets, NEW w \in Workers, FinishDrop(w, q) PROVE Present(s)
  BY <1>3 DEF FinishDrop, Become, Present, AppTypeOK
<1>4. CASE Crash
  BY <1>4 DEF Crash, Present
<1>5. ASSUME NEW q \in Sockets, \/ \E t \in Topics, p \in Predicates : Register(t, q, p)
                                \/ \E w \in Workers : StartDrop(w, q)
      PROVE  status' = status
  BY <1>5 DEF Register, StartDrop, appVars
<1>6. ASSUME Sweep \/ LifecycleTick \/ Stop \/ UNCHANGED allVars PROVE status' = status
  BY <1>6 DEF Sweep, StartSweep, RefreshNext, RefreshStep, RefreshDone, RefreshFails,
              LifecycleTick, Stop, appVars, allVars
<1>7. ASSUME \/ \E w \in Workers : Publish(w)
             \/ \E k \in Conns, t \in Topics, p \in Predicates : ConsoleSet(t, k, p)
             \/ \E k \in Conns, w \in Workers : ConsoleDelete(w, k)
      PROVE  status' = status
  BY <1>7 DEF Publish, ConsoleSet, ConsoleDelete, appVars
<1> QED
  BY <1>1, <1>2, <1>3, <1>4, <1>5, <1>6, <1>7 DEF LifecycleNext, SocketStep

\* And it has lost nothing.
LEMMA PresentStep ==
    ASSUME AppTypeOK, Ownership, [LifecycleNext]_allVars, NEW s \in Sockets, Present(s)'
    PROVE  Present(s) /\ \A t \in Topics : <<t, s>> \in held => <<t, s>> \in held'
<1> DEFINE Safe == \A t \in Topics : <<t, s>> \in held => <<t, s>> \in held'
<1>1. Present(s)
  BY PresentBefore
<1>2. CASE held' = held
  BY <1>1, <1>2
<1>3. ASSUME NEW q \in Sockets, Disconnect(q) PROVE Safe
  BY <1>3 DEF Disconnect, Become, Present, AppTypeOK
<1>4. ASSUME NEW q \in Sockets, NEW t \in Topics, NEW p \in Predicates, Register(t, q, p)
      PROVE  Safe
  BY <1>4 DEF Register
<1>5. ASSUME Crash PROVE Safe
  <2>1. status[s] = "new"
    BY <1>5 DEF Crash, Present
  <2> QED
    BY <2>1 DEF Ownership
<1> HIDE DEF Safe
<1>6. ASSUME NEW q \in Sockets, \/ Connect(q) \/ DropFails(q)
                                \/ \E w \in Workers : StartDrop(w, q) \/ FinishDrop(w, q)
      PROVE  held' = held
  BY <1>6 DEF Connect, DropFails, StartDrop, FinishDrop, appVars
<1>7. ASSUME Sweep \/ LifecycleTick \/ Stop \/ UNCHANGED allVars PROVE held' = held
  BY <1>7 DEF Sweep, StartSweep, RefreshNext, RefreshStep, RefreshDone, RefreshFails,
              LifecycleTick, Stop, appVars, allVars
<1>8. ASSUME \/ \E w \in Workers : Publish(w)
             \/ \E k \in Conns, t \in Topics, p \in Predicates : ConsoleSet(t, k, p)
             \/ \E k \in Conns, w \in Workers : ConsoleDelete(w, k)
      PROVE  held' = held
  BY <1>8 DEF Publish, ConsoleSet, ConsoleDelete, appVars
<1>9. ASSUME Safe PROVE \A t \in Topics : <<t, s>> \in held => <<t, s>> \in held'
  BY <1>9 DEF Safe
<1>10. Safe \/ held' = held
  BY <1>3, <1>4, <1>5, <1>6, <1>7, <1>8 DEF LifecycleNext, SocketStep
<1> QED
  BY <1>1, <1>2, <1>9, <1>10

\* The refresher tracks exactly the open sockets.
LEMMA TrackedStep ==
    ASSUME TypeOK, AppTypeOK, Tracking, [LifecycleNext]_allVars
    PROVE  tracked' = {s \in Sockets : status'[s] = "open"}
<1> DEFINE Good == tracked' = {s \in Sockets : status'[s] = "open"}
<1>1. CASE UNCHANGED <<status, tracked>>
  BY <1>1 DEF Tracking
<1>2. ASSUME NEW q \in Sockets, Connect(q) PROVE Good
  BY <1>2 DEF Connect, Become, AppTypeOK, Tracking
<1>3. ASSUME NEW q \in Sockets, Disconnect(q) PROVE Good
  BY <1>3 DEF Disconnect, Become, AppTypeOK, Tracking
<1>4. ASSUME NEW q \in Sockets, status[q] # "open", Become(q, "gone"), UNCHANGED tracked
      PROVE  Good
  BY <1>4 DEF Become, AppTypeOK, Tracking
<1>5. ASSUME NEW q \in Sockets, DropFails(q) PROVE Good
  BY <1>4, <1>5 DEF DropFails
<1>6. ASSUME NEW q \in Sockets, NEW w \in Workers, FinishDrop(w, q) PROVE Good
  <2>1. call[w].op = "drop" /\ call[w].conn = q
    BY <1>6 DEF FinishDrop, DropOf
  <2>2. status[q] # "open"
    BY <2>1 DEF Tracking, Present
  <2> QED
    BY <1>4, <1>6, <2>2 DEF FinishDrop
<1>7. ASSUME Crash PROVE Good
  BY <1>7 DEF Crash
<1> HIDE DEF Good
<1>8. ASSUME NEW q \in Sockets, \/ \E w \in Workers : StartDrop(w, q)
                                \/ \E t \in Topics, p \in Predicates : Register(t, q, p)
      PROVE  UNCHANGED <<status, tracked>>
  BY <1>8 DEF StartDrop, Register, appVars
<1>9. ASSUME Sweep PROVE UNCHANGED <<status, tracked>>
  BY <1>9 DEF Sweep, StartSweep, RefreshNext, RefreshStep, RefreshDone, RefreshFails, appVars
<1>10. ASSUME Stop \/ LifecycleTick \/ UNCHANGED allVars
       PROVE  UNCHANGED <<status, tracked>>
  BY <1>10 DEF Stop, LifecycleTick, allVars, appVars
<1>11. ASSUME NEW k \in Conns, NEW t \in Topics, NEW p \in Predicates, ConsoleSet(t, k, p)
       PROVE  UNCHANGED <<status, tracked>>
  BY <1>11 DEF ConsoleSet, appVars
<1>12. ASSUME NEW w \in Workers, Publish(w) PROVE UNCHANGED <<status, tracked>>
  BY <1>12 DEF Publish, appVars
<1>13. ASSUME NEW k \in Conns, NEW w \in Workers, ConsoleDelete(w, k)
       PROVE  UNCHANGED <<status, tracked>>
  BY <1>13 DEF ConsoleDelete, appVars
<1>14. ASSUME UNCHANGED <<status, tracked>> PROVE Good
  BY <1>1, <1>14 DEF Good
<1>15. Good
  BY <1>2, <1>3, <1>5, <1>6, <1>7, <1>8, <1>9, <1>10, <1>11, <1>12, <1>13, <1>14
  DEF LifecycleNext, SocketStep
<1> QED
  BY <1>15 DEF Good

\* No drop of an open socket begins, and no socket opens twice.
LEMMA TrackingStep ==
    ASSUME TypeOK, AppTypeOK, Roles', Tracking, [LifecycleNext]_allVars
    PROVE  Tracking'
<1>1. ASSUME NEW s \in Sockets, NEW w \in Workers, Present(s)', call'[w].op = "drop",
             call'[w].conn = s
      PROVE  FALSE
  <2>1. Present(s)
    BY <1>1, PresentBefore
  <2>2. CASE call'[w] = call[w]
    BY <1>1, <2>1, <2>2 DEF Tracking
  <2>3. CASE call'[w] # call[w]
    <3>1. status[s] = "leaving"
      BY <1>1, <2>3, DropBegins
    <3> QED
      BY <2>1, <3>1 DEF Present
  <2> QED
    BY <2>2, <2>3
<1> QED
  BY <1>1, TrackedStep DEF Tracking

\* Only open sockets hold anything.
LEMMA HeldOpenStep ==
    ASSUME TypeOK, AppTypeOK, Ownership, [LifecycleNext]_allVars
    PROVE  \A k \in held' : status'[k[2]] = "open"
<1> DEFINE Good == \A k \in held' : status'[k[2]] = "open"
<1>1. CASE UNCHANGED <<status, held>>
  BY <1>1 DEF Ownership
<1>2. ASSUME NEW q \in Sockets, Connect(q) PROVE Good
  BY <1>2 DEF Connect, Become, AppTypeOK, Ownership
<1>3. ASSUME NEW q \in Sockets, Disconnect(q) PROVE Good
  BY <1>3 DEF Disconnect, Become, AppTypeOK, Ownership
<1>4. ASSUME NEW q \in Sockets, NEW t \in Topics, NEW p \in Predicates, Register(t, q, p)
      PROVE  Good
  BY <1>4 DEF Register, Ownership
<1>5. ASSUME NEW q \in Sockets, status[q] # "open", Become(q, "gone"), UNCHANGED held
      PROVE  Good
  BY <1>5 DEF Become, AppTypeOK, Ownership
<1>6. ASSUME NEW q \in Sockets, DropFails(q) PROVE Good
  BY <1>5, <1>6 DEF DropFails
<1>7. ASSUME NEW q \in Sockets, NEW w \in Workers, FinishDrop(w, q) PROVE Good
  <2>1. call[w].op = "drop" /\ call[w].conn = q
    BY <1>7 DEF FinishDrop, DropOf
  <2>2. status[q] # "open"
    BY <2>1 DEF Ownership, Tracking, Present
  <2> QED
    BY <1>5, <1>7, <2>2 DEF FinishDrop
<1>8. ASSUME Crash PROVE Good
  BY <1>8 DEF Crash
<1> HIDE DEF Good
<1>9. ASSUME NEW q \in Sockets, NEW w \in Workers, StartDrop(w, q)
      PROVE  UNCHANGED <<status, held>>
  BY <1>9 DEF StartDrop, appVars
<1>10. ASSUME Sweep PROVE UNCHANGED <<status, held>>
  BY <1>10 DEF Sweep, StartSweep, RefreshNext, RefreshStep, RefreshDone, RefreshFails, appVars
<1>11. ASSUME Stop \/ LifecycleTick \/ UNCHANGED allVars PROVE UNCHANGED <<status, held>>
  BY <1>11 DEF Stop, LifecycleTick, allVars, appVars
<1>12. ASSUME NEW k \in Conns, NEW t \in Topics, NEW p \in Predicates, ConsoleSet(t, k, p)
       PROVE  UNCHANGED <<status, held>>
  BY <1>12 DEF ConsoleSet, appVars
<1>13. ASSUME NEW w \in Workers, Publish(w) PROVE UNCHANGED <<status, held>>
  BY <1>13 DEF Publish, appVars
<1>14. ASSUME NEW k \in Conns, NEW w \in Workers, ConsoleDelete(w, k)
       PROVE  UNCHANGED <<status, held>>
  BY <1>14 DEF ConsoleDelete, appVars
<1>15. ASSUME UNCHANGED <<status, held>> PROVE Good
  BY <1>1, <1>15 DEF Good
<1>16. Good
  BY <1>2, <1>3, <1>4, <1>6, <1>7, <1>8, <1>9, <1>10, <1>11, <1>12, <1>13, <1>14, <1>15
  DEF LifecycleNext, SocketStep
<1> QED
  BY <1>16 DEF Good

\* A socket that has not begun to go stays in no index and in nobody's reading
\* without holding the interest, and nobody is about to take it away.
LEMMA OwnershipStep ==
    ASSUME TypeOK, TypeOK', AppTypeOK, Roles', Ownership, Keeping, [LifecycleNext]_allVars
    PROVE  Ownership'
<1>1. Tracking' /\ \A k \in held' : status'[k[2]] = "open"
  BY TrackingStep, HeldOpenStep DEF Ownership
<1>2. ASSUME NEW s \in Sockets, Present(s)'
      PROVE  Present(s) /\ \A t \in Topics : <<t, s>> \in held => <<t, s>> \in held'
  BY <1>2, PresentStep
<1>3. ASSUME NEW s \in Sockets, NEW t \in Topics, Present(s)', s \in index'[t]
      PROVE  <<t, s>> \in held'
  <2>1. CASE s \in index[t]
    BY <1>2, <1>3, <2>1 DEF Ownership
  <2>2. ASSUME NEW q \in Sockets, NEW u \in Topics, NEW p \in Predicates,
               Register(u, q, p), s \notin index[t]
        PROVE  <<t, s>> \in held'
    <3>1. index' = [index EXCEPT ![u] = @ \cup {q}] /\ held' = held \cup {<<u, q>>}
      BY <2>2 DEF Register, Set
    <3>2. u = t /\ q = s
      BY <1>3, <2>2, <3>1 DEF TypeOK
    <3> QED
      BY <3>1, <3>2
  <2>3. ASSUME NEW k \in Conns \ Sockets, NEW u \in Topics, NEW p \in Predicates,
               Set(u, k, p), s \notin index[t]
        PROVE  FALSE
    BY <1>3, <2>3 DEF Set, TypeOK
  <2> QED
    BY <1>3, <2>1, <2>2, <2>3, OnlyRegisters
<1>4. ASSUME NEW s \in Sockets, NEW w \in Workers, Present(s)',
             call'[w].op = "lookup", s \in call'[w].ids
      PROVE  <<call'[w].topic, s>> \in held'
  <2>1. CASE call'[w] = call[w]
    <3>1. <<call[w].topic, s>> \in held /\ call[w].topic \in Topics
      BY <1>2, <1>4, <2>1, CallTopic DEF Ownership, TypeOK
    <3> QED
      BY <1>2, <1>4, <2>1, <3>1
  <2>2. ASSUME NEW t \in Topics, ReadIndex(w, t) PROVE <<call'[w].topic, s>> \in held'
    <3>1. call'[w] = [op |-> "lookup", topic |-> t, ids |-> index[t]]
      BY <2>2, OwnCall DEF ReadIndex
    <3>2. <<t, s>> \in held
      BY <1>2, <1>4, <3>1 DEF Ownership
    <3> QED
      BY <1>2, <1>4, <3>1, <3>2
  <2>3. ASSUME ReadInterests(w) PROVE FALSE
    <3>1. call'[w].op \in {"idle", "prune"}
      BY <2>3 DEF ReadInterests, Continue, Idle, TypeOK
    <3> QED
      BY <1>4, <3>1
  <2>4. ASSUME NEW c \in Conns, ReadTopicsToDrop(w, c) PROVE FALSE
    <3>1. call'[w].op = "drop"
      BY <2>4 DEF ReadTopicsToDrop, Begin, TypeOK
    <3> QED
      BY <1>4, <3>1
  <2>5. ASSUME Crash PROVE FALSE
    BY <1>4, <2>5 DEF Crash, Idle
  <2> QED
    BY <1>4, <2>1, <2>2, <2>3, <2>4, <2>5, StoreStep, CallSteps
<1>5. ASSUME NEW s \in Sockets, NEW w \in Workers, Present(s)', call'[w].op = "prune",
             s \in call'[w].stale
      PROVE  FALSE
  <2>1. CASE call'[w] = call[w]
    BY <1>2, <1>5, <2>1 DEF Ownership
  <2>2. ASSUME ReadInterests(w) PROVE FALSE
    <3>1. call[w].op = "lookup" /\ call[w].topic \in Topics
      BY <2>2, CallTopic DEF ReadInterests, TypeOK
    <3>2. call'[w].stale = Stale(w)
      BY <1>5, <2>2 DEF ReadInterests, Continue, Idle, TypeOK
    <3>3. s \in call[w].ids /\ ~Live(call[w].topic, s)
      BY <1>5, <3>2 DEF Stale
    <3>4. <<call[w].topic, s>> \in held
      BY <1>2, <1>5, <3>1, <3>3 DEF Ownership
    <3> QED
      BY <3>1, <3>3, <3>4, HeldIsLive
  <2>3. ASSUME NEW t \in Topics, ReadIndex(w, t) PROVE FALSE
    <3>1. call'[w].op = "lookup"
      BY <2>3 DEF ReadIndex, Begin, TypeOK
    <3> QED
      BY <1>5, <3>1
  <2>4. ASSUME NEW c \in Conns, ReadTopicsToDrop(w, c) PROVE FALSE
    <3>1. call'[w].op = "drop"
      BY <2>4 DEF ReadTopicsToDrop, Begin, TypeOK
    <3> QED
      BY <1>5, <3>1
  <2>5. ASSUME Crash PROVE FALSE
    BY <1>5, <2>5 DEF Crash, Idle
  <2> QED
    BY <1>5, <2>1, <2>2, <2>3, <2>4, <2>5, StoreStep, CallSteps
<1> QED
  BY <1>1, <1>3, <1>4, <1>5 DEF Ownership

\* What a step does to the refresher's call.
LEMMA RefresherStep ==
    ASSUME TypeOK, [LifecycleNext]_allVars
    PROVE  \/ call'[Refresher] = call[Refresher]
           \/ Crash
           \/ \E s \in Sockets : RefreshNext(s)
           \/ RefreshStep \/ RefreshDone \/ RefreshFails
<1>1. ASSUME NEW w \in Workers, w # Refresher, Aside(w)
      PROVE  call'[Refresher] = call[Refresher]
  BY <1>1, AsideStep, OthersStep
<1>2. ASSUME NEW s \in Sockets, \/ Connect(s) \/ Disconnect(s) \/ DropFails(s)
                                \/ \E t \in Topics, p \in Predicates : Register(t, s, p)
      PROVE  UNCHANGED call
  BY <1>2 DEF Connect, Disconnect, DropFails, Register, Set, vars
<1>3. ASSUME StartSweep \/ Stop \/ LifecycleTick \/ UNCHANGED allVars
      PROVE  UNCHANGED call
  BY <1>3 DEF StartSweep, Stop, LifecycleTick, Tick, allVars, vars
<1>4. ASSUME NEW k \in Conns, NEW t \in Topics, NEW p \in Predicates, ConsoleSet(t, k, p)
      PROVE  UNCHANGED call
  BY <1>4 DEF ConsoleSet, Set
<1>5. ASSUME NEW w \in Workers, Publish(w) PROVE call'[Refresher] = call[Refresher]
  BY <1>1, <1>5 DEF Aside, Publish
<1>6. ASSUME NEW k \in Conns, NEW w \in Workers, ConsoleDelete(w, k)
      PROVE  call'[Refresher] = call[Refresher]
  BY <1>1, <1>6 DEF Aside, ConsoleDelete
<1>7. ASSUME NEW s \in Sockets, NEW w \in Workers \ {Refresher},
             StartDrop(w, s) \/ FinishDrop(w, s)
      PROVE  call'[Refresher] = call[Refresher]
  BY <1>1, <1>7 DEF Aside
<1> QED
  BY <1>2, <1>3, <1>4, <1>5, <1>6, <1>7 DEF LifecycleNext, SocketStep, Sweep

\* The call of a refresh, when it goes on, stays with its connection.
LEMMA RefreshStepCall ==
    ASSUME TypeOK, RefreshStep
    PROVE  /\ call[Refresher].op \in {"refresh", "extend"} /\ call'[Refresher].op = "extend"
           /\ call'[Refresher].conn = call[Refresher].conn
<1>0. Refresher \in Workers
  BY LifecycleAssumption
<1>1. PICK t \in Topics : ExtendInterest(Refresher, t) \/ ExtendIndex(Refresher, t)
  BY DEF RefreshStep
<1>2. call[Refresher] \in [op : {"refresh", "extend"}, conn : Conns,
                           topics : SUBSET Topics, pending : SUBSET Topics]
  BY <1>0, <1>1 DEF ExtendInterest, ExtendIndex, TypeOK, Calls, Idle
<1>3. CASE ExtendInterest(Refresher, t)
  <2>1. call'[Refresher] = [call[Refresher] EXCEPT !.op = "extend", !.topics = @ \ {t},
                                                   !.pending = {t}]
    BY <1>0, <1>3, OwnCall DEF ExtendInterest
  <2> QED
    BY <1>2, <2>1
<1>4. CASE ExtendIndex(Refresher, t)
  <2>1. call'[Refresher] = [call[Refresher] EXCEPT !.pending = @ \ {t}]
    BY <1>0, <1>4, OwnCall DEF ExtendIndex
  <2> QED
    BY <1>2, <1>4, <2>1 DEF ExtendIndex
<1> QED
  BY <1>1, <1>3, <1>4

\* Only the ticker, the sweeps and the ends of an instance touch the clocks.
LEMMA ClockSteps ==
    ASSUME [LifecycleNext]_allVars
    PROVE  \/ UNCHANGED <<due, fired, sweep, lag, misses, goneFor, stopped, drained>>
           \/ StartSweep \/ (\E s \in Sockets : RefreshNext(s)) \/ RefreshStep \/ RefreshDone
           \/ RefreshFails \/ LifecycleTick \/ Stop \/ Crash
<1> DEFINE clocks == <<due, fired, sweep, lag, misses, goneFor, stopped, drained>>
<1>1. ASSUME NEW s \in Sockets, SocketStep(s) PROVE UNCHANGED clocks
  BY <1>1 DEF SocketStep, Connect, Disconnect, DropFails, Register, StartDrop, FinishDrop,
              appVars, stopVars
<1>2. ASSUME NEW k \in Conns, NEW t \in Topics, NEW p \in Predicates, ConsoleSet(t, k, p)
      PROVE  UNCHANGED clocks
  BY <1>2 DEF ConsoleSet, appVars, stopVars
<1>3. ASSUME NEW w \in Workers, Publish(w) PROVE UNCHANGED clocks
  BY <1>3 DEF Publish, appVars, stopVars
<1>4. ASSUME NEW k \in Conns, NEW w \in Workers, ConsoleDelete(w, k) PROVE UNCHANGED clocks
  BY <1>4 DEF ConsoleDelete, appVars, stopVars
<1>5. ASSUME UNCHANGED allVars PROVE UNCHANGED clocks
  BY <1>5 DEF allVars, appVars, stopVars
<1> HIDE DEF clocks
<1>6. UNCHANGED clocks
      \/ StartSweep \/ (\E s \in Sockets : RefreshNext(s)) \/ RefreshStep \/ RefreshDone
      \/ RefreshFails \/ LifecycleTick \/ Stop \/ Crash
  BY <1>1, <1>2, <1>3, <1>4, <1>5 DEF LifecycleNext, Sweep
<1> QED
  BY <1>6 DEF clocks

\* The ticker and the sweeps keep to each other, if a sweep is never as late as
\* the next tick.
LEMMA TickerStep ==
    ASSUME TypeOK, AppTypeOK, Roles, Ticker, Lag < Interval, [LifecycleNext]_allVars
    PROVE  Ticker'
<1>0. /\ Refresher \in Workers /\ Idle.op = "idle"
      /\ Interval \in Nat \ {0} /\ Lag \in Nat
      /\ lag \in 0 .. Lag /\ due \in 1 .. Interval
  BY LifecycleAssumption, IntervalType DEF Idle, AppTypeOK
<1> DEFINE clocks == <<due, fired, sweep, lag, stopped, drained>>
<1>1. CASE UNCHANGED clocks /\ call'[Refresher] = call[Refresher]
  BY <1>1 DEF Ticker, Sweeping
<1> HIDE DEF clocks
<1>2. CASE StartSweep
  <2>1. call'[Refresher] = Idle /\ call[Refresher] = Idle
    BY <1>2 DEF StartSweep, Sweeping, vars
  <2>2. CASE tracked = {}
    BY <1>2, <2>1, <2>2 DEF StartSweep, Ticker, Sweeping, stopVars
  <2>3. CASE tracked # {}
    BY <1>2, <2>1, <2>3 DEF StartSweep, Ticker, Sweeping, stopVars
  <2> QED
    BY <2>2, <2>3
<1>3. ASSUME NEW s \in Sockets, RefreshNext(s) PROVE Ticker'
  <2>1. sweep # {} /\ call[Refresher] = Idle
    BY <1>3 DEF RefreshNext
  <2>2. ~fired /\ ~stopped /\ drained = 0 /\ due = Interval - lag
    BY <2>1 DEF Ticker, Sweeping
  <2>3. UNCHANGED <<due, fired, stopped, drained>>
    BY <1>3 DEF RefreshNext, stopVars
  <2>4. CASE topicsOf[s] = {}
    <3>1. lag' = IF sweep' = {} THEN 0 ELSE lag
      BY <1>3, <2>4 DEF RefreshNext
    <3>2. call' = call
      BY <1>3, <2>4 DEF RefreshNext, vars
    <3>3. CASE sweep' = {}
      BY <2>1, <2>2, <2>3, <3>2, <3>3 DEF Ticker, Sweeping
    <3>4. CASE sweep' # {}
      BY <2>1, <2>2, <2>3, <3>1, <3>2, <3>4 DEF Ticker, Sweeping
    <3> QED
      BY <3>3, <3>4
  <2>5. CASE topicsOf[s] # {}
    <3>1. lag' = lag
      BY <1>3, <2>5 DEF RefreshNext
    <3> QED
      BY <2>2, <2>3, <3>1 DEF Ticker
  <2> QED
    BY <2>4, <2>5
<1>4. CASE RefreshStep
  <2>1. call[Refresher] # Idle /\ call'[Refresher] # Idle
    BY <1>0, <1>4, RefreshStepCall
  <2>2. UNCHANGED <<due, fired, sweep, lag, stopped, drained>>
    BY <1>4 DEF RefreshStep, appVars, stopVars
  <2> QED
    BY <2>1, <2>2 DEF Ticker, Sweeping
<1>5. CASE RefreshDone \/ RefreshFails
  <2>1. call[Refresher] # Idle /\ call'[Refresher] = Idle
    BY <1>0, <1>5, OwnCall DEF RefreshDone, RefreshFails, ExtendConn, Abandon
  <2>2. UNCHANGED <<due, fired, sweep, stopped, drained>>
    BY <1>5 DEF RefreshDone, RefreshFails, stopVars
  <2>3. lag' = IF sweep = {} THEN 0 ELSE lag
    BY <1>5 DEF RefreshDone, RefreshFails
  <2>4. ~fired
    BY <2>1 DEF Ticker, Sweeping
  <2> QED
    BY <2>1, <2>2, <2>3, <2>4 DEF Ticker, Sweeping
<1>6. CASE LifecycleTick
  <2>1. UNCHANGED <<call, sweep, stopped>>
    BY <1>6 DEF LifecycleTick, Tick
  <2>2. Sweeping' <=> Sweeping
    BY <2>1 DEF Sweeping
  <2>3. CASE stopped
    <3>1. UNCHANGED <<due, fired>>
      BY <1>6, <2>3 DEF LifecycleTick
    <3> QED
      BY <2>1, <2>2, <2>3, <3>1 DEF Ticker
  <2>4. CASE ~stopped
    <3>1. due' = IF due = 1 THEN Interval ELSE due - 1
      BY <1>6, <2>4 DEF LifecycleTick
    <3>2. fired' <=> (fired \/ due = 1)
      BY <1>6, <2>4 DEF LifecycleTick
    <3>3. drained' = 0
      BY <1>6, <2>4 DEF LifecycleTick, Draining, Ticker
    <3>4. CASE fired \/ Sweeping
      <4>1. lag < Lag /\ lag' = lag + 1
        BY <1>6, <3>4 DEF LifecycleTick
      <4>2. due = Interval - lag
        BY <2>4, <3>4 DEF Ticker
      <4>3. due # 1
        BY <1>0, <4>1, <4>2
      <4>4. due' = Interval - lag'
        BY <1>0, <3>1, <4>1, <4>2, <4>3
      <4>5. fired' <=> fired
        BY <3>2, <4>3
      <4> QED
        BY <2>1, <2>2, <2>4, <3>3, <4>4, <4>5 DEF Ticker
    <3>5. CASE ~(fired \/ Sweeping)
      <4>1. lag' = 0
        BY <1>6, <3>5 DEF LifecycleTick
      <4>2. fired' => due' = Interval - lag'
        BY <1>0, <3>1, <3>2, <3>5, <4>1
      <4> QED
        BY <2>1, <2>2, <2>4, <3>3, <3>5, <4>2 DEF Ticker
    <3> QED
      BY <3>4, <3>5
  <2> QED
    BY <2>3, <2>4
<1>7. CASE Stop
  BY <1>7 DEF Stop, Ticker
<1>8. CASE Crash
  <2>1. call'[Refresher] = Idle
    BY <1>0, <1>8 DEF Crash
  <2> QED
    BY <1>8, <2>1 DEF Crash, Ticker, Sweeping, stopVars
<1> QED
  BY <1>1, <1>2, <1>3, <1>4, <1>5, <1>6, <1>7, <1>8, RefresherStep, ClockSteps DEF clocks

-----------------------------------------------------------------------------
(* How long it can take.                                                    *)

LEMMA Rest ==
    ASSUME NEW m \in Nat, NEW n \in Nat, n <= m
    PROVE  m - n \in Nat
  OBVIOUS

LEMMA OneMore ==
    ASSUME NEW m \in Nat, m > 0, NEW i \in Nat
    PROVE  (m - 1) * i \in Nat /\ m * i = (m - 1) * i + i
<1>1. m - 1 \in Nat /\ m = (m - 1) + 1
  OBVIOUS
<1>2. \A n \in Nat : (n + 1) * i = n * i + i /\ n * i \in Nat
  OBVIOUS
<1> QED
  BY <1>1, <1>2

\* Unless the clock moves, the keys of an open socket do not need to last
\* longer than before, except once they have been renewed.
LEMMA NeedStep ==
    ASSUME TypeOK, AppTypeOK, AppTypeOK', Roles, Ownership, Ticker, Keeping,
           [LifecycleNext]_allVars, ~LifecycleTick, ~Crash,
           NEW t \in Topics, NEW s \in Sockets, <<t, s>> \in held,
           ~(RefreshDone /\ call[Refresher].conn = s)
    PROVE  Need(s)' <= Need(s)
<1> DEFINE slack == (MaxMisses - misses[s]) * Interval
<1>0. /\ Refresher \in Workers /\ Idle.op = "idle"
      /\ Interval \in Nat \ {0} /\ Lag \in Nat /\ Drain \in Nat /\ MaxMisses \in Nat
      /\ lag \in 0 .. Lag /\ due \in 1 .. Interval /\ misses[s] \in 0 .. MaxMisses
      /\ drained \in 0 .. Drain /\ Need(s) \in Nat /\ slack \in Nat
  <2>1. /\ Refresher \in Workers /\ Idle.op = "idle"
        /\ Interval \in Nat \ {0} /\ Lag \in Nat /\ Drain \in Nat /\ MaxMisses \in Nat
        /\ lag \in 0 .. Lag /\ due \in 1 .. Interval /\ misses[s] \in 0 .. MaxMisses
        /\ drained \in 0 .. Drain /\ Need(s) \in Nat
    BY LifecycleAssumption, IntervalType, NeedType DEF Idle, AppTypeOK
  <2>2. MaxMisses - misses[s] \in Nat
    BY <2>1
  <2> QED
    BY <2>1, <2>2
<1> HIDE DEF slack
<1>1. ASSUME UNCHANGED <<due, lag, misses, stopped, drained>>, Pending(s)' <=> Pending(s)
      PROVE  Need(s)' = Need(s)
  BY <1>1 DEF Need
<1>2. ASSUME UNCHANGED <<due, misses, stopped, drained>>, ~Pending(s), ~Pending(s)'
      PROVE  Need(s)' = Need(s)
  BY <1>2 DEF Need
<1>3. CASE /\ UNCHANGED <<due, fired, sweep, lag, misses, goneFor, stopped, drained>>
           /\ call'[Refresher] = call[Refresher]
  BY <1>0, <1>1, <1>3 DEF Pending, Refreshing
<1>4. CASE StartSweep
  <2>1. s \in tracked /\ fired
    BY <1>4 DEF StartSweep, Ownership, Tracking
  <2>2. Pending(s) /\ Pending(s)' /\ UNCHANGED <<due, lag, misses, stopped, drained>>
    BY <1>4, <2>1 DEF StartSweep, Pending, stopVars
  <2> QED
    BY <1>0, <1>1, <2>2
<1>5. ASSUME NEW q \in Sockets, RefreshNext(q) PROVE Need(s)' <= Need(s)
  <2>1. /\ q \in sweep /\ call[Refresher] = Idle /\ sweep' = sweep \ {q} /\ ~fired
        /\ UNCHANGED <<due, fired, misses, stopped, drained>>
    BY <1>5 DEF RefreshNext, stopVars, Ticker, Sweeping
  <2>2. CASE topicsOf[q] = {}
    <3>1. q # s
      BY <2>2 DEF Keeping
    <3>2. call' = call /\ lag' = IF sweep' = {} THEN 0 ELSE lag
      BY <1>5, <2>2 DEF RefreshNext, vars
    <3>3. Pending(s)' <=> Pending(s)
      BY <2>1, <3>1, <3>2 DEF Pending, Refreshing
    <3>4. CASE sweep' = {}
      <4>1. ~Pending(s)
        BY <1>0, <2>1, <3>1, <3>4 DEF Pending, Refreshing
      <4> QED
        BY <1>0, <1>2, <2>1, <3>3, <4>1
    <3>5. CASE sweep' # {}
      BY <1>0, <1>1, <2>1, <3>2, <3>3, <3>5
    <3> QED
      BY <3>4, <3>5
  <2>3. CASE topicsOf[q] # {}
    <3>1. lag' = lag /\ ReadTopicsToRefresh(Refresher, q)
      BY <1>5, <2>3 DEF RefreshNext
    <3>2. call'[Refresher] = [op |-> "refresh", conn |-> q, topics |-> topicsOf[q],
                              pending |-> {}]
      BY <1>0, <3>1, OwnCall DEF ReadTopicsToRefresh
    <3>3. Pending(s)' <=> Pending(s)
      BY <1>0, <2>1, <3>2 DEF Pending, Refreshing
    <3> QED
      BY <1>0, <1>1, <2>1, <3>1, <3>3
  <2> QED
    BY <2>2, <2>3
<1>6. CASE RefreshStep
  <2>1. Refreshing(s)' <=> Refreshing(s)
    BY <1>6, RefreshStepCall DEF Refreshing
  <2>2. UNCHANGED <<due, fired, sweep, lag, misses, stopped, drained>>
    BY <1>6 DEF RefreshStep, appVars, stopVars
  <2> QED
    BY <1>0, <1>1, <2>1, <2>2 DEF Pending
<1>7. CASE RefreshDone \/ RefreshFails
  <2>1. call[Refresher].op # "idle" /\ call'[Refresher] = Idle
    BY <1>0, <1>7, OwnCall DEF RefreshDone, RefreshFails, ExtendConn, Abandon
  <2>2. UNCHANGED <<due, fired, sweep, stopped, drained>>
    BY <1>7 DEF RefreshDone, RefreshFails, stopVars
  <2>3. lag' = IF sweep = {} THEN 0 ELSE lag
    BY <1>7 DEF RefreshDone, RefreshFails
  <2>4. ~fired
    BY <1>0, <2>1 DEF Ticker, Sweeping
  <2>5. CASE call[Refresher].conn # s
    <3>1. misses'[s] = misses[s]
      BY <1>7, <2>5 DEF RefreshDone, RefreshFails, AppTypeOK
    <3>2. Pending(s)' <=> Pending(s)
      BY <1>0, <2>1, <2>2, <2>5 DEF Pending, Refreshing
    <3>3. CASE sweep = {}
      <4>1. ~Pending(s)
        BY <2>4, <2>5, <3>3 DEF Pending, Refreshing
      <4> QED
        BY <1>0, <2>2, <3>1, <3>2, <4>1 DEF Need
    <3>4. CASE sweep # {}
      BY <1>0, <2>2, <2>3, <3>1, <3>2, <3>4 DEF Need
    <3> QED
      BY <3>3, <3>4
  <2>6. CASE call[Refresher].conn = s
    <3>1. RefreshFails
      BY <1>7, <2>6
    <3>2. CASE stopped
      BY <1>0, <2>2, <3>2 DEF Need
    <3>3. CASE ~stopped
      <4>1. misses[s] < MaxMisses /\ misses'[s] = misses[s] + 1
        BY <2>6, <3>1, <3>3 DEF RefreshFails, AppTypeOK
      <4>2. due = Interval - lag
        BY <1>0, <2>1, <3>3 DEF Ticker, Sweeping
      <4>3. Pending(s)
        BY <2>1, <2>6 DEF Pending, Refreshing
      <4> DEFINE rest == (MaxMisses - misses'[s]) * Interval
      <4>4. rest \in Nat /\ slack = rest + Interval
        <5>1. MaxMisses - misses[s] \in Nat /\ MaxMisses - misses[s] > 0
          BY <1>0, <4>1
        <5>2. MaxMisses - misses'[s] = MaxMisses - misses[s] - 1
          BY <1>0, <4>1
        <5> QED
          BY <1>0, <5>1, <5>2, OneMore DEF slack
      <4>5. Need(s) = Lag - lag + slack + Drain
        BY <3>3, <4>3 DEF Need, slack
      <4>6. Need(s)' = (IF Pending(s)' THEN Lag - lag' ELSE due + Lag) + rest + Drain
        BY <2>2, <3>3 DEF Need
      <4>7. Pending(s)' => lag' = lag
        BY <1>0, <2>1, <2>2, <2>3, <2>4 DEF Pending, Refreshing
      <4> HIDE DEF rest
      <4> QED
        BY <1>0, <4>2, <4>4, <4>5, <4>6, <4>7
    <3> QED
      BY <3>2, <3>3
  <2> QED
    BY <2>5, <2>6
<1>8. CASE Stop
  <2>1. stopped' /\ ~stopped /\ drained' = drained /\ drained = 0
    BY <1>8 DEF Stop, Ticker
  <2>2. Need(s)' = Drain - drained
    BY <2>1 DEF Need
  <2>3. Need(s) = (IF Pending(s) THEN Lag - lag ELSE due + Lag) + slack + Drain
    BY <2>1 DEF Need, slack
  <2> QED
    BY <1>0, <2>1, <2>2, <2>3
<1> QED
  BY <1>3, <1>4, <1>5, <1>6, <1>7, <1>8, ClockSteps, RefresherStep

-----------------------------------------------------------------------------
(* Keeping.                                                                 *)

\* A call of another goroutine takes nothing from an interest that is in both
\* its sets and that no prune or drop is after.
LEMMA WritesKeep ==
    ASSUME TypeOK, KeysConsistent, NEW w \in Workers, Writes(w),
           NEW t \in Topics, NEW c \in Conns, c \in index[t], t \in topicsOf[c],
           call[w].op = "prune" => c \notin call[w].stale,
           call[w].op = "drop" => call[w].conn # c
    PROVE  /\ c \in index'[t] /\ t \in topicsOf'[c]
           /\ interestTTL'[<<t, c>>] >= interestTTL[<<t, c>>]
           /\ indexTTL'[t] >= indexTTL[t]
           /\ connTTL'[c] >= connTTL[c]
<1> DEFINE k == <<t, c>>
<1>1. /\ k \in Keys /\ TTL \in Nat
      /\ interestTTL[k] \in 0 .. TTL /\ indexTTL[t] \in 0 .. TTL /\ connTTL[c] \in 0 .. TTL
  BY StoreAssumption DEF TypeOK, Keys
<1> HIDE DEF k
<1>2. CASE Prune(w)
  <2>1. call[w].topic \in Topics /\ UNCHANGED <<interestTTL, topicsOf, connTTL>>
    BY <1>2, CallTopic DEF Prune, TypeOK
  <2>2. c \in index'[t]
    BY <1>2, <2>1 DEF Prune, TypeOK
  <2>3. indexTTL'[t] = indexTTL[t]
    BY <1>2, <2>1, <2>2 DEF Prune, TypeOK
  <2> QED
    BY <1>1, <2>1, <2>2, <2>3 DEF k
<1>3. CASE CommitDrop(w)
  <2>1. call[w].conn # c /\ call[w].conn \in Conns
    BY <1>3, CallConn DEF CommitDrop, TypeOK
  <2>2. c \in index'[t] /\ indexTTL'[t] = indexTTL[t]
    BY <1>3, <2>1 DEF CommitDrop
  <2>3. topicsOf'[c] = topicsOf[c] /\ connTTL'[c] = connTTL[c]
    BY <1>3, <2>1 DEF CommitDrop, TypeOK
  <2>4. interestTTL'[k] = interestTTL[k]
    BY <1>1, <1>3, <2>1 DEF CommitDrop, k
  <2> QED
    BY <1>1, <2>2, <2>3, <2>4 DEF k
<1>4. CASE ExtendConn(w)
  <2>1. UNCHANGED <<interestTTL, index, indexTTL, topicsOf>>
    BY <1>4 DEF ExtendConn
  <2>2. connTTL'[c] = connTTL[c] \/ connTTL'[c] = Renewed(connTTL[c])
    BY <1>4 DEF ExtendConn, TypeOK
  <2>3. connTTL'[c] >= connTTL[c]
    BY <1>1, <2>2 DEF Renewed
  <2> QED
    BY <1>1, <2>1, <2>3 DEF k
<1>5. ASSUME NEW u \in Topics, ExtendInterest(w, u)
      PROVE  /\ UNCHANGED <<index, indexTTL, topicsOf, connTTL>>
             /\ interestTTL'[k] >= interestTTL[k]
  <2>1. interestTTL'[k] = interestTTL[k] \/ interestTTL'[k] = Renewed(interestTTL[k])
    BY <1>1, <1>5 DEF ExtendInterest, TypeOK
  <2> QED
    BY <1>1, <1>5, <2>1 DEF ExtendInterest, Renewed
<1>6. ASSUME NEW u \in Topics, ExtendIndex(w, u)
      PROVE  /\ UNCHANGED <<interestTTL, index, topicsOf, connTTL>>
             /\ indexTTL'[t] >= indexTTL[t]
  <2>1. indexTTL'[t] = indexTTL[t] \/ indexTTL'[t] = Renewed(indexTTL[t])
    BY <1>6 DEF ExtendIndex, TypeOK
  <2> QED
    BY <1>1, <1>6, <2>1 DEF ExtendIndex, Renewed
<1>7. CASE \E u \in Topics : ExtendInterest(w, u)
  BY <1>1, <1>5, <1>7 DEF k
<1>8. CASE \E u \in Topics : ExtendIndex(w, u)
  BY <1>1, <1>6, <1>8 DEF k
<1> QED
  BY <1>2, <1>3, <1>4, <1>7, <1>8 DEF Writes

\* The same for a Set of another connection.
LEMMA SetKeeps ==
    ASSUME TypeOK, NEW u \in Topics, NEW d \in Conns, NEW p \in Predicates, Set(u, d, p),
           NEW t \in Topics, NEW c \in Conns, c \in index[t], t \in topicsOf[c]
    PROVE  /\ c \in index'[t] /\ t \in topicsOf'[c]
           /\ interestTTL'[<<t, c>>] >= interestTTL[<<t, c>>]
           /\ indexTTL'[t] >= indexTTL[t]
           /\ connTTL'[c] >= connTTL[c]
<1> DEFINE k == <<t, c>>
<1>1. /\ k \in Keys /\ TTL \in Nat
      /\ interestTTL[k] \in 0 .. TTL /\ indexTTL[t] \in 0 .. TTL /\ connTTL[c] \in 0 .. TTL
  BY StoreAssumption DEF TypeOK, Keys
<1> HIDE DEF k
<1>2. c \in index'[t] /\ t \in topicsOf'[c]
  BY DEF Set, TypeOK
<1>3. interestTTL'[k] = interestTTL[k] \/ interestTTL'[k] = TTL
  BY <1>1 DEF Set, TypeOK
<1>4. indexTTL'[t] = indexTTL[t] \/ indexTTL'[t] = TTL
  BY DEF Set, TypeOK
<1>5. connTTL'[c] = connTTL[c] \/ connTTL'[c] = TTL
  BY DEF Set, TypeOK
<1> QED
  BY <1>1, <1>2, <1>3, <1>4, <1>5 DEF k

\* While the clock stands still, an open socket's interest loses nothing.
LEMMA HeldKept ==
    ASSUME TypeOK, KeysConsistent, Ownership, Keeping, [LifecycleNext]_allVars, ~LifecycleTick,
           NEW t \in Topics, NEW s \in Sockets, <<t, s>> \in held
    PROVE  /\ s \in index'[t] /\ t \in topicsOf'[s]
           /\ interestTTL'[<<t, s>>] >= interestTTL[<<t, s>>]
           /\ indexTTL'[t] >= indexTTL[t]
           /\ connTTL'[s] >= connTTL[s]
<1>1. s \in Conns /\ s \in index[t] /\ t \in topicsOf[s] /\ Present(s)
  BY LifecycleAssumption DEF Keeping, Ownership, Present
<1>2. \A w \in Workers : /\ call[w].op = "prune" => s \notin call[w].stale
                         /\ call[w].op = "drop" => call[w].conn # s
  BY <1>1 DEF Ownership, Tracking
<1>3. CASE UNCHANGED redis
  <2>1. /\ interestTTL[<<t, s>>] \in Nat /\ indexTTL[t] \in Nat /\ connTTL[s] \in Nat
    BY <1>1, StoreAssumption DEF TypeOK, Keys
  <2> QED
    BY <1>1, <1>3, <2>1 DEF redis
<1>4. ASSUME NEW q \in Sockets, NEW u \in Topics, NEW p \in Predicates, Register(u, q, p)
      PROVE  q \in Conns /\ Set(u, q, p)
  BY <1>4, LifecycleAssumption DEF Register
<1>5. CASE \E u \in Topics, d \in Conns, p \in Predicates : Set(u, d, p)
  BY <1>1, <1>5, SetKeeps
<1>6. CASE \E w \in Workers : Writes(w)
  BY <1>1, <1>2, <1>6, WritesKeep
<1> QED
  BY <1>3, <1>4, <1>5, <1>6, LifecycleWrites

\* Only a frame of the socket makes it hold more.
LEMMA HeldGrows ==
    ASSUME [LifecycleNext]_allVars, NEW t \in Topics, NEW s \in Sockets,
           <<t, s>> \in held', <<t, s>> \notin held
    PROVE  \E p \in Predicates : Register(t, s, p)
<1>1. held' # held
  OBVIOUS
<1>2. ASSUME NEW q \in Sockets, NEW u \in Topics, NEW p \in Predicates, Register(u, q, p)
      PROVE  Register(t, s, p)
  <2>1. u = t /\ q = s
    BY <1>2 DEF Register
  <2> QED
    BY <1>2, <2>1
<1>3. ASSUME NEW q \in Sockets, \/ Connect(q) \/ Disconnect(q) \/ DropFails(q)
                                \/ \E w \in Workers : StartDrop(w, q) \/ FinishDrop(w, q)
      PROVE  FALSE
  BY <1>3 DEF Connect, Disconnect, DropFails, StartDrop, FinishDrop, appVars
<1>4. ~Sweep /\ ~LifecycleTick /\ ~Stop /\ ~Crash /\ ~UNCHANGED allVars
  BY <1>1 DEF Sweep, StartSweep, RefreshNext, RefreshStep, RefreshDone, RefreshFails,
              LifecycleTick, Stop, Crash, appVars, allVars
<1>5. ASSUME NEW w \in Workers, Publish(w) PROVE FALSE
  BY <1>1, <1>5 DEF Publish, appVars
<1>6. ASSUME NEW k \in Conns, NEW u \in Topics, NEW p \in Predicates, ConsoleSet(u, k, p)
      PROVE  FALSE
  BY <1>1, <1>6 DEF ConsoleSet, appVars
<1>7. ASSUME NEW k \in Conns, NEW w \in Workers, ConsoleDelete(w, k) PROVE FALSE
  BY <1>1, <1>7 DEF ConsoleDelete, appVars
<1> QED
  BY <1>2, <1>3, <1>4, <1>5, <1>6, <1>7 DEF LifecycleNext, SocketStep

LEMMA Monotone ==
    ASSUME NEW m \in Nat, NEW n \in Nat, m <= n, NEW i \in Nat
    PROVE  m * i <= n * i
<1>1. PICK d \in Nat : n = m + d
  <2>1. n - m \in Nat /\ n = m + (n - m)
    OBVIOUS
  <2> QED
    BY <2>1
<1>2. (m + d) * i = m * i + d * i
  OBVIOUS
<1>3. m * i \in Nat /\ d * i \in Nat
  OBVIOUS
<1> QED
  BY <1>1, <1>2, <1>3

\* A fresh time to live is always enough.
LEMMA NeedBound ==
    ASSUME AppTypeOK, Timing, NEW s \in Sockets
    PROVE  Need(s) < TTL
<1> DEFINE slack == (MaxMisses - misses[s]) * Interval
<1>1. /\ Interval \in Nat \ {0} /\ Lag \in Nat /\ Drain \in Nat /\ MaxMisses \in Nat
      /\ lag \in 0 .. Lag /\ due \in 1 .. Interval /\ misses[s] \in 0 .. MaxMisses
      /\ drained \in 0 .. Drain /\ TTL \in Nat
  BY LifecycleAssumption, StoreAssumption, IntervalType DEF AppTypeOK
<1>2. MaxMisses - misses[s] \in Nat /\ MaxMisses - misses[s] <= MaxMisses
  BY <1>1
<1>3. slack \in Nat /\ slack <= MaxMisses * Interval
  BY <1>1, <1>2, Monotone
<1>4. MaxMisses * Interval \in Nat
  BY <1>1
<1>5. (MaxMisses + 1) * Interval = MaxMisses * Interval + Interval
  BY <1>1
<1>6. MaxMisses * Interval + Interval + Lag + Drain < TTL
  BY <1>5 DEF Timing
<1> HIDE DEF slack
<1>7. CASE stopped
  <2>1. Need(s) = Drain - drained
    BY <1>7 DEF Need
  <2> QED
    BY <1>1, <1>4, <1>6, <2>1
<1>8. CASE ~stopped
  <2>1. Need(s) = (IF Pending(s) THEN Lag - lag ELSE due + Lag) + slack + Drain
    BY <1>8 DEF Need, slack
  <2> QED
    BY <1>1, <1>3, <1>4, <1>6, <2>1
<1> QED
  BY <1>7, <1>8

\* With each tick there is one tick less to wait.
LEMMA NeedTick ==
    ASSUME TypeOK, AppTypeOK, Ticker, Lag < Interval, LifecycleTick,
           NEW s \in Sockets, status[s] = "open"
    PROVE  Need(s)' = Need(s) - 1
<1> DEFINE slack == (MaxMisses - misses[s]) * Interval
<1>1. /\ Refresher \in Workers /\ Idle.op = "idle"
      /\ Interval \in Nat \ {0} /\ Lag \in Nat /\ Drain \in Nat /\ slack \in Nat
      /\ lag \in 0 .. Lag /\ due \in 1 .. Interval /\ drained \in 0 .. Drain
  <2>1. MaxMisses - misses[s] \in Nat
    BY LifecycleAssumption DEF AppTypeOK
  <2> QED
    BY LifecycleAssumption, IntervalType, <2>1 DEF AppTypeOK, Idle
<1> HIDE DEF slack
<1>2. UNCHANGED <<call, sweep, misses, stopped>>
  BY DEF LifecycleTick, Tick
<1>3. CASE stopped
  <2>1. drained' = drained + 1
    BY <1>3 DEF LifecycleTick, Draining
  <2> QED
    BY <1>1, <1>2, <1>3, <2>1 DEF Need
<1>4. CASE ~stopped
  <2>1. /\ due' = IF due = 1 THEN Interval ELSE due - 1
        /\ fired' <=> (fired \/ due = 1)
    BY <1>4 DEF LifecycleTick
  <2>2. /\ Need(s) = (IF Pending(s) THEN Lag - lag ELSE due + Lag) + slack + Drain
        /\ Need(s)' = (IF Pending(s)' THEN Lag - lag' ELSE due' + Lag) + slack + Drain
    BY <1>2, <1>4 DEF Need, slack
  <2>3. Pending(s)' <=> Pending(s) \/ due = 1
    BY <1>2, <2>1 DEF Pending, Refreshing
  <2>4. Pending(s) => fired \/ Sweeping
    BY <1>1 DEF Pending, Refreshing, Sweeping
  <2>5. CASE fired \/ Sweeping
    <3>1. lag < Lag /\ lag' = lag + 1 /\ due = Interval - lag
      BY <1>4, <2>5 DEF LifecycleTick, Ticker
    <3>2. due # 1
      BY <1>1, <3>1
    <3> QED
      BY <1>1, <2>1, <2>2, <2>3, <3>1, <3>2
  <2>6. CASE ~(fired \/ Sweeping)
    <3>1. lag' = 0
      BY <2>6 DEF LifecycleTick
    <3> QED
      BY <1>1, <2>1, <2>2, <2>3, <2>4, <2>6, <3>1
  <2> QED
    BY <2>5, <2>6
<1> QED
  BY <1>3, <1>4

\* What RefreshDone finds renewed, whatever it was on its list.
LEMMA DoneRenewed ==
    ASSUME TypeOK, AppTypeOK, Keeping, Renewing, RefreshDone,
           NEW t \in Topics, NEW s \in Sockets, <<t, s>> \in held, call[Refresher].conn = s
    PROVE  /\ interestTTL'[<<t, s>>] + lag >= TTL
           /\ indexTTL'[t] + lag >= TTL
           /\ connTTL'[s] = TTL
           /\ s \in index'[t] /\ t \in topicsOf'[s]
<1>1. /\ call[Refresher].op = "extend" /\ call[Refresher].topics = {}
      /\ call[Refresher].pending = {}
      /\ connTTL' = [connTTL EXCEPT ![s] = Renewed(@)]
      /\ UNCHANGED <<interestTTL, index, indexTTL, topicsOf>>
  BY DEF RefreshDone, ExtendConn
<1>2. Refreshing(s)
  BY <1>1 DEF Refreshing
<1>3. interestTTL[<<t, s>>] + lag >= TTL /\ indexTTL[t] + lag >= TTL
  BY <1>1, <1>2 DEF Renewing
<1>4. s \in Conns /\ connTTL[s] > 0 /\ s \in index[t] /\ t \in topicsOf[s]
  BY HeldIsLive, LifecycleAssumption
<1>5. connTTL'[s] = TTL
  BY <1>1, <1>4, StoreAssumption DEF Renewed, TypeOK
<1> QED
  BY <1>1, <1>3, <1>4, <1>5

\* Each key of what an open socket holds outlasts the time until it is renewed.
LEMMA KeepingStep ==
    ASSUME TypeOK, TypeOK', KeysConsistent, LifeInv, AppTypeOK', Timing,
           [LifecycleNext]_allVars
    PROVE  Keeping'
<1> SUFFICES ASSUME NEW t \in Topics, NEW s \in Sockets, <<t, s>> \in held'
             PROVE  /\ s \in index'[t] /\ t \in topicsOf'[s]
                    /\ interestTTL'[<<t, s>>] > Need(s)'
                    /\ indexTTL'[t] > Need(s)'
                    /\ connTTL'[s] > Need(s)'
  BY DEF Keeping
<1> USE DEF LifeInv
<1>0. /\ s \in Conns /\ <<t, s>> \in Keys /\ TTL \in Nat
      /\ Lag \in Nat /\ Drain \in Nat /\ MaxMisses \in Nat /\ Interval \in Nat \ {0}
  BY LifecycleAssumption, StoreAssumption, IntervalType DEF Keys
<1>1. /\ interestTTL[<<t, s>>] \in Nat /\ indexTTL[t] \in Nat /\ connTTL[s] \in Nat
      /\ interestTTL'[<<t, s>>] \in Nat /\ indexTTL'[t] \in Nat /\ connTTL'[s] \in Nat
  BY <1>0 DEF TypeOK
<1>2. Need(s) \in Nat /\ Need(s) < TTL
  BY NeedType, NeedBound
<1>3. /\ drained \in Nat /\ drained <= Drain /\ drained' \in Nat /\ drained' <= Drain
      /\ lag \in Nat /\ lag <= Lag /\ lag' \in Nat /\ lag' <= Lag
      /\ due \in Nat /\ due <= Interval /\ due' \in Nat
  BY <1>0 DEF AppTypeOK
<1>4. ASSUME NEW p \in Predicates, Register(t, s, p)
      PROVE  /\ s \in index'[t] /\ t \in topicsOf'[s]
             /\ interestTTL'[<<t, s>>] > Need(s)'
             /\ indexTTL'[t] > Need(s)'
             /\ connTTL'[s] > Need(s)'
  <2>1. /\ s \in index'[t] /\ t \in topicsOf'[s]
        /\ interestTTL'[<<t, s>>] = TTL /\ indexTTL'[t] = TTL /\ connTTL'[s] = TTL
    BY <1>0, <1>4 DEF Register, Set, TypeOK
  <2>2. Need(s)' = Need(s)
    BY <1>4 DEF Register, Set, Need, Pending, Refreshing, stopVars
  <2> QED
    BY <1>2, <2>1, <2>2
<1>5. CASE <<t, s>> \in held /\ LifecycleTick
  <2>1. status[s] = "open"
    BY <1>5 DEF Ownership
  <2>2. Need(s)' = Need(s) - 1
    BY <1>5, <2>1, NeedTick DEF Timing
  <2>3. /\ interestTTL[<<t, s>>] > Need(s) /\ indexTTL[t] > Need(s) /\ connTTL[s] > Need(s)
        /\ s \in index[t] /\ t \in topicsOf[s]
    BY <1>5 DEF Keeping
  <2>4. Need(s)' \in Nat
    <3>1. stopped' = stopped
      BY <1>5 DEF LifecycleTick
    <3>2. misses' = misses
      BY <1>5 DEF LifecycleTick
    <3>3. Drain - drained' \in Nat /\ Lag - lag' \in Nat /\ due' + Lag \in Nat
      <4>1. Drain - drained' \in Nat
        BY <1>0, <1>3, Rest
      <4>2. Lag - lag' \in Nat
        BY <1>0, <1>3, Rest
      <4>3. due' + Lag \in Nat
        <5>1. \A n \in Nat : n + Lag \in Nat
          BY <1>0
        <5> QED
          BY <1>3, <5>1
      <4> QED
        BY <4>1, <4>2, <4>3
    <3>4. (MaxMisses - misses[s]) \in Nat
      BY <1>0 DEF AppTypeOK
    <3>5. (MaxMisses - misses[s]) * Interval \in Nat
      BY <1>0, <3>4
    <3> QED
      BY <1>0, <3>1, <3>2, <3>3, <3>5 DEF Need
  <2>5. Need(s) >= 1
    BY <1>2, <2>2, <2>4
  <2>6. /\ interestTTL'[<<t, s>>] = interestTTL[<<t, s>>] - 1
        /\ indexTTL'[t] = indexTTL[t] - 1 /\ connTTL'[s] = connTTL[s] - 1
    BY <1>0, <1>1, <1>2, <1>5, <2>3, <2>5 DEF LifecycleTick, Tick, Left
  <2>7. s \in index'[t] /\ t \in topicsOf'[s]
    BY <1>0, <1>1, <1>2, <1>5, <2>3, <2>5 DEF LifecycleTick, Tick
  <2> QED
    BY <1>1, <1>2, <2>2, <2>3, <2>6, <2>7
<1>6. CASE <<t, s>> \in held /\ RefreshDone /\ call[Refresher].conn = s
  <2>1. /\ interestTTL'[<<t, s>>] + lag >= TTL /\ indexTTL'[t] + lag >= TTL
        /\ connTTL'[s] = TTL /\ s \in index'[t] /\ t \in topicsOf'[s]
    BY <1>6, DoneRenewed
  <2> DEFINE all == MaxMisses * Interval
  <2>2. all \in Nat /\ all + Interval + Lag + Drain < TTL
    <3>1. (MaxMisses + 1) * Interval = all + Interval
      BY <1>0
    <3> QED
      BY <1>0, <3>1 DEF Timing
  <2>3. /\ UNCHANGED <<due, fired, sweep, stopped, drained>> /\ misses'[s] = 0
        /\ lag' = IF sweep = {} THEN 0 ELSE lag
    BY <1>6 DEF RefreshDone, stopVars
  <2>4. call[Refresher] # Idle /\ call'[Refresher] = Idle
    BY <1>6, OwnCall, LifecycleAssumption DEF RefreshDone, ExtendConn, Idle
  <2>5. ~fired /\ (~stopped => due = Interval - lag)
    BY <2>4 DEF Ticker, Sweeping
  <2>6. CASE stopped
    <3>1. Need(s)' = Drain - drained
      BY <2>3, <2>6 DEF Need
    <3> HIDE DEF all
    <3> QED
      BY <1>0, <1>1, <1>3, <2>1, <2>2, <3>1
  <2>7. CASE ~stopped
    <3>1. (MaxMisses - misses'[s]) * Interval = all
      BY <1>0, <2>3
    <3>2. Need(s)' = (IF Pending(s)' THEN Lag - lag' ELSE due + Lag) + all + Drain
      BY <2>3, <2>7, <3>1 DEF Need
    <3>3. Pending(s)' => lag' = lag
      BY <2>3, <2>4, <2>5 DEF Pending, Refreshing, Idle
    <3>4. Need(s)' <= due + Lag + all + Drain
      <4>1. CASE Pending(s)'
        <5>1. Need(s)' = Lag - lag + all + Drain
          BY <3>2, <3>3, <4>1
        <5> HIDE DEF all
        <5> QED
          BY <1>0, <1>3, <2>2, <5>1
      <4>2. CASE ~Pending(s)'
        <5>1. Need(s)' = due + Lag + all + Drain
          BY <3>2, <4>2
        <5> HIDE DEF all
        <5> QED
          BY <1>0, <1>3, <2>2, <5>1
      <4> QED
        BY <4>1, <4>2
    <3>5. Need(s)' \in Int
      <4>1. Pending(s)' => Need(s)' = Lag - lag + all + Drain
        BY <3>2, <3>3
      <4>2. ~Pending(s)' => Need(s)' = due + Lag + all + Drain
        BY <3>2
      <4> HIDE DEF all
      <4> QED
        BY <1>0, <1>3, <2>2, <4>1, <4>2
    <3> HIDE DEF all
    <3> QED
      BY <1>0, <1>1, <1>3, <2>1, <2>2, <2>5, <2>7, <3>4, <3>5
  <2> QED
    BY <2>6, <2>7
<1>7. CASE /\ <<t, s>> \in held /\ ~LifecycleTick /\ ~Crash
           /\ ~(RefreshDone /\ call[Refresher].conn = s)
  <2>1. Need(s)' <= Need(s)
    BY <1>7, NeedStep
  <2>2. /\ interestTTL[<<t, s>>] > Need(s) /\ indexTTL[t] > Need(s) /\ connTTL[s] > Need(s)
    BY <1>7 DEF Keeping
  <2>3. /\ s \in index'[t] /\ t \in topicsOf'[s]
        /\ interestTTL'[<<t, s>>] >= interestTTL[<<t, s>>]
        /\ indexTTL'[t] >= indexTTL[t]
        /\ connTTL'[s] >= connTTL[s]
    BY <1>7, HeldKept
  <2>4. Need(s)' \in Int
    <3>1. misses'[s] \in Nat /\ drained' \in Nat
      BY <1>0 DEF AppTypeOK
    <3>2. (MaxMisses - misses'[s]) \in Int
      BY <1>0, <3>1
    <3>3. (MaxMisses - misses'[s]) * Interval \in Int
      BY <1>0, <3>2
    <3> QED
      BY <1>0, <1>3, <3>1, <3>3 DEF Need
  <2> QED
    BY <1>1, <1>2, <2>1, <2>2, <2>3, <2>4
<1>8. ~Crash
  BY DEF Crash
<1> QED
  BY <1>4, <1>5, <1>6, <1>7, <1>8, HeldGrows

\* A refresh leaves out nothing that is not as good as renewed.
LEMMA RenewingStep ==
    ASSUME TypeOK, TypeOK', KeysConsistent, LifeInv, AppTypeOK', [LifecycleNext]_allVars
    PROVE  Renewing'
<1> SUFFICES ASSUME NEW t \in Topics, NEW s \in Sockets, <<t, s>> \in held', Refreshing(s)'
             PROVE  \/ t \in call'[Refresher].topics
                    \/ /\ interestTTL'[<<t, s>>] + lag' >= TTL
                       /\ t \in call'[Refresher].pending \/ indexTTL'[t] + lag' >= TTL
  BY DEF Renewing
<1> USE DEF LifeInv
<1> DEFINE k == <<t, s>>
<1>0. /\ s \in Conns /\ k \in Keys /\ TTL \in Nat /\ lag \in Nat
      /\ Refresher \in Workers /\ Idle.op = "idle"
  BY LifecycleAssumption, StoreAssumption DEF Keys, AppTypeOK, Idle
<1>1. /\ interestTTL[k] \in Nat /\ indexTTL[t] \in Nat
      /\ interestTTL'[k] \in Nat /\ indexTTL'[t] \in Nat
  BY <1>0 DEF TypeOK
<1>2. ASSUME NEW n \in Nat, NEW m \in Nat, NEW l \in Nat, n >= m, m + l >= TTL
      PROVE  n + l >= TTL
  BY <1>0, <1>2
<1>3. call'[Refresher] # Idle
  BY <1>0 DEF Refreshing
<1>4. ~Crash
  BY DEF Crash
<1> HIDE DEF k
<1>5. CASE call'[Refresher] = call[Refresher]
  <2>1. Refreshing(s) /\ Sweeping
    BY <1>3, <1>5 DEF Refreshing, Sweeping
  <2>2. CASE LifecycleTick
    <3>1. <<t, s>> \in held /\ lag' = lag + 1 /\ Tick
      BY <2>1, <2>2 DEF LifecycleTick
    <3>2. CASE t \in call[Refresher].topics
      BY <1>5, <3>2
    <3>3. CASE /\ interestTTL[k] + lag >= TTL
               /\ t \in call[Refresher].pending \/ indexTTL[t] + lag >= TTL
      <4>1. interestTTL'[k] >= interestTTL[k] - 1
        BY <1>0, <1>1, <3>1 DEF Tick, Left
      <4>2. indexTTL'[t] >= indexTTL[t] - 1
        BY <1>1, <3>1 DEF Tick, Left
      <4>3. interestTTL'[k] + lag' >= TTL
        BY <1>0, <1>1, <3>1, <3>3, <4>1
      <4>4. indexTTL[t] + lag >= TTL => indexTTL'[t] + lag' >= TTL
        BY <1>0, <1>1, <3>1, <4>2
      <4> QED
        BY <1>5, <3>3, <4>3, <4>4 DEF k
    <3> QED
      BY <2>1, <3>1, <3>2, <3>3 DEF Renewing, k
  <2>3. CASE ~LifecycleTick
    <3>1. lag' = lag
      <4>1. call[Refresher] # Idle
        BY <1>3, <1>5
      <4>2. ~StartSweep /\ ~(\E q \in Sockets : RefreshNext(q))
        BY <2>1, <4>1 DEF StartSweep, RefreshNext
      <4>3. ~RefreshDone /\ ~RefreshFails
        BY <1>0, <1>3, OwnCall DEF RefreshDone, RefreshFails, ExtendConn, Abandon
      <4>4. RefreshStep => lag' = lag
        BY DEF RefreshStep, appVars
      <4>5. Stop => lag' = lag
        BY <4>1 DEF Stop
      <4> QED
        BY <1>4, <2>3, <4>2, <4>3, <4>4, <4>5, ClockSteps
    <3>2. CASE <<t, s>> \in held
      <4>1. interestTTL'[k] >= interestTTL[k] /\ indexTTL'[t] >= indexTTL[t]
        BY <2>3, <3>2, HeldKept DEF k
      <4>2. CASE t \in call[Refresher].topics
        BY <1>5, <4>2
      <4>3. CASE /\ interestTTL[k] + lag >= TTL
                 /\ t \in call[Refresher].pending \/ indexTTL[t] + lag >= TTL
        <5>1. interestTTL'[k] + lag >= TTL
          BY <1>0, <1>1, <1>2, <4>1, <4>3
        <5>2. indexTTL[t] + lag >= TTL => indexTTL'[t] + lag >= TTL
          BY <1>0, <1>1, <1>2, <4>1
        <5> QED
          BY <1>5, <3>1, <4>3, <5>1, <5>2 DEF k
      <4> QED
        BY <2>1, <3>2, <4>2, <4>3 DEF Renewing, k
    <3>3. CASE <<t, s>> \notin held
      <4>1. PICK p \in Predicates : Register(t, s, p)
        BY <3>3, HeldGrows
      <4>2. interestTTL'[k] = TTL /\ indexTTL'[t] = TTL
        BY <1>0, <4>1 DEF Register, Set, TypeOK, k
      <4>3. TTL + lag >= TTL
        BY <1>0
      <4> QED
        BY <3>1, <4>2, <4>3 DEF k
    <3> QED
      BY <3>2, <3>3
  <2> QED
    BY <2>2, <2>3
<1>6. ASSUME NEW q \in Sockets, RefreshNext(q), call'[Refresher] # call[Refresher]
      PROVE  t \in call'[Refresher].topics
  <2>1. ReadTopicsToRefresh(Refresher, q) /\ UNCHANGED held
    BY <1>6 DEF RefreshNext, vars
  <2>2. call'[Refresher] = [op |-> "refresh", conn |-> q, topics |-> topicsOf[q],
                            pending |-> {}]
    BY <1>0, <2>1, OwnCall DEF ReadTopicsToRefresh
  <2>3. q = s
    BY <2>2 DEF Refreshing
  <2>4. t \in topicsOf[s]
    BY <2>1 DEF Keeping
  <2> QED
    BY <2>2, <2>3, <2>4
<1>7. CASE RefreshStep
  <2>1. <<t, s>> \in held /\ lag' = lag
    BY <1>7 DEF RefreshStep, appVars
  <2>2. Refreshing(s) /\ call[Refresher].conn = s
    BY <1>7, RefreshStepCall DEF Refreshing
  <2>3. Live(t, s) /\ indexTTL[t] > 0
    BY <2>1, HeldIsLive
  <2>4. PICK u \in Topics : ExtendInterest(Refresher, u) \/ ExtendIndex(Refresher, u)
    BY <1>7 DEF RefreshStep
  <2>5. call[Refresher] \in [op : {"refresh", "extend"}, conn : Conns,
                             topics : SUBSET Topics, pending : SUBSET Topics]
    BY <1>0, <2>4 DEF ExtendInterest, ExtendIndex, TypeOK, Calls, Idle
  <2>6. \/ t \in call[Refresher].topics
        \/ /\ interestTTL[k] + lag >= TTL
           /\ t \in call[Refresher].pending \/ indexTTL[t] + lag >= TTL
    BY <2>1, <2>2 DEF Renewing, k
  <2>7. TTL + lag >= TTL
    BY <1>0
  <2>8. CASE ExtendInterest(Refresher, u)
    <3>1. call'[Refresher] = [call[Refresher] EXCEPT !.op = "extend", !.topics = @ \ {u},
                                                     !.pending = {u}]
      BY <1>0, <2>8, OwnCall DEF ExtendInterest
    <3>2. /\ call'[Refresher].topics = call[Refresher].topics \ {u}
          /\ call'[Refresher].pending = {u}
      BY <2>5, <3>1
    <3>3. /\ UNCHANGED indexTTL /\ call[Refresher].pending = {}
          /\ interestTTL' = [interestTTL EXCEPT ![<<u, s>>] = Renewed(@)]
      BY <2>2, <2>8 DEF ExtendInterest
    <3>4. CASE u = t
      <4>1. interestTTL'[k] = TTL
        BY <1>0, <1>1, <2>3, <3>3, <3>4 DEF Renewed, Live, TypeOK, k
      <4> QED
        BY <2>1, <2>7, <3>2, <3>4, <4>1 DEF k
    <3>5. CASE u # t
      <4>1. interestTTL'[k] = interestTTL[k]
        BY <1>0, <3>3, <3>5 DEF TypeOK, k
      <4> QED
        BY <2>1, <2>6, <3>2, <3>3, <3>5, <4>1 DEF k
    <3> QED
      BY <3>4, <3>5
  <2>9. CASE ExtendIndex(Refresher, u)
    <3>1. call'[Refresher] = [call[Refresher] EXCEPT !.pending = @ \ {u}]
      BY <1>0, <2>9, OwnCall DEF ExtendIndex
    <3>2. /\ call'[Refresher].topics = call[Refresher].topics
          /\ call'[Refresher].pending = call[Refresher].pending \ {u}
      BY <2>5, <3>1
    <3>3. /\ UNCHANGED interestTTL
          /\ indexTTL' = [indexTTL EXCEPT ![u] = Renewed(@)]
      BY <2>9 DEF ExtendIndex
    <3>4. CASE u = t
      <4>1. indexTTL'[t] = TTL
        BY <1>1, <2>3, <3>3, <3>4 DEF Renewed, TypeOK
      <4> QED
        BY <2>1, <2>6, <2>7, <3>2, <3>3, <4>1 DEF k
    <3>5. CASE u # t
      <4>1. indexTTL'[t] = indexTTL[t]
        BY <3>3, <3>5 DEF TypeOK
      <4> QED
        BY <2>1, <2>6, <3>2, <3>3, <3>5, <4>1 DEF k
    <3> QED
      BY <3>4, <3>5
  <2> QED
    BY <2>4, <2>8, <2>9
<1>8. ~RefreshDone /\ ~RefreshFails
  BY <1>0, <1>3, OwnCall DEF RefreshDone, RefreshFails, ExtendConn, Abandon
<1> QED
  BY <1>4, <1>5, <1>6, <1>7, <1>8, RefresherStep

-----------------------------------------------------------------------------
(* The theorems on what is kept.                                            *)

LEMMA InitLife == ASSUME LifecycleInit PROVE LifeInv
<1>0. /\ Refresher \in Workers /\ Idle.op = "idle" /\ Interval \in Nat \ {0}
      /\ Lag \in Nat /\ MaxMisses \in Nat /\ Drain \in Nat /\ TTL \in Nat
  BY LifecycleAssumption, StoreAssumption, IntervalType DEF Idle
<1>1. AppTypeOK
  <2>1. 0 \in 0 .. Lag /\ 0 \in 0 .. MaxMisses /\ 0 \in 0 .. Drain /\ 0 \in 0 .. TTL + Lag
    BY <1>0
  <2>2. Interval \in 1 .. Interval
    BY <1>0
  <2> QED
    BY <2>1, <2>2 DEF LifecycleInit, AppTypeOK
<1>2. \A w \in Workers : call[w].op = "idle"
  BY <1>0 DEF LifecycleInit, Init
<1>3. Roles
  BY <1>0, <1>2 DEF Roles
<1>4. Ownership
  <2>1. \A s \in Sockets, t \in Topics : s \notin index[t]
    BY DEF LifecycleInit, Init
  <2>2. tracked = {s \in Sockets : status[s] = "open"}
    BY DEF LifecycleInit
  <2>3. \A k \in held : status[k[2]] = "open"
    BY DEF LifecycleInit
  <2> QED
    BY <1>2, <2>1, <2>2, <2>3 DEF Ownership, Tracking
<1>5. Ticker
  BY <1>0, <1>2 DEF LifecycleInit, Ticker, Sweeping, Init
<1>6. Keeping /\ Renewing
  BY DEF LifecycleInit, Keeping, Renewing
<1> QED
  BY <1>1, <1>3, <1>4, <1>5, <1>6 DEF LifeInv

\* Every state of the lifecycle is well typed, in the store and in the instance.
StoreInv == TypeOK /\ KeysConsistent

THEOREM LifecycleTypes == LifecycleSpec => [](StoreInv /\ AppTypeOK /\ Roles)
<1>1. LifecycleInit => StoreInv /\ AppTypeOK /\ Roles
  BY InitType, InitKeys, InitLife DEF LifecycleInit, StoreInv, LifeInv
<1>2. StoreInv /\ AppTypeOK /\ Roles /\ [LifecycleNext]_allVars
      => (StoreInv /\ AppTypeOK /\ Roles)'
  BY StoreInvStep, AppTypeStep, RolesStep DEF StoreInv
<1> QED
  BY <1>1, <1>2, PTL DEF LifecycleSpec

LEMMA LifeCorrect ==
    ASSUME Timing
    PROVE  LifecycleSpec => []LifeInv
<1>1. LifecycleInit => LifeInv
  BY InitLife
<1>2. StoreInv /\ StoreInv' /\ LifeInv /\ [LifecycleNext]_allVars => LifeInv'
  <2> SUFFICES ASSUME StoreInv, StoreInv', LifeInv, [LifecycleNext]_allVars PROVE LifeInv'
    OBVIOUS
  <2>1. AppTypeOK' /\ Roles'
    BY AppTypeStep, RolesStep DEF LifeInv, StoreInv
  <2>2. Ownership'
    BY <2>1, OwnershipStep DEF LifeInv, StoreInv
  <2>3. Ticker'
    BY TickerStep DEF LifeInv, StoreInv, Timing
  <2>4. Keeping'
    BY <2>1, KeepingStep DEF StoreInv
  <2>5. Renewing'
    BY <2>1, RenewingStep DEF StoreInv
  <2> QED
    BY <2>1, <2>2, <2>3, <2>4, <2>5 DEF LifeInv
<1> QED
  BY <1>1, <1>2, LifecycleTypes, PTL DEF LifecycleSpec

(* What an open socket has registered stays routable, and where Refresh and *)
(* Drop find it, as long as the bounds leave a TTL longer than it takes to  *)
(* renew it: whatever other sockets, publishes and the console do to the    *)
(* keys they share, however many refreshes fail within MaxMisses, half way  *)
(* or not, and until a stopped server has closed the socket.                *)
THEOREM OpenSocketsKept ==
    ASSUME Timing
    PROVE  LifecycleSpec => []OpenSocketsKeepInterests
<1>1. StoreInv /\ LifeInv => OpenSocketsKeepInterests
  <2> SUFFICES ASSUME StoreInv, LifeInv, NEW k \in held
               PROVE  Routable(k[1], k[2]) /\ Owned(k[1], k[2])
    BY DEF OpenSocketsKeepInterests
  <2>1. PICK t \in Topics, s \in Sockets : k = <<t, s>>
    BY DEF LifeInv, AppTypeOK
  <2>2. Live(t, s) /\ s \in index[t] /\ t \in topicsOf[s]
    BY <2>1, HeldIsLive DEF LifeInv, StoreInv
  <2> QED
    BY <2>1, <2>2 DEF Routable, Owned
<1> QED
  BY <1>1, LifecycleTypes, LifeCorrect, PTL

-----------------------------------------------------------------------------
(* What is left of sockets that have gone.                                  *)

\* The refresher's list and its call are about sockets that were open when the
\* sweep began, and it is never later than its bound.
LEMMA ExpiringStep ==
    ASSUME TypeOK, TypeOK', AppTypeOK, AppTypeOK', Roles, Expiring,
           Tracking, [LifecycleNext]_allVars
    PROVE  Expiring'
<1>0. /\ Refresher \in Workers /\ Idle.op = "idle"
      /\ Lag \in Nat /\ TTL \in Nat /\ lag \in Nat /\ lag <= Lag
  BY LifecycleAssumption, StoreAssumption DEF Idle, AppTypeOK
<1>1. ASSUME NEW s \in Sockets PROVE goneFor[s] \in Nat
  BY <1>0 DEF AppTypeOK
<1>2. goneFor' = goneFor \/ LifecycleTick
  BY ClockSteps DEF StartSweep, RefreshNext, RefreshStep, RefreshDone, RefreshFails, Stop, Crash,
                    appVars
<1>3. ASSUME NEW s \in Sockets, status'[s] # "gone"
      PROVE  goneFor'[s] = 0
  <2>1. status[s] # "gone"
    <3>1. CASE status' = status
      BY <1>3, <3>1
    <3>2. ASSUME NEW q \in Sockets, NEW x, Become(q, x), status[q] # "gone"
          PROVE  status[s] # "gone"
      BY <1>3, <3>2 DEF Become, AppTypeOK
    <3>3. CASE Crash
      BY <1>3, <3>3 DEF Crash
    <3>4. ASSUME NEW q \in Sockets, Connect(q) \/ Disconnect(q) \/ DropFails(q)
          PROVE  status[s] # "gone"
      BY <3>2, <3>4 DEF Connect, Disconnect, DropFails
    <3>5. ASSUME NEW q \in Sockets, NEW w \in Workers, FinishDrop(w, q)
          PROVE  status[s] # "gone"
      BY <1>3, <3>5 DEF FinishDrop, Become, AppTypeOK
    <3>6. ASSUME NEW q \in Sockets, \/ \E t \in Topics, p \in Predicates : Register(t, q, p)
                                    \/ \E w \in Workers : StartDrop(w, q)
          PROVE  status' = status
      BY <3>6 DEF Register, StartDrop, appVars
    <3>7. ASSUME Sweep \/ LifecycleTick \/ Stop \/ UNCHANGED allVars PROVE status' = status
      BY <3>7 DEF Sweep, StartSweep, RefreshNext, RefreshStep, RefreshDone, RefreshFails,
                  LifecycleTick, Stop, appVars, allVars
    <3>8. ASSUME \/ \E w \in Workers : Publish(w)
                 \/ \E k \in Conns, t \in Topics, p \in Predicates : ConsoleSet(t, k, p)
                 \/ \E k \in Conns, w \in Workers : ConsoleDelete(w, k)
          PROVE  status' = status
      BY <3>8 DEF Publish, ConsoleSet, ConsoleDelete, appVars
    <3> QED
      BY <3>1, <3>3, <3>4, <3>5, <3>6, <3>7, <3>8 DEF LifecycleNext, SocketStep
  <2>2. goneFor[s] = 0
    BY <2>1 DEF Expiring
  <2>3. LifecycleTick => goneFor'[s] = goneFor[s]
    BY <2>1 DEF LifecycleTick
  <2> QED
    BY <1>2, <2>2, <2>3
<1>4. ASSUME NEW s \in Sockets, s \in sweep' \/ Refreshing(s)'
      PROVE  goneFor'[s] <= lag'
  <2>1. CASE LifecycleTick
    <3>1. UNCHANGED <<call, sweep>>
      BY <2>1 DEF LifecycleTick, Tick
    <3>2. Sweeping
      BY <1>0, <1>4, <3>1 DEF Sweeping, Refreshing
    <3>3. lag' = lag + 1
      BY <2>1, <3>2 DEF LifecycleTick
    <3>4. goneFor[s] <= lag
      BY <1>4, <3>1 DEF Expiring, Refreshing
    <3>5. goneFor'[s] = goneFor[s] \/ goneFor'[s] = goneFor[s] + 1
      BY <2>1 DEF LifecycleTick
    <3> QED
      BY <1>0, <1>1, <3>3, <3>4, <3>5
  <2>2. CASE StartSweep
    <3>1. call' = call /\ call[Refresher] = Idle /\ sweep' = tracked
      BY <2>2 DEF StartSweep, Sweeping, vars
    <3>2. s \in tracked
      BY <1>0, <1>4, <3>1 DEF Refreshing
    <3>3. goneFor'[s] = 0
      BY <2>2, <3>2 DEF StartSweep, Expiring, Tracking
    <3>4. lag' \in Nat
      BY <1>0 DEF AppTypeOK
    <3> QED
      BY <3>3, <3>4
  <2>3. ASSUME NEW q \in Sockets, RefreshNext(q) PROVE goneFor'[s] <= lag'
    <3>1. q \in sweep /\ sweep' = sweep \ {q} /\ UNCHANGED goneFor /\ call[Refresher] = Idle
      BY <2>3 DEF RefreshNext
    <3>2. CASE topicsOf[q] = {}
      <4>1. call' = call /\ lag' = IF sweep' = {} THEN 0 ELSE lag
        BY <2>3, <3>2 DEF RefreshNext, vars
      <4>2. s \in sweep' /\ lag' = lag
        BY <1>0, <1>4, <3>1, <4>1 DEF Refreshing
      <4> QED
        BY <3>1, <4>2 DEF Expiring
    <3>3. CASE topicsOf[q] # {}
      <4>1. lag' = lag /\ ReadTopicsToRefresh(Refresher, q)
        BY <2>3, <3>3 DEF RefreshNext
      <4>2. call'[Refresher] = [op |-> "refresh", conn |-> q, topics |-> topicsOf[q],
                                pending |-> {}]
        BY <1>0, <4>1, OwnCall DEF ReadTopicsToRefresh
      <4>3. s \in sweep
        BY <1>4, <3>1, <4>2 DEF Refreshing
      <4> QED
        BY <3>1, <4>1, <4>3 DEF Expiring
    <3> QED
      BY <3>2, <3>3
  <2>4. CASE RefreshStep
    <3>1. s \in sweep \/ Refreshing(s)
      BY <1>4, <2>4, RefreshStepCall DEF RefreshStep, appVars, Refreshing
    <3> QED
      BY <2>4, <3>1 DEF RefreshStep, appVars, Expiring
  <2>5. CASE RefreshDone \/ RefreshFails
    <3>1. call'[Refresher] = Idle
      BY <1>0, <2>5, OwnCall DEF RefreshDone, RefreshFails, ExtendConn, Abandon
    <3>2. s \in sweep /\ lag' = lag /\ UNCHANGED goneFor
      BY <1>0, <1>4, <2>5, <3>1 DEF RefreshDone, RefreshFails, Refreshing
    <3> QED
      BY <3>2 DEF Expiring
  <2>6. CASE Stop
    <3>1. call' = call /\ sweep' = {} /\ UNCHANGED goneFor
      BY <2>6 DEF Stop, vars
    <3>2. Refreshing(s) /\ lag' = lag
      BY <1>0, <1>4, <2>6, <3>1 DEF Stop, Refreshing
    <3> QED
      BY <3>1, <3>2 DEF Expiring
  <2>7. CASE Crash
    <3>1. call'[Refresher] = Idle /\ sweep' = {}
      BY <1>0, <2>7 DEF Crash
    <3> QED
      BY <1>0, <1>4, <3>1 DEF Refreshing
  <2>8. CASE /\ UNCHANGED <<due, fired, sweep, lag, misses, goneFor, stopped, drained>>
             /\ call'[Refresher] = call[Refresher]
    BY <1>4, <2>8 DEF Expiring, Refreshing
  <2> QED
    BY <2>1, <2>2, <2>3, <2>4, <2>5, <2>6, <2>7, <2>8, ClockSteps, RefresherStep
<1>5. ASSUME NEW s \in Sockets, NEW t \in Topics
      PROVE  interestTTL'[<<t, s>>] + goneFor'[s] <= TTL + Lag
  <2> DEFINE k == <<t, s>>
  <2>1. /\ s \in Conns /\ k \in Keys
        /\ interestTTL[k] \in Nat /\ interestTTL[k] <= TTL
        /\ interestTTL'[k] \in Nat /\ interestTTL'[k] <= TTL
        /\ interestTTL[k] + goneFor[s] <= TTL + Lag
    BY <1>0, LifecycleAssumption DEF TypeOK, Keys, Expiring
  <2> HIDE DEF k
  <2>2. CASE LifecycleTick
    <3>1. interestTTL'[k] = IF interestTTL[k] = 0 THEN 0 ELSE interestTTL[k] - 1
      BY <2>1, <2>2 DEF LifecycleTick, Tick, Left
    <3>2. goneFor'[s] = goneFor[s] \/ goneFor'[s] = goneFor[s] + 1
      BY <2>2 DEF LifecycleTick
    <3>3. goneFor'[s] <= TTL + Lag /\ goneFor'[s] \in Nat
      BY <1>0 DEF AppTypeOK
    <3> QED
      BY <1>0, <1>1, <2>1, <3>1, <3>2, <3>3 DEF k
  <2>3. CASE ~LifecycleTick
    <3>1. goneFor'[s] = goneFor[s]
      BY <1>2, <2>3
    <3>2. ASSUME interestTTL'[k] = interestTTL[k] \/ interestTTL'[k] = 0 \/ goneFor[s] <= Lag
          PROVE  interestTTL'[<<t, s>>] + goneFor'[s] <= TTL + Lag
      BY <1>0, <1>1, <2>1, <3>1, <3>2 DEF k
    <3>3. CASE UNCHANGED redis
      BY <3>2, <3>3 DEF redis
    <3>4. ASSUME NEW q \in Sockets, NEW u \in Topics, NEW p \in Predicates, Register(u, q, p)
          PROVE  interestTTL'[k] = interestTTL[k] \/ goneFor[s] <= Lag
      <4>1. CASE q = s
        BY <1>0, <3>4, <4>1 DEF Register, Expiring
      <4>2. CASE q # s
        BY <2>1, <3>4, <4>2 DEF Register, Set, TypeOK, k
      <4> QED
        BY <4>1, <4>2
    <3>5. ASSUME NEW c \in Conns \ Sockets, NEW u \in Topics, NEW p \in Predicates, Set(u, c, p)
          PROVE  interestTTL'[k] = interestTTL[k]
      BY <2>1, <3>5 DEF Set, TypeOK, k
    <3>6. ASSUME NEW w \in Workers, Writes(w)
          PROVE  \/ interestTTL'[k] = interestTTL[k] \/ interestTTL'[k] = 0
                 \/ goneFor[s] <= Lag
      <4>1. CASE Prune(w) \/ ExtendConn(w) \/ \E u \in Topics : ExtendIndex(w, u)
        BY <4>1 DEF Prune, ExtendConn, ExtendIndex
      <4>2. CASE CommitDrop(w)
        BY <2>1, <4>2 DEF CommitDrop
      <4>3. ASSUME NEW u \in Topics, ExtendInterest(w, u)
            PROVE  interestTTL'[k] = interestTTL[k] \/ goneFor[s] <= Lag
        <5>1. w = Refresher /\ call[w].op # "idle"
          BY <4>3 DEF ExtendInterest, Roles
        <5>2. CASE call[w].conn = s
          <6>1. goneFor[s] <= lag
            BY <5>1, <5>2 DEF Expiring, Refreshing
          <6> QED
            BY <1>0, <1>1, <6>1
        <5>3. CASE call[w].conn # s
          BY <2>1, <4>3, <5>3 DEF ExtendInterest, TypeOK, k
        <5> QED
          BY <5>2, <5>3
      <4> QED
        BY <3>6, <4>1, <4>2, <4>3 DEF Writes
    <3> QED
      BY <2>3, <3>2, <3>3, <3>4, <3>5, <3>6, LifecycleWrites
  <2> QED
    BY <2>2, <2>3
<1> QED
  BY <1>3, <1>4, <1>5 DEF Expiring

LEMMA InitExpiring == ASSUME LifecycleInit PROVE Expiring
<1>1. Lag \in Nat /\ TTL \in Nat
  BY LifecycleAssumption, StoreAssumption
<1>2. call[Refresher].op = "idle"
  BY LifecycleAssumption DEF LifecycleInit, Init, Idle
<1>3. ASSUME NEW s \in Sockets PROVE goneFor[s] = 0
  BY DEF LifecycleInit
<1>4. ASSUME NEW s \in Sockets, NEW t \in Topics PROVE interestTTL[<<t, s>>] = 0
  BY LifecycleAssumption DEF LifecycleInit, Init, Keys
<1>5. \A s \in Sockets : ~(s \in sweep \/ Refreshing(s))
  BY <1>2 DEF LifecycleInit, Refreshing
<1>6. ASSUME NEW s \in Sockets, NEW t \in Topics
      PROVE  interestTTL[<<t, s>>] + goneFor[s] <= TTL + Lag
  <2>1. interestTTL[<<t, s>>] = 0 /\ goneFor[s] = 0
    BY <1>3, <1>4
  <2> QED
    BY <1>1, <2>1
<1> QED
  BY <1>3, <1>5, <1>6 DEF Expiring

(* What a socket had registered is dead TTL + Lag ticks after the socket    *)
(* went, whether its Drop failed or its instance died: nothing renews it    *)
(* but the sweep that already had the socket on its list.  This needs       *)
(* nothing of the bounds.                                                   *)
THEOREM GoneSocketsGone == LifecycleSpec => []GoneSocketsExpire
<1>1. LifecycleInit => Tracking /\ Expiring
  BY InitLife, InitExpiring DEF LifeInv, Ownership
<1>2. /\ StoreInv /\ AppTypeOK /\ Roles
      /\ (StoreInv /\ AppTypeOK /\ Roles)'
      /\ Tracking /\ Expiring /\ [LifecycleNext]_allVars
      => (Tracking /\ Expiring)'
  BY TrackingStep, ExpiringStep DEF StoreInv
<1>3. StoreInv /\ AppTypeOK /\ Roles /\ Tracking /\ Expiring => GoneSocketsExpire
  <2> SUFFICES ASSUME TypeOK, AppTypeOK, Expiring,
                      NEW s \in Sockets, goneFor[s] >= TTL + Lag, NEW t \in Topics
               PROVE  ~Live(t, s)
    BY DEF GoneSocketsExpire, StoreInv
  <2>1. TTL \in Nat /\ Lag \in Nat
    BY LifecycleAssumption, StoreAssumption
  <2>2. interestTTL[<<t, s>>] \in Nat /\ goneFor[s] \in Nat
    BY <2>1, LifecycleAssumption DEF TypeOK, AppTypeOK, Keys
  <2>3. interestTTL[<<t, s>>] + goneFor[s] <= TTL + Lag
    BY DEF Expiring
  <2> QED
    BY <2>1, <2>2, <2>3 DEF Live
<1> QED
  BY <1>1, <1>2, <1>3, LifecycleTypes, PTL DEF LifecycleSpec

-----------------------------------------------------------------------------
(* What an instance promises.                                               *)

\* Only Set makes an interest routable or changes it, in the lifecycle too.
LEMMA LifecycleResurrection ==
    ASSUME StoreInv, StoreInv', [LifecycleNext]_allVars
    PROVE  \A t \in Topics, c \in Conns :
              Routable(t, c)'
              /\ (~Routable(t, c) \/ predicate'[<<t, c>>] # predicate[<<t, c>>]) =>
                 Set(t, c, predicate'[<<t, c>>])
<1>1. CASE [Next]_vars
  BY <1>1, ResurrectionStep DEF StoreInv
<1>2. CASE Crash
  BY <1>2 DEF Crash, redis, Routable, Live
<1> QED
  BY <1>1, <1>2, StoreStep

(* No race of an instance's goroutines with each other, with publishes or   *)
(* with the console, and no crash, brings an interest back or changes one:  *)
(* only Set does.                                                           *)
THEOREM NothingComesBack == LifecycleSpec => NoResurrection
<1>1. StoreInv /\ StoreInv' /\ [LifecycleNext]_allVars =>
         [\A t \in Topics, c \in Conns :
             Routable(t, c)'
             /\ (~Routable(t, c) \/ predicate'[<<t, c>>] # predicate[<<t, c>>]) =>
                Set(t, c, predicate'[<<t, c>>])]_vars
  BY LifecycleResurrection
<1> QED
  BY <1>1, LifecycleTypes, PTL DEF LifecycleSpec, NoResurrection

\* What stands for the variables of Subscriptions.
Life == [s \in Sockets |-> IF status[s] = "leaving" THEN "gone" ELSE status[s]]

Offered == [k \in Topics \X Sockets |->
               IF Routable(k[1], k[2]) THEN predicate[k] ELSE NoPredicate]

\* Its variables and its actions, in those terms.
LEMMA PromisedVars == Promised!subscriptionVars = <<Life, Offered>>
  BY DEF Promised!subscriptionVars, Life, Offered

LEMMA PromisedOpen ==
    ASSUME NEW q \in Sockets, Life[q] = "new", Life' = [Life EXCEPT ![q] = "open"],
           Offered' = Offered
    PROVE  Promised!Open(q)
  BY DEF Promised!Open, Life, Offered

LEMMA PromisedWant ==
    ASSUME NEW u \in Topics, NEW q \in Sockets, NEW p \in Predicates, Life[q] = "open",
           Offered' = [Offered EXCEPT ![<<u, q>>] = p], Life' = Life
    PROVE  Promised!Want(u, q, p)
  BY DEF Promised!Want, Life, Offered

LEMMA PromisedLeave ==
    ASSUME NEW some \in SUBSET Sockets, \A s \in some : Life[s] = "open",
           Life' = [s \in Sockets |-> IF s \in some THEN "gone" ELSE Life[s]],
           Offered' = Offered
    PROVE  Promised!Leave(some)
  BY DEF Promised!Leave, Life, Offered

LEMMA PromisedVanish ==
    ASSUME NEW some \in SUBSET (Topics \X Sockets), \A k \in some : Life[k[2]] = "gone",
           Offered' = [k \in Topics \X Sockets |->
                          IF k \in some THEN NoPredicate ELSE Offered[k]],
           Life' = Life
    PROVE  Promised!Vanish(some)
  BY DEF Promised!Vanish, Promised!Interests, Life, Offered

\* Who changes what a socket is.
LEMMA StatusSteps ==
    ASSUME [LifecycleNext]_allVars
    PROVE  \/ UNCHANGED status
           \/ \E s \in Sockets : Connect(s) \/ Disconnect(s) \/ DropFails(s)
           \/ \E s \in Sockets, w \in Workers : FinishDrop(w, s)
           \/ Crash
<1>1. ASSUME NEW s \in Sockets, \/ \E t \in Topics, p \in Predicates : Register(t, s, p)
                                \/ \E w \in Workers : StartDrop(w, s)
      PROVE  UNCHANGED status
  BY <1>1 DEF Register, StartDrop, appVars
<1>2. ASSUME Sweep \/ LifecycleTick \/ Stop \/ UNCHANGED allVars PROVE UNCHANGED status
  BY <1>2 DEF Sweep, StartSweep, RefreshNext, RefreshStep, RefreshDone, RefreshFails,
              LifecycleTick, Stop, appVars, allVars
<1>3. ASSUME \/ \E w \in Workers : Publish(w)
             \/ \E k \in Conns, t \in Topics, p \in Predicates : ConsoleSet(t, k, p)
             \/ \E k \in Conns, w \in Workers : ConsoleDelete(w, k)
      PROVE  UNCHANGED status
  BY <1>3 DEF Publish, ConsoleSet, ConsoleDelete, appVars
<1> QED
  BY <1>1, <1>2, <1>3 DEF LifecycleNext, SocketStep

\* A registration is seen as it is made.
LEMMA RegisterOffers ==
    ASSUME StoreInv, NEW u \in Topics, NEW q \in Sockets, NEW p \in Predicates,
           Set(u, q, p), NEW k \in Topics \X Sockets
    PROVE  Offered'[k] = IF k = <<u, q>> THEN p ELSE Offered[k]
<1>1. PICK t \in Topics, s \in Sockets : k = <<t, s>>
  OBVIOUS
<1>2. q \in Conns /\ s \in Conns /\ TTL \in Nat \ {0} /\ k \in Keys
  BY <1>1, LifecycleAssumption, StoreAssumption DEF Keys
<1>3. /\ predicate' = [predicate EXCEPT ![<<u, q>>] = p]
      /\ interestTTL' = [interestTTL EXCEPT ![<<u, q>>] = TTL]
      /\ index' = [index EXCEPT ![u] = @ \cup {q}]
  BY DEF Set
<1>4. /\ predicate \in [Keys -> Predicates \cup {NoPredicate}]
      /\ interestTTL \in [Keys -> 0 .. TTL]
      /\ index \in [Topics -> SUBSET Conns]
  BY DEF StoreInv, TypeOK
<1>5. CASE k = <<u, q>>
  BY <1>1, <1>2, <1>3, <1>4, <1>5 DEF Offered, Routable, Live
<1>6. CASE k # <<u, q>>
  <2>1. predicate'[k] = predicate[k] /\ interestTTL'[k] = interestTTL[k]
    BY <1>2, <1>3, <1>4, <1>6
  <2>2. s \in index'[t] <=> s \in index[t]
    BY <1>1, <1>3, <1>4, <1>6
  <2> QED
    BY <1>1, <1>6, <2>1, <2>2 DEF Offered, Routable, Live
<1> QED
  BY <1>5, <1>6

\* What vanishes, vanishes of a socket that has gone; and without a registration
\* nothing appears or changes.
LEMMA OfferedStep ==
    ASSUME StoreInv, StoreInv', AppTypeOK, Ownership, OpenSocketsKeepInterests',
           [LifecycleNext]_allVars,
           ~ \E s \in Sockets, t \in Topics, p \in Predicates : Register(t, s, p),
           NEW t \in Topics, NEW s \in Sockets, Offered'[<<t, s>>] # Offered[<<t, s>>]
    PROVE  Life[s] = "gone" /\ Offered'[<<t, s>>] = NoPredicate
<1> DEFINE k == <<t, s>>
<1>0. /\ s \in Conns /\ k \in Keys /\ k \in Topics \X Sockets
      /\ k[1] = t /\ k[2] = s /\ TTL \in Nat \ {0}
  BY LifecycleAssumption, StoreAssumption DEF Keys
<1>1. /\ Offered[k] = IF Routable(t, s) THEN predicate[k] ELSE NoPredicate
      /\ Offered'[k] = IF Routable(t, s)' THEN predicate'[k] ELSE NoPredicate
  BY <1>0 DEF Offered
<1>2. ~UNCHANGED redis
  BY <1>1 DEF redis, Routable, Live
<1>3. ASSUME NEW c \in Conns \ Sockets, NEW u \in Topics, NEW p \in Predicates, Set(u, c, p)
      PROVE  FALSE
  <2>1. <<u, c>> # k /\ c # s
    BY <1>0
  <2>2. /\ predicate' = [predicate EXCEPT ![<<u, c>>] = p]
        /\ interestTTL' = [interestTTL EXCEPT ![<<u, c>>] = TTL]
        /\ index' = [index EXCEPT ![u] = @ \cup {c}]
    BY <1>3 DEF Set
  <2>3. /\ predicate \in [Keys -> Predicates \cup {NoPredicate}]
        /\ interestTTL \in [Keys -> 0 .. TTL]
        /\ index \in [Topics -> SUBSET Conns]
    BY DEF StoreInv, TypeOK
  <2>4. predicate'[k] = predicate[k] /\ interestTTL'[k] = interestTTL[k]
    BY <1>0, <2>1, <2>2, <2>3
  <2>5. s \in index'[t] <=> s \in index[t]
    BY <2>1, <2>2, <2>3
  <2> QED
    BY <1>1, <2>4, <2>5 DEF Routable, Live
<1>4. ASSUME LifecycleTick, NEW p, Set(t, s, p) PROVE FALSE
  <2>1. interestTTL'[k] = Left(interestTTL[k])
    BY <1>0, <1>4 DEF LifecycleTick, Tick
  <2>2. interestTTL'[k] = TTL /\ interestTTL[k] \in 0 .. TTL
    BY <1>0, <1>4 DEF Set, StoreInv, TypeOK
  <2> QED
    BY <1>0, <2>1, <2>2 DEF Left
<1>5. ASSUME NEW w \in Workers, Writes(w) PROVE call' # call
  <2>1. CASE Prune(w) \/ CommitDrop(w) \/ ExtendConn(w)
    <3>1. call'[w] = Idle /\ call[w].op # "idle"
      BY <2>1, OwnCall DEF Prune, CommitDrop, ExtendConn, StoreInv
    <3> QED
      BY <3>1 DEF Idle
  <2>2. ASSUME NEW u \in Topics, ExtendInterest(w, u) \/ ExtendIndex(w, u)
        PROVE  call'[w] # call[w]
    <3>1. call[w] \in [op : {"refresh", "extend"}, conn : Conns,
                       topics : SUBSET Topics, pending : SUBSET Topics]
      BY <2>2 DEF ExtendInterest, ExtendIndex, StoreInv, TypeOK, Calls, Idle
    <3>2. CASE ExtendInterest(w, u)
      <4>1. call'[w] = [call[w] EXCEPT !.op = "extend", !.topics = @ \ {u}, !.pending = {u}]
        BY <3>2, OwnCall DEF ExtendInterest, StoreInv
      <4>2. call'[w].pending = {u} /\ call[w].pending = {}
        BY <3>1, <3>2, <4>1 DEF ExtendInterest
      <4> QED
        BY <4>2
    <3>3. CASE ExtendIndex(w, u)
      <4>1. call'[w] = [call[w] EXCEPT !.pending = @ \ {u}]
        BY <3>3, OwnCall DEF ExtendIndex, StoreInv
      <4>2. u \notin call'[w].pending /\ u \in call[w].pending
        BY <3>1, <3>3, <4>1 DEF ExtendIndex
      <4> QED
        BY <4>2
    <3> QED
      BY <2>2, <3>2, <3>3
  <2> QED
    BY <1>5, <2>1, <2>2 DEF Writes
<1>6. ~Set(t, s, predicate'[k])
  <2>1. UNCHANGED call => ~ \E w \in Workers : Writes(w)
    BY <1>5
  <2>2. Set(t, s, predicate'[k]) => UNCHANGED call
    BY DEF Set
  <2> QED
    BY <1>2, <1>3, <1>4, <2>1, <2>2, LifecycleWrites DEF StoreInv
<1>7. Routable(t, s)' => Routable(t, s) /\ predicate'[k] = predicate[k]
  BY <1>0, <1>6, LifecycleResurrection
<1>8. ~Routable(t, s)' /\ Routable(t, s) /\ Offered'[k] = NoPredicate
  BY <1>1, <1>7
<1>9. ~Present(s)
  <2> SUFFICES ASSUME Present(s) PROVE FALSE
    OBVIOUS
  <2>1. k \in held
    BY <1>8 DEF Ownership, Routable
  <2>2. CASE Present(s)'
    <3>1. k \in held'
      BY <2>1, <2>2, PresentStep
    <3> QED
      BY <1>0, <1>8, <3>1 DEF OpenSocketsKeepInterests
  <2>3. CASE ~Present(s)'
    <3>1. ~UNCHANGED status
      BY <2>3 DEF Present
    <3>2. ASSUME NEW q \in Sockets, Connect(q) \/ Disconnect(q) \/ DropFails(q) PROVE FALSE
      BY <1>2, <3>2 DEF Connect, Disconnect, DropFails, vars, redis
    <3>3. ASSUME NEW q \in Sockets, NEW w \in Workers, FinishDrop(w, q) PROVE FALSE
      <4>1. q # s
        BY <3>3 DEF FinishDrop, DropOf, Ownership, Tracking
      <4>2. status'[s] = status[s]
        BY <3>3, <4>1 DEF FinishDrop, Become, AppTypeOK
      <4> QED
        BY <2>3, <4>2 DEF Present
    <3>4. ~Crash
      BY <1>2 DEF Crash
    <3> QED
      BY <3>1, <3>2, <3>3, <3>4, StatusSteps
  <2> QED
    BY <2>2, <2>3
<1>10. Life[s] = "gone"
  BY <1>9 DEF Life, Present, AppTypeOK
<1> QED
  BY <1>8, <1>10

(* Steps of the lifecycle are steps of Subscriptions.                       *)
LEMMA PromiseStep ==
    ASSUME StoreInv, StoreInv', AppTypeOK, Ownership, OpenSocketsKeepInterests',
           [LifecycleNext]_allVars
    PROVE  [Promised!SubscriptionsNext]_(Promised!subscriptionVars)
<1>1. ASSUME UNCHANGED redis PROVE Offered' = Offered
  BY <1>1 DEF Offered, Routable, Live, redis
<1>2. ASSUME NEW q \in Sockets, Connect(q) PROVE Promised!SubscriptionsNext
  <2>1. Offered' = Offered
    BY <1>1, <1>2 DEF Connect, vars, redis
  <2>2. Life[q] = "new" /\ Life' = [Life EXCEPT ![q] = "open"]
    BY <1>2 DEF Connect, Become, Life, AppTypeOK
  <2> QED
    BY <2>1, <2>2, PromisedOpen DEF Promised!SubscriptionsNext
<1>3. ASSUME NEW some \in SUBSET Sockets, \A s \in some : status[s] = "open",
             \A s \in Sockets : Life'[s] = IF s \in some THEN "gone" ELSE Life[s],
             UNCHANGED redis
      PROVE  Promised!SubscriptionsNext
  <2>1. \A s \in some : Life[s] = "open"
    BY <1>3 DEF Life
  <2>2. Life' = [s \in Sockets |-> Life'[s]]
    BY DEF Life
  <2>3. Life' = [s \in Sockets |-> IF s \in some THEN "gone" ELSE Life[s]]
    BY <1>3, <2>2
  <2> QED
    BY <1>1, <1>3, <2>1, <2>3, PromisedLeave DEF Promised!SubscriptionsNext
<1>4. ASSUME NEW q \in Sockets, Disconnect(q) PROVE Promised!SubscriptionsNext
  <2>1. \A s \in Sockets : Life'[s] = IF s \in {q} THEN "gone" ELSE Life[s]
    BY <1>4 DEF Disconnect, Become, Life, AppTypeOK
  <2>2. status[q] = "open" /\ UNCHANGED redis
    BY <1>4 DEF Disconnect, vars, redis
  <2> QED
    BY <1>3, <2>1, <2>2
<1>5. ASSUME Crash PROVE Promised!SubscriptionsNext
  <2> DEFINE some == {s \in Sockets : status[s] = "open"}
  <2>1. \A s \in Sockets : Life'[s] = IF s \in some THEN "gone" ELSE Life[s]
    BY <1>5 DEF Crash, Life, AppTypeOK
  <2>2. UNCHANGED redis /\ some \in SUBSET Sockets /\ \A s \in some : status[s] = "open"
    BY <1>5 DEF Crash
  <2> HIDE DEF some
  <2> QED
    BY <1>3, <2>1, <2>2
<1>6. ASSUME NEW q \in Sockets, NEW t \in Topics, NEW p \in Predicates, Register(t, q, p)
      PROVE  Promised!SubscriptionsNext
  <2>1. Set(t, q, p) /\ status' = status /\ status[q] = "open"
    BY <1>6 DEF Register
  <2>2. Life' = Life /\ Life[q] = "open"
    BY <2>1 DEF Life
  <2>3. \A k \in Topics \X Sockets : Offered'[k] = IF k = <<t, q>> THEN p ELSE Offered[k]
    BY <2>1, RegisterOffers
  <2>4. Offered' = [Offered EXCEPT ![<<t, q>>] = p]
    BY <2>3 DEF Offered
  <2> QED
    BY <2>2, <2>4, PromisedWant DEF Promised!SubscriptionsNext
<1>7. ASSUME Life' = Life,
             ~ \E s \in Sockets, t \in Topics, p \in Predicates : Register(t, s, p)
      PROVE  Promised!SubscriptionsNext
  <2> DEFINE some == {k \in Topics \X Sockets : Offered'[k] # Offered[k]}
  <2>1. ASSUME NEW k \in some PROVE Life[k[2]] = "gone" /\ Offered'[k] = NoPredicate
    <3>1. PICK t \in Topics, s \in Sockets : k = <<t, s>>
      OBVIOUS
    <3>2. Offered'[<<t, s>>] # Offered[<<t, s>>]
      BY <3>1
    <3>3. Life[s] = "gone" /\ Offered'[<<t, s>>] = NoPredicate
      BY <1>7, <3>2, OfferedStep
    <3> QED
      BY <3>1, <3>3
  <2>2. \A k \in Topics \X Sockets :
           Offered'[k] = IF k \in some THEN NoPredicate ELSE Offered[k]
    BY <2>1
  <2>3. Offered' = [k \in Topics \X Sockets |-> Offered'[k]]
    BY DEF Offered
  <2>4. Offered' = [k \in Topics \X Sockets |-> IF k \in some THEN NoPredicate ELSE Offered[k]]
    BY <2>2, <2>3
  <2>5. some \in SUBSET (Topics \X Sockets) /\ \A k \in some : Life[k[2]] = "gone"
    BY <2>1
  <2> QED
    BY <1>7, <2>4, <2>5, PromisedVanish
    DEF Promised!SubscriptionsNext, Promised!Interests
<1>8. ASSUME UNCHANGED status PROVE Life' = Life
  BY <1>8 DEF Life
<1>9. ASSUME NEW q \in Sockets, DropFails(q) \/ \E w \in Workers : FinishDrop(w, q)
      PROVE  Life' = Life
  <2>1. status[q] \in {"leaving", "gone"} /\ Become(q, "gone")
    BY <1>9 DEF DropFails, FinishDrop, DropOf, Ownership, Tracking, Present, AppTypeOK
  <2> QED
    BY <2>1 DEF Become, Life, AppTypeOK
<1> QED
  BY <1>2, <1>4, <1>5, <1>6, <1>7, <1>8, <1>9, StatusSteps

(* An instance keeps what Subscriptions promises the clients of its         *)
(* sockets: what they register is found, as last registered, until they     *)
(* leave, and nothing is found for them afterwards that they had not        *)
(* registered.  Every race in the store, every failure and the crash of the *)
(* instance are steps of that promise or change nothing of it.              *)
THEOREM SubscriptionsImplemented ==
    ASSUME Timing
    PROVE  LifecycleSpec => ImplementsSubscriptions
<1>1. LifecycleInit => Promised!SubscriptionsInit
  <2> SUFFICES ASSUME LifecycleInit PROVE Promised!SubscriptionsInit
    OBVIOUS
  <2>1. \A s \in Sockets : status[s] = "new"
    BY DEF LifecycleInit
  <2>2. ASSUME NEW k \in Topics \X Sockets PROVE ~Routable(k[1], k[2])
    BY DEF LifecycleInit, Init, Routable
  <2> QED
    BY <2>1, <2>2 DEF Promised!SubscriptionsInit, Promised!Interests
<1>2. /\ StoreInv /\ StoreInv' /\ LifeInv /\ OpenSocketsKeepInterests'
      /\ [LifecycleNext]_allVars
      => [Promised!SubscriptionsNext]_(Promised!subscriptionVars)
  BY PromiseStep DEF LifeInv
<1> QED
  BY <1>1, <1>2, LifecycleTypes, LifeCorrect, OpenSocketsKept, PTL
  DEF LifecycleSpec, ImplementsSubscriptions, Promised!SubscriptionsSpec
=============================================================================
