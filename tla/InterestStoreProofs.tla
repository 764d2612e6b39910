------------------------ MODULE InterestStoreProofs ------------------------
(***************************************************************************)
(* Proofs about InterestStore, for any topics, connections, goroutines and *)
(* time to live.                                                           *)
(***************************************************************************)
EXTENDS InterestStore, TLAPS

-----------------------------------------------------------------------------
(* Calls: what a call's record holds at each of its stages.                 *)

\* A call that is looking up or pruning knows its topic and some connections.
LEMMA CallTopic ==
    ASSUME NEW x \in Calls
    PROVE  /\ x.op = "lookup" => x.topic \in Topics /\ x.ids \subseteq Conns
           /\ x.op = "prune" => x.topic \in Topics /\ x.stale \subseteq Conns
  BY DEF Calls, Idle

\* A call that drops or refreshes knows its connection and some topics.
LEMMA CallConn ==
    ASSUME NEW x \in Calls
    PROVE  /\ x.op = "drop" => x.conn \in Conns /\ x.topics \subseteq Topics
           /\ x.op \in {"refresh", "extend"} =>
                /\ x.conn \in Conns
                /\ x.topics \subseteq Topics
                /\ x.pending \subseteq Topics
  BY DEF Calls, Idle

-----------------------------------------------------------------------------
(* Type correctness.                                                        *)

\* Set, one transaction on all three keys, preserves the types.
LEMMA SetTypeOK ==
    ASSUME TypeOK, NEW t \in Topics, NEW c \in Conns, NEW p \in Predicates, Set(t, c, p)
    PROVE  TypeOK'
  BY StoreAssumption DEF TypeOK, Set, Keys, Overlapped

\* The three steps of Candidates preserve the types.
LEMMA CandidatesTypeOK ==
    ASSUME TypeOK, NEW w \in Workers, Candidates(w)
    PROVE  TypeOK'
<1>1. CASE \E t \in Topics : ReadIndex(w, t)
  <2>1. PICK t \in Topics : ReadIndex(w, t)
    BY <1>1
  <2>2. [op |-> "lookup", topic |-> t, ids |-> index[t]] \in Calls
    BY DEF TypeOK, Calls
  <2> QED
    BY <2>1, <2>2 DEF TypeOK, ReadIndex, Begin, redis
<1>2. CASE ReadInterests(w)
  <2>1. call[w].topic \in Topics /\ call[w].ids \subseteq Conns
    BY <1>2, CallTopic DEF TypeOK, ReadInterests
  <2>2. [op |-> "prune", topic |-> call[w].topic, stale |-> Stale(w)] \in Calls
    BY <2>1 DEF Calls, Stale
  <2>3. Idle \in Calls
    BY DEF Calls
  <2> QED
    BY <1>2, <2>2, <2>3 DEF TypeOK, ReadInterests, Continue, redis
<1>3. CASE Prune(w)
  <2>1. call[w].topic \in Topics /\ Idle \in Calls
    BY <1>3, CallTopic DEF TypeOK, Prune, Calls
  <2> QED
    BY <1>3, <2>1, StoreAssumption DEF TypeOK, Prune, Continue
<1> QED
  BY <1>1, <1>2, <1>3 DEF Candidates

\* The two steps of Drop preserve the types.
LEMMA DropTypeOK ==
    ASSUME TypeOK, NEW w \in Workers, Drop(w)
    PROVE  TypeOK'
<1>1. CASE \E c \in Conns : ReadTopicsToDrop(w, c)
  <2>1. PICK c \in Conns : ReadTopicsToDrop(w, c)
    BY <1>1
  <2>2. [op |-> "drop", conn |-> c, topics |-> topicsOf[c]] \in Calls
    BY DEF TypeOK, Calls
  <2> QED
    BY <2>1, <2>2 DEF TypeOK, ReadTopicsToDrop, Begin, redis
<1>2. CASE CommitDrop(w)
  <2>1. call[w].conn \in Conns /\ Idle \in Calls
    BY <1>2, CallConn DEF TypeOK, CommitDrop, Calls
  <2> QED
    BY <1>2, <2>1, StoreAssumption DEF TypeOK, CommitDrop, Continue
<1> QED
  BY <1>1, <1>2 DEF Drop

\* The steps of Refresh preserve the types.
LEMMA RefreshTypeOK ==
    ASSUME TypeOK, NEW w \in Workers, Refresh(w)
    PROVE  TypeOK'
<1>1. CASE \E c \in Conns : ReadTopicsToRefresh(w, c)
  <2>1. PICK c \in Conns : ReadTopicsToRefresh(w, c)
    BY <1>1
  <2>2. [op |-> "refresh", conn |-> c, topics |-> topicsOf[c], pending |-> {}] \in Calls
    BY DEF TypeOK, Calls
  <2> QED
    BY <2>1, <2>2 DEF TypeOK, ReadTopicsToRefresh, Begin, redis
<1>2. CASE \E t \in Topics : ExtendInterest(w, t)
  <2>1. PICK t \in Topics : ExtendInterest(w, t)
    BY <1>2
  <2>2. call[w].conn \in Conns /\ call[w].topics \subseteq Topics
    BY <2>1, CallConn DEF TypeOK, ExtendInterest
  <2>3. [call[w] EXCEPT !.op = "extend", !.topics = @ \ {t}, !.pending = {t}] \in Calls
    <3> DEFINE R == [op : {"refresh", "extend"}, conn : Conns,
                     topics : SUBSET Topics, pending : SUBSET Topics]
    <3>1. call[w] \in R
      BY <2>1 DEF TypeOK, ExtendInterest, Calls, Idle
    <3>2. [call[w] EXCEPT !.op = "extend", !.topics = @ \ {t}, !.pending = {t}] \in R
      BY <3>1
    <3> QED
      BY <3>2 DEF Calls
  <2> QED
    BY <2>1, <2>2, <2>3, StoreAssumption
    DEF TypeOK, ExtendInterest, Continue, Renewed, Keys
<1>3. CASE \E t \in Topics : ExtendIndex(w, t)
  <2>1. PICK t \in Topics : ExtendIndex(w, t)
    BY <1>3
  <2>2. call[w].conn \in Conns /\ call[w].topics \subseteq Topics
    BY <2>1, CallConn DEF TypeOK, ExtendIndex
  <2>3. [call[w] EXCEPT !.pending = @ \ {t}] \in Calls
    BY <2>1 DEF TypeOK, ExtendIndex, Calls, Idle
  <2> QED
    BY <2>1, <2>3, StoreAssumption DEF TypeOK, ExtendIndex, Continue, Renewed
<1>4. CASE ExtendConn(w)
  <2>1. Idle \in Calls
    BY DEF Calls
  <2>2. call[w].conn \in Conns
    BY <1>4, CallConn DEF TypeOK, ExtendConn
  <2>3. Renewed(connTTL[call[w].conn]) \in 0 .. TTL
    BY <2>2, StoreAssumption DEF TypeOK, Renewed
  <2> QED
    BY <1>4, <2>1, <2>2, <2>3 DEF TypeOK, ExtendConn, Continue
<1> QED
  BY <1>1, <1>2, <1>3, <1>4 DEF Refresh

\* And so does any step.
LEMMA TypeStep ==
    ASSUME TypeOK, [Next]_vars
    PROVE  TypeOK'
<1>1. ASSUME NEW t \in Topics, NEW c \in Conns, NEW p \in Predicates, Set(t, c, p)
      PROVE  TypeOK'
  BY <1>1, SetTypeOK
<1>2. ASSUME NEW w \in Workers, Candidates(w) PROVE TypeOK'
  BY <1>2, CandidatesTypeOK
<1>3. ASSUME NEW w \in Workers, Drop(w) PROVE TypeOK'
  BY <1>3, DropTypeOK
<1>4. ASSUME NEW w \in Workers, Refresh(w) PROVE TypeOK'
  BY <1>4, RefreshTypeOK
<1>5. ASSUME NEW w \in Workers, Abandon(w) PROVE TypeOK'
  <2>1. Idle \in Calls
    BY DEF Calls
  <2> QED
    BY <1>5, <2>1 DEF TypeOK, Abandon, Continue, redis
<1>6. CASE Tick
  BY <1>6, StoreAssumption DEF TypeOK, Tick, Left
<1>7. CASE UNCHANGED vars
  BY <1>7 DEF TypeOK, vars
<1> QED
  BY <1>1, <1>2, <1>3, <1>4, <1>5, <1>6, <1>7 DEF Next

\* In the beginning there is nothing.
LEMMA InitType == Init => TypeOK
  BY StoreAssumption DEF Init, TypeOK, Calls, Idle

LEMMA InitKeys == Init => KeysConsistent
  BY StoreAssumption DEF Init, KeysConsistent

\* Every reachable state of the store is well typed.
THEOREM TypeCorrect == Spec => []TypeOK
<1>1. TypeOK /\ [Next]_vars => TypeOK'
  BY TypeStep
<1> QED
  BY <1>1, InitType, PTL DEF Spec

-----------------------------------------------------------------------------
(* The keys of Redis.                                                       *)

\* A step either leaves Redis alone or is one of the commands that write.
LEMMA WritingSteps ==
    ASSUME [Next]_vars
    PROVE  \/ UNCHANGED redis
           \/ \E t \in Topics, c \in Conns, p \in Predicates : Set(t, c, p)
           \/ \E w \in Workers : \/ Prune(w) \/ CommitDrop(w) \/ ExtendConn(w)
                                 \/ \E t \in Topics : ExtendInterest(w, t)
                                 \/ \E t \in Topics : ExtendIndex(w, t)
           \/ Tick
  BY DEF Next, Candidates, Drop, Refresh, Abandon, ReadIndex, ReadInterests,
         ReadTopicsToDrop, ReadTopicsToRefresh, vars, redis

\* A key exists exactly as long as it holds something, after any step.
LEMMA KeysStep ==
    ASSUME TypeOK, KeysConsistent, [Next]_vars
    PROVE  KeysConsistent'
<1>1. CASE UNCHANGED redis
  BY <1>1 DEF KeysConsistent, redis
<1>2. ASSUME NEW t \in Topics, NEW c \in Conns, NEW p \in Predicates, Set(t, c, p)
      PROVE  KeysConsistent'
  BY <1>2, StoreAssumption DEF TypeOK, KeysConsistent, Set, Keys
<1>3. ASSUME NEW w \in Workers, Prune(w) PROVE KeysConsistent'
  <2>1. call[w].topic \in Topics
    BY <1>3, CallTopic DEF TypeOK, Prune
  <2> QED
    BY <1>3, <2>1 DEF TypeOK, KeysConsistent, Prune
<1>4. ASSUME NEW w \in Workers, CommitDrop(w) PROVE KeysConsistent'
  <2>1. call[w].conn \in Conns
    BY <1>4, CallConn DEF TypeOK, CommitDrop
  <2>2. \A k \in Keys : (predicate'[k] = NoPredicate) <=> (interestTTL'[k] = 0)
    BY <1>4 DEF KeysConsistent, CommitDrop
  <2>3. \A t \in Topics : (index'[t] = {}) <=> (indexTTL'[t] = 0)
    BY <1>4 DEF KeysConsistent, CommitDrop
  <2>4. \A c \in Conns : (topicsOf'[c] = {}) <=> (connTTL'[c] = 0)
    BY <1>4, <2>1 DEF TypeOK, KeysConsistent, CommitDrop
  <2> QED
    BY <2>2, <2>3, <2>4 DEF KeysConsistent
<1>5. ASSUME NEW w \in Workers, ExtendConn(w) PROVE KeysConsistent'
  <2>1. call[w].conn \in Conns
    BY <1>5, CallConn DEF TypeOK, ExtendConn
  <2> QED
    BY <1>5, <2>1, StoreAssumption DEF TypeOK, KeysConsistent, ExtendConn, Renewed
<1>6. ASSUME NEW w \in Workers, NEW t \in Topics, ExtendInterest(w, t)
      PROVE  KeysConsistent'
  <2>1. call[w].conn \in Conns
    BY <1>6, CallConn DEF TypeOK, ExtendInterest
  <2> QED
    BY <1>6, <2>1, StoreAssumption DEF TypeOK, KeysConsistent, ExtendInterest, Renewed, Keys
<1>7. ASSUME NEW w \in Workers, NEW t \in Topics, ExtendIndex(w, t)
      PROVE  KeysConsistent'
  BY <1>7, StoreAssumption DEF TypeOK, KeysConsistent, ExtendIndex, Renewed
<1>8. CASE Tick
  <2>1. ASSUME NEW k \in Keys
        PROVE  (predicate'[k] = NoPredicate) <=> (interestTTL'[k] = 0)
    BY <1>8, StoreAssumption DEF TypeOK, KeysConsistent, Tick, Left
  <2>2. ASSUME NEW t \in Topics PROVE (index'[t] = {}) <=> (indexTTL'[t] = 0)
    <3>1. indexTTL[t] \in Nat /\ ((index[t] = {}) <=> (indexTTL[t] = 0))
      BY StoreAssumption DEF TypeOK, KeysConsistent
    <3>2. /\ index'[t] = IF indexTTL[t] <= 1 THEN {} ELSE index[t]
          /\ indexTTL'[t] = IF indexTTL[t] = 0 THEN 0 ELSE indexTTL[t] - 1
      BY <1>8 DEF Tick, Left
    <3> QED
      BY <3>1, <3>2
  <2>3. ASSUME NEW c \in Conns PROVE (topicsOf'[c] = {}) <=> (connTTL'[c] = 0)
    <3>1. connTTL[c] \in Nat /\ ((topicsOf[c] = {}) <=> (connTTL[c] = 0))
      BY StoreAssumption DEF TypeOK, KeysConsistent
    <3>2. /\ topicsOf'[c] = IF connTTL[c] <= 1 THEN {} ELSE topicsOf[c]
          /\ connTTL'[c] = IF connTTL[c] = 0 THEN 0 ELSE connTTL[c] - 1
      BY <1>8 DEF Tick, Left
    <3> QED
      BY <3>1, <3>2
  <2> QED
    BY <2>1, <2>2, <2>3 DEF KeysConsistent
<1>9. CASE \E w \in Workers : \/ Prune(w) \/ CommitDrop(w) \/ ExtendConn(w)
                              \/ \E t \in Topics : ExtendInterest(w, t)
                              \/ \E t \in Topics : ExtendIndex(w, t)
  BY <1>3, <1>4, <1>5, <1>6, <1>7, <1>9
<1>10. CASE \E t \in Topics, c \in Conns, p \in Predicates : Set(t, c, p)
  BY <1>2, <1>10
<1> QED
  BY <1>1, <1>8, <1>9, <1>10, WritingSteps

-----------------------------------------------------------------------------
(* What a call in progress knows, unless a Set overlapped it.               *)

\* Only Set makes an interest live or adds a topic to a connection's set.
LEMMA OnlySetAdds ==
    ASSUME TypeOK, KeysConsistent, [Next]_vars,
           ~ \E t \in Topics, c \in Conns, p \in Predicates : Set(t, c, p)
    PROVE  /\ \A k \in Keys : interestTTL[k] = 0 => interestTTL'[k] = 0
           /\ \A c \in Conns : topicsOf'[c] \subseteq topicsOf[c]
<1>1. CASE UNCHANGED redis
  BY <1>1 DEF redis
<1>2. ASSUME NEW w \in Workers, Prune(w) \/ ExtendConn(w)
                                \/ \E t \in Topics : ExtendIndex(w, t)
      PROVE  UNCHANGED <<interestTTL, topicsOf>>
  BY <1>2 DEF Prune, ExtendConn, ExtendIndex
<1>3. ASSUME NEW w \in Workers, CommitDrop(w)
      PROVE  /\ \A k \in Keys : interestTTL[k] = 0 => interestTTL'[k] = 0
             /\ \A c \in Conns : topicsOf'[c] \subseteq topicsOf[c]
  BY <1>3 DEF CommitDrop, TypeOK
<1>4. ASSUME NEW w \in Workers, NEW t \in Topics, ExtendInterest(w, t)
      PROVE  /\ \A k \in Keys : interestTTL[k] = 0 => interestTTL'[k] = 0
             /\ UNCHANGED topicsOf
  BY <1>4 DEF ExtendInterest, Renewed, TypeOK
<1>5. CASE Tick
  BY <1>5 DEF Tick, Left, TypeOK
<1> QED
  BY <1>1, <1>2, <1>3, <1>4, <1>5, WritingSteps

\* A step begins, advances or ends one call at most.
LEMMA CallSteps ==
    ASSUME TypeOK, [Next]_vars, NEW v \in Workers
    PROVE  \/ call'[v] = call[v] /\ (v \in raced => v \in raced')
           \/ \E t \in Topics : ReadIndex(v, t)
           \/ ReadInterests(v)
           \/ \E c \in Conns : ReadTopicsToDrop(v, c)
           \/ call'[v].op \in {"idle", "refresh", "extend"}
<1>1. ASSUME NEW w \in Workers, NEW state, Begin(w, state), w # v
      PROVE  call'[v] = call[v] /\ (v \in raced => v \in raced')
  BY <1>1 DEF Begin, TypeOK
<1>2. ASSUME NEW w \in Workers, NEW state, Continue(w, state), w # v
      PROVE  call'[v] = call[v] /\ (v \in raced => v \in raced')
  BY <1>2 DEF Continue, TypeOK
<1>3. ASSUME NEW t \in Topics, NEW c \in Conns, NEW p \in Predicates, Set(t, c, p)
      PROVE  call'[v] = call[v] /\ (v \in raced => v \in raced')
  BY <1>3 DEF Set
<1>4. ASSUME NEW w \in Workers, Candidates(w)
      PROVE  \/ call'[v] = call[v] /\ (v \in raced => v \in raced')
             \/ \E t \in Topics : ReadIndex(v, t)
             \/ ReadInterests(v)
             \/ call'[v].op = "idle"
  BY <1>1, <1>2, <1>4 DEF Candidates, ReadIndex, ReadInterests, Prune, Continue, Idle, TypeOK
<1>5. ASSUME NEW w \in Workers, Drop(w)
      PROVE  \/ call'[v] = call[v] /\ (v \in raced => v \in raced')
             \/ \E c \in Conns : ReadTopicsToDrop(v, c)
             \/ call'[v].op = "idle"
  BY <1>1, <1>2, <1>5 DEF Drop, ReadTopicsToDrop, CommitDrop, Continue, Idle, TypeOK
<1>6. ASSUME NEW w \in Workers, Refresh(w)
      PROVE  \/ call'[v] = call[v] /\ (v \in raced => v \in raced')
             \/ call'[v].op \in {"idle", "refresh", "extend"}
  <2>1. ASSUME w = v PROVE call'[v].op \in {"idle", "refresh", "extend"}
    <3>1. CASE \E c \in Conns : ReadTopicsToRefresh(w, c)
      BY <2>1, <3>1 DEF ReadTopicsToRefresh, Begin, TypeOK
    <3>2. CASE \E t \in Topics : ExtendInterest(w, t)
      BY <2>1, <3>2 DEF ExtendInterest, Continue, TypeOK
    <3>3. CASE \E t \in Topics : ExtendIndex(w, t)
      BY <2>1, <3>3 DEF ExtendIndex, Continue, TypeOK
    <3>4. CASE ExtendConn(w)
      BY <2>1, <3>4 DEF ExtendConn, Continue, Idle, TypeOK
    <3> QED
      BY <1>6, <3>1, <3>2, <3>3, <3>4 DEF Refresh
  <2>2. ASSUME w # v PROVE call'[v] = call[v] /\ (v \in raced => v \in raced')
    <3>1. CASE \E c \in Conns : ReadTopicsToRefresh(w, c)
      BY <1>1, <2>2, <3>1 DEF ReadTopicsToRefresh
    <3>2. CASE \E t \in Topics : ExtendInterest(w, t)
      BY <1>2, <2>2, <3>2 DEF ExtendInterest
    <3>3. CASE \E t \in Topics : ExtendIndex(w, t)
      BY <1>2, <2>2, <3>3 DEF ExtendIndex
    <3>4. CASE ExtendConn(w)
      BY <1>2, <2>2, <3>4 DEF ExtendConn
    <3> QED
      BY <1>6, <3>1, <3>2, <3>3, <3>4 DEF Refresh
  <2> QED
    BY <2>1, <2>2
<1>7. ASSUME NEW w \in Workers, Abandon(w)
      PROVE  \/ call'[v] = call[v] /\ (v \in raced => v \in raced')
             \/ call'[v].op = "idle"
  BY <1>2, <1>7 DEF Abandon, Continue, Idle, TypeOK
<1>8. CASE Tick \/ UNCHANGED vars
  BY <1>8 DEF Tick, vars
<1> QED
  BY <1>3, <1>4, <1>5, <1>6, <1>7, <1>8 DEF Next

\* A call is overlapped by every Set that writes one of its keys, so without
\* one what it read stays dead, since nothing else makes an interest live.
LEMMA PruneStep ==
    ASSUME TypeOK, TypeOK', KeysConsistent, PruneIsStale, [Next]_vars
    PROVE  PruneIsStale'
<1> SUFFICES ASSUME NEW v \in Workers, (call[v].op = "prune")', (v \notin raced)',
                    NEW c \in Conns, (c \in call[v].stale)'
             PROVE  (~Live(call[v].topic, c))'
  <2>1. \A v \in Workers : call'[v].op = "prune" => call'[v].stale \subseteq Conns
    BY CallTopic DEF TypeOK
  <2> QED
    BY <2>1 DEF PruneIsStale
<1>1. CASE \E t \in Topics, d \in Conns, p \in Predicates : Set(t, d, p)
  <2>1. PICK t \in Topics, d \in Conns, p \in Predicates : Set(t, d, p)
    BY <1>1
  <2>2. call[v].op = "prune" /\ v \notin raced /\ c \in call[v].stale /\ call[v].topic # t
    BY <2>1 DEF Set, Overlapped
  <2>3. call[v].topic \in Topics
    BY <2>2, CallTopic DEF TypeOK
  <2>4. ~Live(call[v].topic, c)
    BY <2>2 DEF PruneIsStale
  <2> QED
    BY <2>1, <2>2, <2>3, <2>4 DEF Set, Live, TypeOK, Keys
<1>2. CASE ReadInterests(v)
  BY <1>2 DEF ReadInterests, Continue, Stale, Live, redis, Idle, TypeOK
<1>3. CASE /\ call'[v] = call[v] /\ (v \in raced => v \in raced')
           /\ ~ \E t \in Topics, d \in Conns, p \in Predicates : Set(t, d, p)
  <2>1. call[v].topic \in Topics
    BY <1>3, CallTopic DEF TypeOK
  <2>2. ~Live(call[v].topic, c)
    BY <1>3 DEF PruneIsStale
  <2>3. interestTTL[<<call[v].topic, c>>] = 0
    BY <2>1, <2>2 DEF Live, TypeOK, Keys
  <2>4. interestTTL'[<<call[v].topic, c>>] = 0
    BY <1>3, <2>1, <2>3, OnlySetAdds DEF Keys
  <2> QED
    BY <1>3, <2>4 DEF Live
<1>4. CASE \/ \E t \in Topics : ReadIndex(v, t)
           \/ \E d \in Conns : ReadTopicsToDrop(v, d)
           \/ call'[v].op \in {"idle", "refresh", "extend"}
  BY <1>4 DEF ReadIndex, ReadTopicsToDrop, Begin, TypeOK
<1> QED
  BY <1>1, <1>2, <1>3, <1>4, CallSteps

\* Likewise a Drop's list of topics stays complete.
LEMMA DropStep ==
    ASSUME TypeOK, TypeOK', KeysConsistent, DropHasReadAll, [Next]_vars
    PROVE  DropHasReadAll'
<1> SUFFICES ASSUME NEW v \in Workers, (call[v].op = "drop")', (v \notin raced)'
             PROVE  (topicsOf[call[v].conn] \subseteq call[v].topics)'
  BY DEF DropHasReadAll
<1>1. CASE \E t \in Topics, d \in Conns, p \in Predicates : Set(t, d, p)
  <2>1. PICK t \in Topics, d \in Conns, p \in Predicates : Set(t, d, p)
    BY <1>1
  <2>2. call[v].op = "drop" /\ v \notin raced /\ call[v].conn # d
    BY <2>1 DEF Set, Overlapped
  <2>3. call[v].conn \in Conns /\ topicsOf[call[v].conn] \subseteq call[v].topics
    BY <2>2, CallConn DEF TypeOK, DropHasReadAll
  <2> QED
    BY <2>1, <2>2, <2>3 DEF Set, TypeOK
<1>2. CASE \E d \in Conns : ReadTopicsToDrop(v, d)
  BY <1>2 DEF ReadTopicsToDrop, Begin, redis, TypeOK
<1>3. CASE /\ call'[v] = call[v] /\ (v \in raced => v \in raced')
           /\ ~ \E t \in Topics, d \in Conns, p \in Predicates : Set(t, d, p)
  <2>1. call[v].conn \in Conns /\ topicsOf[call[v].conn] \subseteq call[v].topics
    BY <1>3, CallConn DEF TypeOK, DropHasReadAll
  <2>2. topicsOf'[call[v].conn] \subseteq topicsOf[call[v].conn]
    BY <1>3, <2>1, OnlySetAdds
  <2> QED
    BY <1>3, <2>1, <2>2
<1>4. CASE \/ \E t \in Topics : ReadIndex(v, t)
           \/ ReadInterests(v)
           \/ call'[v].op \in {"idle", "refresh", "extend"}
  BY <1>4 DEF ReadIndex, ReadInterests, Begin, Continue, Idle, TypeOK
<1> QED
  BY <1>1, <1>2, <1>3, <1>4, CallSteps

-----------------------------------------------------------------------------
(* Lifetimes, when every pipeline runs to its end.                          *)

\* A refresh loses a pending index only by renewing it, and ends only by
\* renewing the connection set.
LEMMA ExtendKept ==
    ASSUME TypeOK, ~PipelineBreaks, [Next]_vars,
           NEW v \in Workers, call[v].op = "extend"
    PROVE  /\ ExtendConn(v) \/ (call'[v].op = "extend" /\ call'[v].conn = call[v].conn)
           /\ \A t \in call[v].pending :
                 ExtendIndex(v, t) \/ (call'[v].op = "extend" /\ t \in call'[v].pending)
<1> DEFINE Kept ==
      /\ ExtendConn(v) \/ (call'[v].op = "extend" /\ call'[v].conn = call[v].conn)
      /\ \A t \in call[v].pending :
            ExtendIndex(v, t) \/ (call'[v].op = "extend" /\ t \in call'[v].pending)
<1>1. CASE call'[v] = call[v]
  BY <1>1
<1>2. ASSUME NEW w \in Workers, NEW state, Continue(w, state), w # v PROVE Kept
  BY <1>2 DEF Continue, TypeOK
<1>3. ASSUME NEW w \in Workers, NEW state, Begin(w, state) PROVE Kept
  BY <1>3 DEF Begin, TypeOK, Idle
<1>4. ASSUME NEW w \in Workers, Candidates(w) PROVE Kept
  BY <1>2, <1>3, <1>4 DEF Candidates, ReadIndex, ReadInterests, Prune
<1>5. ASSUME NEW w \in Workers, Drop(w) PROVE Kept
  BY <1>2, <1>3, <1>5 DEF Drop, ReadTopicsToDrop, CommitDrop
<1>6. ASSUME NEW w \in Workers, Refresh(w) PROVE Kept
  <2>1. CASE \E c \in Conns : ReadTopicsToRefresh(w, c)
    BY <1>3, <2>1 DEF ReadTopicsToRefresh
  <2>2. ASSUME NEW t \in Topics, ExtendInterest(w, t) PROVE Kept
    <3>1. CASE w = v
      BY <2>2, <3>1 DEF ExtendInterest, Continue, TypeOK, Calls, Idle
    <3> QED
      BY <1>2, <2>2, <3>1 DEF ExtendInterest
  <2>3. ASSUME NEW t \in Topics, ExtendIndex(w, t) PROVE Kept
    <3>1. CASE w = v
      BY <2>3, <3>1 DEF ExtendIndex, Continue, TypeOK, Calls, Idle
    <3> QED
      BY <1>2, <2>3, <3>1 DEF ExtendIndex
  <2>4. CASE ExtendConn(w)
    <3>1. CASE w = v
      BY <2>4, <3>1 DEF ExtendConn
    <3> QED
      BY <1>2, <2>4, <3>1 DEF ExtendConn
  <2> QED
    BY <1>6, <2>1, <2>2, <2>3, <2>4 DEF Refresh
<1>7. ASSUME NEW w \in Workers, Abandon(w) PROVE Kept
  BY <1>2, <1>7 DEF Abandon
<1>8. CASE Tick \/ \E t \in Topics, c \in Conns, p \in Predicates : Set(t, c, p)
  BY <1>1, <1>8 DEF Tick, Set
<1>9. CASE UNCHANGED vars
  BY <1>1, <1>9 DEF vars
<1> QED
  BY <1>4, <1>5, <1>6, <1>7, <1>8, <1>9 DEF Next

\* The index's lifetime stays ahead of the interests it lists.
LEMMA IndexStep ==
    ASSUME TypeOK, TypeOK', ~PipelineBreaks, KeysConsistent, KeysConsistent',
           IndexOutlivesInterests, [Next]_vars
    PROVE  IndexOutlivesInterests'
<1> SUFFICES ASSUME NEW t \in Topics, NEW c \in Conns, c \in index'[t]
             PROVE  interestTTL'[<<t, c>>] <= indexTTL'[t] \/ Extending(t, c)'
  BY DEF IndexOutlivesInterests, TypeOK
<1> DEFINE Kept == /\ c \in index[t]
                   /\ interestTTL'[<<t, c>>] <= interestTTL[<<t, c>>]
                   /\ indexTTL'[t] = indexTTL[t]
<1>1. /\ <<t, c>> \in Keys
      /\ interestTTL[<<t, c>>] \in 0 .. TTL /\ interestTTL'[<<t, c>>] \in 0 .. TTL
      /\ indexTTL[t] \in 0 .. TTL /\ indexTTL'[t] \in 0 .. TTL
      /\ TTL \in Nat
  BY StoreAssumption DEF TypeOK, Keys
<1>2. ASSUME Kept, ~ \E w \in Workers : ExtendIndex(w, t)
      PROVE  interestTTL'[<<t, c>>] <= indexTTL'[t] \/ Extending(t, c)'
  <2>1. CASE Extending(t, c)
    <3>1. PICK v \in Workers : call[v].op = "extend" /\ call[v].conn = c /\ t \in call[v].pending
      BY <2>1 DEF Extending
    <3>2. ~ExtendConn(v)
      BY <3>1 DEF ExtendConn
    <3>3. call'[v].op = "extend" /\ call'[v].conn = c /\ t \in call'[v].pending
      BY <1>2, <3>1, <3>2, ExtendKept
    <3> QED
      BY <3>3 DEF Extending
  <2>2. CASE interestTTL[<<t, c>>] <= indexTTL[t]
    BY <1>1, <1>2, <2>2
  <2> QED
    BY <1>2, <2>1, <2>2 DEF IndexOutlivesInterests
<1>3. ASSUME NEW w \in Workers, ExtendIndex(w, t)
      PROVE  interestTTL'[<<t, c>>] <= indexTTL'[t]
  <2>1. index'[t] = index[t] /\ indexTTL[t] # 0
    BY <1>3 DEF ExtendIndex, KeysConsistent
  <2> QED
    BY <1>1, <1>3, <2>1 DEF ExtendIndex, Renewed, TypeOK
<1>4. CASE ~ \E w \in Workers : ExtendIndex(w, t)
  <2>1. CASE UNCHANGED redis
    BY <1>1, <1>2, <1>4, <2>1 DEF redis
  <2>2. ASSUME NEW u \in Topics, NEW d \in Conns, NEW p \in Predicates, Set(u, d, p)
        PROVE  interestTTL'[<<t, c>>] <= indexTTL'[t] \/ Extending(t, c)'
    <3>1. CASE u = t
      BY <1>1, <2>2, <3>1 DEF Set, TypeOK
    <3>2. CASE u # t
      BY <1>1, <1>2, <1>4, <2>2, <3>2 DEF Set, TypeOK
    <3> QED
      BY <3>1, <3>2
  <2>3. ASSUME NEW w \in Workers, Prune(w) PROVE Kept
    <3>1. call[w].topic \in Topics
      BY <2>3, CallTopic DEF Prune, TypeOK
    <3> QED
      BY <1>1, <2>3, <3>1 DEF Prune, TypeOK
  <2>4. ASSUME NEW w \in Workers, CommitDrop(w) PROVE Kept
    <3>1. c \in index[t] /\ indexTTL'[t] = indexTTL[t]
      BY <2>4 DEF CommitDrop
    <3>2. interestTTL'[<<t, c>>] = 0 \/ interestTTL'[<<t, c>>] = interestTTL[<<t, c>>]
      BY <1>1, <2>4 DEF CommitDrop
    <3> QED
      BY <1>1, <3>1, <3>2
  <2>5. ASSUME NEW w \in Workers, ExtendConn(w) PROVE Kept
    BY <1>1, <2>5 DEF ExtendConn
  <2>6. ASSUME NEW w \in Workers, NEW u \in Topics, ExtendInterest(w, u)
        PROVE  Kept \/ Extending(t, c)'
    <3>1. CASE u = t /\ call[w].conn = c
      BY <2>6, <3>1 DEF ExtendInterest, Continue, Extending, TypeOK, Calls, Idle
    <3>2. CASE ~(u = t /\ call[w].conn = c)
      BY <1>1, <2>6, <3>2 DEF ExtendInterest, TypeOK
    <3> QED
      BY <3>1, <3>2
  <2>7. ASSUME NEW w \in Workers, NEW u \in Topics, ExtendIndex(w, u) PROVE Kept
    <3>1. u # t
      BY <1>4, <2>7
    <3>2. UNCHANGED <<interestTTL, index>> /\ indexTTL'[t] = indexTTL[t]
      BY <2>7, <3>1 DEF ExtendIndex, TypeOK
    <3> QED
      BY <1>1, <3>2
  <2>8. CASE Tick
    <3>1. ~Extending(t, c)
      BY <2>8 DEF Tick, Extending
    <3>2. indexTTL[t] > 1 /\ c \in index[t]
      BY <1>1, <2>8 DEF Tick
    <3>3. interestTTL[<<t, c>>] <= indexTTL[t]
      BY <3>1, <3>2 DEF IndexOutlivesInterests
    <3>4. /\ indexTTL'[t] = indexTTL[t] - 1
          /\ interestTTL'[<<t, c>>] = IF interestTTL[<<t, c>>] = 0
                                      THEN 0 ELSE interestTTL[<<t, c>>] - 1
      BY <1>1, <2>8, <3>2 DEF Tick, Left
    <3> QED
      BY <1>1, <3>2, <3>3, <3>4
  <2> HIDE DEF Kept
  <2>9. CASE \E w \in Workers : \/ Prune(w) \/ CommitDrop(w) \/ ExtendConn(w)
                                \/ \E u \in Topics : ExtendInterest(w, u)
                                \/ \E u \in Topics : ExtendIndex(w, u)
    BY <1>2, <1>4, <2>3, <2>4, <2>5, <2>6, <2>7, <2>9
  <2> QED
    BY <2>1, <2>2, <2>8, <2>9, WritingSteps
<1> QED
  BY <1>3, <1>4

\* Nor does a connection set's lifetime fall behind the interests it lists.
LEMMA ConnStep ==
    ASSUME TypeOK, TypeOK', ~PipelineBreaks, KeysConsistent, KeysConsistent',
           ConnOutlivesInterests, [Next]_vars
    PROVE  ConnOutlivesInterests'
<1> SUFFICES ASSUME NEW c \in Conns, NEW t \in Topics, t \in topicsOf'[c]
             PROVE  interestTTL'[<<t, c>>] <= connTTL'[c] \/ ExtendingConn(c)'
  BY DEF ConnOutlivesInterests, TypeOK
<1> DEFINE Kept == /\ t \in topicsOf[c]
                   /\ interestTTL'[<<t, c>>] <= interestTTL[<<t, c>>]
                   /\ connTTL'[c] = connTTL[c]
<1>1. /\ <<t, c>> \in Keys
      /\ interestTTL[<<t, c>>] \in 0 .. TTL /\ interestTTL'[<<t, c>>] \in 0 .. TTL
      /\ connTTL[c] \in 0 .. TTL /\ connTTL'[c] \in 0 .. TTL
      /\ TTL \in Nat
  BY StoreAssumption DEF TypeOK, Keys
<1>2. ASSUME Kept, ~ \E w \in Workers : ExtendConn(w) /\ call[w].conn = c
      PROVE  interestTTL'[<<t, c>>] <= connTTL'[c] \/ ExtendingConn(c)'
  <2>1. CASE ExtendingConn(c)
    <3>1. PICK v \in Workers : call[v].op = "extend" /\ call[v].conn = c
      BY <2>1 DEF ExtendingConn
    <3>2. call'[v].op = "extend" /\ call'[v].conn = c
      BY <1>2, <3>1, ExtendKept
    <3> QED
      BY <3>2 DEF ExtendingConn
  <2>2. CASE interestTTL[<<t, c>>] <= connTTL[c]
    BY <1>1, <1>2, <2>2
  <2> QED
    BY <1>2, <2>1, <2>2 DEF ConnOutlivesInterests
<1>3. ASSUME NEW w \in Workers, ExtendConn(w), call[w].conn = c
      PROVE  interestTTL'[<<t, c>>] <= connTTL'[c]
  <2>1. topicsOf'[c] = topicsOf[c] /\ connTTL[c] # 0
    BY <1>3 DEF ExtendConn, KeysConsistent
  <2> QED
    BY <1>1, <1>3, <2>1 DEF ExtendConn, Renewed, TypeOK
<1>4. CASE ~ \E w \in Workers : ExtendConn(w) /\ call[w].conn = c
  <2>1. CASE UNCHANGED redis
    BY <1>1, <1>2, <1>4, <2>1 DEF redis
  <2>2. ASSUME NEW u \in Topics, NEW d \in Conns, NEW p \in Predicates, Set(u, d, p)
        PROVE  interestTTL'[<<t, c>>] <= connTTL'[c] \/ ExtendingConn(c)'
    <3>1. CASE d = c
      BY <1>1, <2>2, <3>1 DEF Set, TypeOK
    <3>2. CASE d # c
      BY <1>1, <1>2, <1>4, <2>2, <3>2 DEF Set, TypeOK
    <3> QED
      BY <3>1, <3>2
  <2>3. ASSUME NEW w \in Workers, Prune(w) PROVE Kept
    BY <1>1, <2>3 DEF Prune
  <2>4. ASSUME NEW w \in Workers, CommitDrop(w) PROVE Kept
    <3>1. call[w].conn \in Conns /\ call[w].conn # c
      BY <2>4, CallConn DEF CommitDrop, TypeOK
    <3>2. t \in topicsOf[c] /\ connTTL'[c] = connTTL[c]
      BY <2>4, <3>1 DEF CommitDrop, TypeOK
    <3>3. interestTTL'[<<t, c>>] = interestTTL[<<t, c>>]
      BY <1>1, <2>4, <3>1 DEF CommitDrop
    <3> QED
      BY <1>1, <3>2, <3>3
  <2>5. ASSUME NEW w \in Workers, ExtendConn(w) PROVE Kept
    <3>1. call[w].conn # c
      BY <1>4, <2>5
    <3>2. UNCHANGED <<interestTTL, topicsOf>> /\ connTTL'[c] = connTTL[c]
      BY <2>5, <3>1 DEF ExtendConn, TypeOK
    <3> QED
      BY <1>1, <3>2
  <2>6. ASSUME NEW w \in Workers, NEW u \in Topics, ExtendInterest(w, u)
        PROVE  Kept \/ ExtendingConn(c)'
    <3>1. CASE call[w].conn = c
      BY <2>6, <3>1 DEF ExtendInterest, Continue, ExtendingConn, TypeOK, Calls, Idle
    <3>2. CASE call[w].conn # c
      BY <1>1, <2>6, <3>2 DEF ExtendInterest, TypeOK
    <3> QED
      BY <3>1, <3>2
  <2>7. ASSUME NEW w \in Workers, NEW u \in Topics, ExtendIndex(w, u) PROVE Kept
    BY <1>1, <2>7 DEF ExtendIndex
  <2>8. CASE Tick
    <3>1. ~ExtendingConn(c)
      BY <2>8 DEF Tick, ExtendingConn
    <3>2. connTTL[c] > 1 /\ t \in topicsOf[c]
      BY <1>1, <2>8 DEF Tick
    <3>3. interestTTL[<<t, c>>] <= connTTL[c]
      BY <3>1, <3>2 DEF ConnOutlivesInterests
    <3>4. /\ connTTL'[c] = connTTL[c] - 1
          /\ interestTTL'[<<t, c>>] = IF interestTTL[<<t, c>>] = 0
                                      THEN 0 ELSE interestTTL[<<t, c>>] - 1
      BY <1>1, <2>8, <3>2 DEF Tick, Left
    <3> QED
      BY <1>1, <3>2, <3>3, <3>4
  <2> HIDE DEF Kept
  <2>9. CASE \E w \in Workers : \/ Prune(w) \/ CommitDrop(w) \/ ExtendConn(w)
                                \/ \E u \in Topics : ExtendInterest(w, u)
                                \/ \E u \in Topics : ExtendIndex(w, u)
    BY <1>2, <1>4, <2>3, <2>4, <2>5, <2>6, <2>7, <2>9
  <2> QED
    BY <2>1, <2>2, <2>8, <2>9, WritingSteps
<1> QED
  BY <1>3, <1>4

-----------------------------------------------------------------------------
(* The theorems.                                                            *)

\* Redis holds a key exactly as long as there is something in it.
THEOREM KeysCorrect == Spec => []KeysConsistent
<1>1. TypeOK /\ KeysConsistent /\ [Next]_vars => KeysConsistent'
  BY KeysStep
<1> QED
  BY <1>1, InitKeys, TypeCorrect, PTL DEF Spec

\* A prune that no Set overlapped removes dead entries only.
THEOREM PruneCorrect == Spec => []PruneIsStale
<1>1. Init => PruneIsStale
  BY DEF Init, PruneIsStale, Idle
<1>2. TypeOK /\ TypeOK' /\ KeysConsistent /\ PruneIsStale /\ [Next]_vars => PruneIsStale'
  BY PruneStep
<1> QED
  BY <1>1, <1>2, TypeCorrect, KeysCorrect, PTL DEF Spec

\* A Drop that no Set overlapped has read everything its connection holds.
THEOREM DropCorrect == Spec => []DropHasReadAll
<1>1. Init => DropHasReadAll
  BY DEF Init, DropHasReadAll, Idle
<1>2. TypeOK /\ TypeOK' /\ KeysConsistent /\ DropHasReadAll /\ [Next]_vars
      => DropHasReadAll'
  BY DropStep
<1> QED
  BY <1>1, <1>2, TypeCorrect, KeysCorrect, PTL DEF Spec

\* As long as pipelines run to their end, an index outlives the interests it
\* lists.
THEOREM IndexLifetime ==
    ASSUME ~PipelineBreaks
    PROVE  Spec => []IndexOutlivesInterests
<1>1. Init => IndexOutlivesInterests
  BY DEF Init, IndexOutlivesInterests
<1>2. TypeOK /\ TypeOK' /\ KeysConsistent /\ KeysConsistent'
      /\ IndexOutlivesInterests /\ [Next]_vars => IndexOutlivesInterests'
  BY IndexStep
<1> QED
  BY <1>1, <1>2, TypeCorrect, KeysCorrect, PTL DEF Spec

\* As long as pipelines run to their end, a connection set outlives the
\* interests it lists.
THEOREM ConnLifetime ==
    ASSUME ~PipelineBreaks
    PROVE  Spec => []ConnOutlivesInterests
<1>1. Init => ConnOutlivesInterests
  BY DEF Init, ConnOutlivesInterests
<1>2. TypeOK /\ TypeOK' /\ KeysConsistent /\ KeysConsistent'
      /\ ConnOutlivesInterests /\ [Next]_vars => ConnOutlivesInterests'
  BY ConnStep
<1> QED
  BY <1>1, <1>2, TypeCorrect, KeysCorrect, PTL DEF Spec

\* A live interest is hidden from publishers by a prune that raced a Set, by
\* the expiry of its index if pipelines may stop half way, and by nothing else.
THEOREM Hidden == Spec => HiddenOnlyByRacingPrune
<1> DEFINE A == \A t \in Topics, c \in Conns :
                  Routable(t, c) /\ Live(t, c)' /\ ~Routable(t, c)' =>
                     \/ \E w \in raced : Prune(w) /\ call[w].topic = t /\ c \in call[w].stale
                     \/ PipelineBreaks /\ Tick /\ indexTTL[t] = 1
       Lasting == PipelineBreaks \/ IndexOutlivesInterests
<1>1. TypeOK /\ TypeOK' /\ KeysConsistent /\ PruneIsStale /\ Lasting /\ [Next]_vars => A
  <2> SUFFICES ASSUME TypeOK, TypeOK', KeysConsistent, PruneIsStale, Lasting, [Next]_vars,
                      NEW t \in Topics, NEW c \in Conns,
                      Live(t, c), c \in index[t], Live(t, c)', c \notin index'[t]
               PROVE  \/ \E w \in raced : Prune(w) /\ call[w].topic = t /\ c \in call[w].stale
                      \/ PipelineBreaks /\ Tick /\ indexTTL[t] = 1
    BY DEF Routable
  <2>1. <<t, c>> \in Keys
    BY DEF Keys
  <2>2. ASSUME NEW w \in Workers, Prune(w)
        PROVE  w \in raced /\ call[w].topic = t /\ c \in call[w].stale
    <3>1. call[w].topic \in Topics
      BY <2>2, CallTopic DEF Prune, TypeOK
    <3>2. call[w].topic = t /\ c \in call[w].stale
      BY <2>2, <3>1 DEF Prune, TypeOK
    <3> QED
      BY <2>2, <3>2 DEF PruneIsStale, Prune
  <2>3. ASSUME NEW w \in Workers, CommitDrop(w) PROVE FALSE
    BY <2>1, <2>3 DEF CommitDrop, Live, TypeOK
  <2>4. ASSUME Tick PROVE PipelineBreaks /\ indexTTL[t] = 1
    <3>1. indexTTL[t] = 1
      <4>1. indexTTL[t] <= 1
        BY <2>4 DEF Tick
      <4> QED
        BY <4>1, StoreAssumption DEF KeysConsistent, TypeOK
    <3>2. ~Extending(t, c)
      BY <2>4 DEF Tick, Extending
    <3>3. ASSUME ~PipelineBreaks PROVE FALSE
      <4>1. interestTTL[<<t, c>>] <= 1
        BY <2>1, <3>1, <3>2, <3>3, StoreAssumption DEF IndexOutlivesInterests, TypeOK
      <4> QED
        BY <2>1, <2>4, <4>1, StoreAssumption DEF Tick, Left, Live, TypeOK
    <3> QED
      BY <3>1, <3>3
  <2>5. CASE UNCHANGED redis
    BY <2>5 DEF redis
  <2>6. ASSUME NEW u \in Topics, NEW d \in Conns, NEW p \in Predicates, Set(u, d, p)
        PROVE  FALSE
    BY <2>6 DEF Set, TypeOK
  <2>7. ASSUME NEW w \in Workers, ExtendConn(w) \/ (\E u \in Topics : ExtendInterest(w, u))
                                  \/ (\E u \in Topics : ExtendIndex(w, u))
        PROVE  FALSE
    BY <2>7 DEF ExtendConn, ExtendInterest, ExtendIndex
  <2>8. CASE \E w \in Workers : Prune(w)
    BY <2>2, <2>8
  <2> QED
    BY <2>3, <2>4, <2>5, <2>6, <2>7, <2>8, WritingSteps
<1> QED
  <2>1. Spec => []Lasting
    <3>1. CASE PipelineBreaks
      <4>1. Lasting
        BY <3>1
      <4> QED
        BY <4>1, PTL
    <3>2. CASE ~PipelineBreaks
      <4>1. IndexOutlivesInterests => Lasting
        OBVIOUS
      <4>2. Spec => []IndexOutlivesInterests
        BY <3>2, IndexLifetime
      <4> QED
        BY <4>1, <4>2, PTL
    <3> QED
      BY <3>1, <3>2
  <2> QED
    BY <1>1, <2>1, TypeCorrect, KeysCorrect, PruneCorrect, PTL
       DEF Spec, HiddenOnlyByRacingPrune

\* A live interest leaves its connection's set through a Drop that raced a Set,
\* through the expiry of that set if pipelines may stop half way, and in no
\* other way.
THEOREM Orphaned == Spec => OrphanedOnlyByRacingDrop
<1> DEFINE A == \A t \in Topics, c \in Conns :
                  Owned(t, c) /\ Live(t, c)' /\ ~Owned(t, c)' =>
                     \/ \E w \in raced : CommitDrop(w) /\ call[w].conn = c
                     \/ PipelineBreaks /\ Tick /\ connTTL[c] = 1
       Lasting == PipelineBreaks \/ ConnOutlivesInterests
<1>1. TypeOK /\ TypeOK' /\ KeysConsistent /\ DropHasReadAll /\ Lasting /\ [Next]_vars => A
  <2> SUFFICES ASSUME TypeOK, TypeOK', KeysConsistent, DropHasReadAll, Lasting, [Next]_vars,
                      NEW t \in Topics, NEW c \in Conns,
                      Live(t, c), t \in topicsOf[c], Live(t, c)', t \notin topicsOf'[c]
               PROVE  \/ \E w \in raced : CommitDrop(w) /\ call[w].conn = c
                      \/ PipelineBreaks /\ Tick /\ connTTL[c] = 1
    BY DEF Owned
  <2>1. <<t, c>> \in Keys
    BY DEF Keys
  <2>2. ASSUME NEW w \in Workers, CommitDrop(w) PROVE w \in raced /\ call[w].conn = c
    <3>1. call[w].conn = c
      BY <2>2 DEF CommitDrop, TypeOK
    <3>2. t \notin call[w].topics
      BY <2>1, <2>2, <3>1 DEF CommitDrop, Live
    <3> QED
      BY <2>2, <3>1, <3>2 DEF DropHasReadAll, CommitDrop
  <2>3. ASSUME Tick PROVE PipelineBreaks /\ connTTL[c] = 1
    <3>1. connTTL[c] = 1
      <4>1. connTTL[c] <= 1
        BY <2>3 DEF Tick
      <4> QED
        BY <4>1, StoreAssumption DEF KeysConsistent, TypeOK
    <3>2. ~ExtendingConn(c)
      BY <2>3 DEF Tick, ExtendingConn
    <3>3. ASSUME ~PipelineBreaks PROVE FALSE
      <4>1. interestTTL[<<t, c>>] <= 1
        BY <2>1, <3>1, <3>2, <3>3, StoreAssumption DEF ConnOutlivesInterests, TypeOK
      <4> QED
        BY <2>1, <2>3, <4>1, StoreAssumption DEF Tick, Left, Live, TypeOK
    <3> QED
      BY <3>1, <3>3
  <2>4. CASE UNCHANGED redis
    BY <2>4 DEF redis
  <2>5. ASSUME NEW u \in Topics, NEW d \in Conns, NEW p \in Predicates, Set(u, d, p)
        PROVE  FALSE
    BY <2>5 DEF Set, TypeOK
  <2>6. ASSUME NEW w \in Workers, Prune(w) \/ ExtendConn(w)
                                  \/ (\E u \in Topics : ExtendInterest(w, u))
                                  \/ (\E u \in Topics : ExtendIndex(w, u))
        PROVE  FALSE
    BY <2>6 DEF Prune, ExtendConn, ExtendInterest, ExtendIndex
  <2>7. CASE \E w \in Workers : CommitDrop(w)
    BY <2>2, <2>7
  <2> QED
    BY <2>3, <2>4, <2>5, <2>6, <2>7, WritingSteps
<1> QED
  <2>1. Spec => []Lasting
    <3>1. CASE PipelineBreaks
      <4>1. Lasting
        BY <3>1
      <4> QED
        BY <4>1, PTL
    <3>2. CASE ~PipelineBreaks
      <4>1. ConnOutlivesInterests => Lasting
        OBVIOUS
      <4>2. Spec => []ConnOutlivesInterests
        BY <3>2, ConnLifetime
      <4> QED
        BY <4>1, <4>2, PTL
    <3> QED
      BY <3>1, <3>2
  <2> QED
    BY <1>1, <2>1, TypeCorrect, KeysCorrect, DropCorrect, PTL
       DEF Spec, OrphanedOnlyByRacingDrop

\* Nothing but Set makes an interest routable or changes its predicate, even
\* when pipelines break and calls are abandoned.
LEMMA ResurrectionStep ==
    ASSUME TypeOK, TypeOK', KeysConsistent, [Next]_vars
    PROVE  \A t \in Topics, c \in Conns :
              Routable(t, c)'
              /\ (~Routable(t, c) \/ predicate'[<<t, c>>] # predicate[<<t, c>>]) =>
                 Set(t, c, predicate'[<<t, c>>])
<1> SUFFICES ASSUME NEW t \in Topics, NEW c \in Conns,
                    Live(t, c)', c \in index'[t],
                    ~Routable(t, c) \/ predicate'[<<t, c>>] # predicate[<<t, c>>]
             PROVE  Set(t, c, predicate'[<<t, c>>])
  BY DEF Routable
<1>1. <<t, c>> \in Keys
  BY DEF Keys
<1>2. ASSUME NEW u \in Topics, NEW d \in Conns, NEW p \in Predicates, Set(u, d, p)
      PROVE  Set(t, c, predicate'[<<t, c>>])
  <2>1. CASE u = t /\ d = c
    <3>1. predicate'[<<t, c>>] = p
      BY <1>1, <1>2, <2>1 DEF Set, TypeOK
    <3> QED
      BY <1>2, <2>1, <3>1
  <2>2. CASE ~(u = t /\ d = c)
    <3>1. /\ predicate'[<<t, c>>] = predicate[<<t, c>>]
          /\ interestTTL'[<<t, c>>] = interestTTL[<<t, c>>]
      BY <1>1, <1>2, <2>2 DEF Set, TypeOK
    <3>2. c \in index[t]
      BY <1>2, <2>2 DEF Set, TypeOK
    <3> QED
      BY <3>1, <3>2 DEF Live, Routable
  <2> QED
    BY <2>1, <2>2
<1>3. ASSUME ~ \E u \in Topics, d \in Conns, p \in Predicates : Set(u, d, p)
      PROVE  FALSE
  <2>1. interestTTL[<<t, c>>] # 0
    BY <1>1, <1>3, OnlySetAdds DEF Live
  <2>2. interestTTL[<<t, c>>] > 0
    BY <1>1, <2>1, StoreAssumption DEF TypeOK
  <2>3. c \in index[t] /\ predicate'[<<t, c>>] = predicate[<<t, c>>]
    <3>1. CASE UNCHANGED redis
      BY <3>1 DEF redis
    <3>2. ASSUME NEW w \in Workers, Prune(w)
          PROVE  c \in index[t] /\ UNCHANGED predicate
      BY <3>2 DEF Prune, TypeOK
    <3>3. ASSUME NEW w \in Workers, CommitDrop(w)
          PROVE  c \in index[t] /\ predicate'[<<t, c>>] = predicate[<<t, c>>]
      BY <1>1, <3>3 DEF CommitDrop, Live
    <3>4. ASSUME NEW w \in Workers, ExtendConn(w)
                                    \/ (\E u \in Topics : ExtendInterest(w, u))
                                    \/ (\E u \in Topics : ExtendIndex(w, u))
          PROVE  c \in index[t] /\ UNCHANGED predicate
      BY <3>4 DEF ExtendConn, ExtendInterest, ExtendIndex
    <3>5. CASE Tick
      <4>1. ~(interestTTL[<<t, c>>] <= 1)
        BY <1>1, <3>5, StoreAssumption DEF Tick, Left, Live, TypeOK
      <4> QED
        BY <1>1, <3>5, <4>1 DEF Tick
    <3>6. CASE \E w \in Workers : Prune(w)
      BY <3>2, <3>6
    <3>7. CASE \E w \in Workers : CommitDrop(w)
      BY <3>3, <3>7
    <3>8. CASE \E w \in Workers : ExtendConn(w) \/ (\E u \in Topics : ExtendInterest(w, u))
                                  \/ (\E u \in Topics : ExtendIndex(w, u))
      BY <3>4, <3>8
    <3> QED
      BY <1>3, <3>1, <3>5, <3>6, <3>7, <3>8, WritingSteps
  <2> QED
    BY <2>2, <2>3 DEF Routable, Live
<1> QED
  BY <1>2, <1>3

\* So nothing brings an interest back.
THEOREM Resurrection == Spec => NoResurrection
<1>1. TypeOK /\ TypeOK' /\ KeysConsistent /\ [Next]_vars =>
        \A t \in Topics, c \in Conns :
           Routable(t, c)'
           /\ (~Routable(t, c) \/ predicate'[<<t, c>>] # predicate[<<t, c>>]) =>
              Set(t, c, predicate'[<<t, c>>])
  BY ResurrectionStep
<1> QED
  BY <1>1, TypeCorrect, KeysCorrect, PTL DEF Spec, NoResurrection
=============================================================================
