--------------------------- MODULE InterestStore ---------------------------
(***************************************************************************)
(* internal/interest/interest.go: what subscribers have said they care     *)
(* about, kept in Redis.  Three kinds of key, each with a time to live:    *)
(*                                                                         *)
(*   int:<topic>:<conn>  the predicate a connection registered for a topic *)
(*   idx:<topic>         the connections that registered for the topic     *)
(*   conn:<conn>         the topics a connection registered for            *)
(*                                                                         *)
(* Redis runs one command (or one MULTI/EXEC transaction) at a time, so a  *)
(* command is one action here.  A store operation that sends several       *)
(* commands keeps what it has read so far in call[w], w being the          *)
(* goroutine that runs it, and other goroutines' commands come in between. *)
(* A key's lifetime is counted down, 0 standing for a key that does not    *)
(* exist; Redis deletes a set when its last member goes.                   *)
(***************************************************************************)
EXTENDS Naturals, FiniteSets

CONSTANTS Topics, Conns, Predicates,
          Workers,        \* goroutines that may be inside a store operation
          TTL,            \* Options.TTL, in ticks
          PipelineBreaks, \* may a non-transactional pipeline stop half way?
          NoPredicate     \* what GET answers for a key that does not exist

ASSUME StoreAssumption ==
    /\ TTL \in Nat \ {0}
    /\ PipelineBreaks \in BOOLEAN
    /\ NoPredicate \notin Predicates

VARIABLES
    predicate,    \* int: the value of each interest key
    interestTTL,  \* int: its remaining lifetime
    index,        \* idx: the members of each index set
    indexTTL,
    topicsOf,     \* conn: the members of each connection set
    connTTL,
    call,         \* what each goroutine has in progress
    raced         \* history: calls a Set on their keys has overlapped

redis == <<predicate, interestTTL, index, indexTTL, topicsOf, connTTL>>
vars  == <<predicate, interestTTL, index, indexTTL, topicsOf, connTTL, call, raced>>

Keys == Topics \X Conns

Idle == [op |-> "idle"]

Calls ==
    {Idle}
    \cup [op : {"lookup"}, topic : Topics, ids : SUBSET Conns]
    \cup [op : {"prune"}, topic : Topics, stale : SUBSET Conns]
    \cup [op : {"drop"}, conn : Conns, topics : SUBSET Topics]
    \cup [op : {"refresh", "extend"}, conn : Conns,
          topics : SUBSET Topics, pending : SUBSET Topics]

TypeOK ==
    /\ predicate \in [Keys -> Predicates \cup {NoPredicate}]
    /\ interestTTL \in [Keys -> 0 .. TTL]
    /\ index \in [Topics -> SUBSET Conns]
    /\ indexTTL \in [Topics -> 0 .. TTL]
    /\ topicsOf \in [Conns -> SUBSET Topics]
    /\ connTTL \in [Conns -> 0 .. TTL]
    /\ call \in [Workers -> Calls]
    /\ raced \in SUBSET Workers

Live(t, c)     == interestTTL[<<t, c>>] > 0
Routable(t, c) == Live(t, c) /\ c \in index[t]      \* Candidates finds it
Owned(t, c)    == Live(t, c) /\ t \in topicsOf[c]   \* Drop and Refresh find it

Init ==
    /\ predicate = [k \in Keys |-> NoPredicate]
    /\ interestTTL = [k \in Keys |-> 0]
    /\ index = [t \in Topics |-> {}]
    /\ indexTTL = [t \in Topics |-> 0]
    /\ topicsOf = [c \in Conns |-> {}]
    /\ connTTL = [c \in Conns |-> 0]
    /\ call = [w \in Workers |-> Idle]
    /\ raced = {}

-----------------------------------------------------------------------------
(* A call begins with its first read and is over when it is Idle again.    *)

Begin(w, state) ==
    /\ call[w] = Idle
    /\ call' = [call EXCEPT ![w] = state]
    /\ raced' = raced \ {w}

Continue(w, state) ==
    /\ call' = [call EXCEPT ![w] = state]
    /\ UNCHANGED raced

\* The calls in progress that have read a key which Set(t, c) writes.
Overlapped(t, c) ==
    {w \in Workers :
        \/ call[w].op \in {"lookup", "prune"} /\ call[w].topic = t
        \/ call[w].op \in {"drop", "refresh", "extend"} /\ call[w].conn = c}

-----------------------------------------------------------------------------
(* Set: one transaction.  It replaces the predicate and renews all three    *)
(* keys.                                                                    *)
Set(t, c, p) ==
    /\ predicate' = [predicate EXCEPT ![<<t, c>>] = p]
    /\ interestTTL' = [interestTTL EXCEPT ![<<t, c>>] = TTL]
    /\ index' = [index EXCEPT ![t] = @ \cup {c}]
    /\ indexTTL' = [indexTTL EXCEPT ![t] = TTL]
    /\ topicsOf' = [topicsOf EXCEPT ![c] = @ \cup {t}]
    /\ connTTL' = [connTTL EXCEPT ![c] = TTL]
    /\ raced' = raced \cup Overlapped(t, c)
    /\ UNCHANGED call

(* Candidates: SMEMBERS the index; MGET the interests; SREM the members     *)
(* that had none.  An empty index ends the call at once.                    *)
ReadIndex(w, t) ==
    /\ index[t] # {}
    /\ Begin(w, [op |-> "lookup", topic |-> t, ids |-> index[t]])
    /\ UNCHANGED redis

StaleNever(w) == {}                 \* mutated: nothing is pruned
StaleUnread(w) == call[w].ids      \* mutated: the answers of MGET ignored
Stale(w) == {c \in call[w].ids : ~Live(call[w].topic, c)}
Found(w) == {c \in call[w].ids : Live(call[w].topic, c)}

ReadInterests(w) ==
    /\ call[w].op = "lookup"
    /\ Continue(w, IF Stale(w) = {}
                   THEN Idle
                   ELSE [op |-> "prune", topic |-> call[w].topic, stale |-> Stale(w)])
    /\ UNCHANGED redis

Prune(w) ==
    /\ call[w].op = "prune"
    /\ LET t == call[w].topic IN
        /\ index' = [index EXCEPT ![t] = @ \ call[w].stale]
        /\ indexTTL' = [indexTTL EXCEPT ![t] = IF index'[t] = {} THEN 0 ELSE @]
    /\ Continue(w, Idle)
    /\ UNCHANGED <<predicate, interestTTL, topicsOf, connTTL>>

(* Drop: SMEMBERS the connection's topics, then one transaction that        *)
(* deletes the interests read and the connection set.                       *)
ReadTopicsToDrop(w, c) ==
    /\ Begin(w, [op |-> "drop", conn |-> c, topics |-> topicsOf[c]])
    /\ UNCHANGED redis

CommitDrop(w) ==
    /\ call[w].op = "drop"
    /\ LET c    == call[w].conn
           gone == call[w].topics \X {c}
       IN
        /\ predicate' = [k \in Keys |-> IF k \in gone THEN NoPredicate ELSE predicate[k]]
        /\ interestTTL' = [k \in Keys |-> IF k \in gone THEN 0 ELSE interestTTL[k]]
        /\ index' = [t \in Topics |->
                        IF t \in call[w].topics THEN index[t] \ {c} ELSE index[t]]
        /\ indexTTL' = [t \in Topics |-> IF index'[t] = {} THEN 0 ELSE indexTTL[t]]
        /\ topicsOf' = [topicsOf EXCEPT ![c] = {}]
        /\ connTTL' = [connTTL EXCEPT ![c] = 0]
    /\ Continue(w, Idle)

(* Refresh: SMEMBERS the connection's topics, then a pipeline, not a        *)
(* transaction, of EXPIRE commands: for each topic its interest and then    *)
(* its index, and the connection set last.  EXPIRE of a missing key does    *)
(* nothing.  Nothing is sent for a connection without topics.               *)
Renewed(ttl) == IF ttl = 0 THEN 0 ELSE TTL

ReadTopicsToRefresh(w, c) ==
    /\ topicsOf[c] # {}
    /\ Begin(w, [op |-> "refresh", conn |-> c, topics |-> topicsOf[c], pending |-> {}])
    /\ UNCHANGED redis

ExtendInterestAnew(w, t) ==      \* mutated: registered again, as if by Set
    /\ call[w].op \in {"refresh", "extend"}
    /\ call[w].pending = {} /\ t \in call[w].topics
    /\ \E p \in Predicates : predicate' = [predicate EXCEPT ![<<t, call[w].conn>>] = p]
    /\ interestTTL' = [interestTTL EXCEPT ![<<t, call[w].conn>>] = TTL]
    /\ index' = [index EXCEPT ![t] = @ \cup {call[w].conn}]
    /\ indexTTL' = [indexTTL EXCEPT ![t] = TTL]
    /\ Continue(w, [call[w] EXCEPT !.op = "extend", !.topics = @ \ {t}, !.pending = {t}])
    /\ UNCHANGED <<topicsOf, connTTL>>

ExtendInterest(w, t) ==
    /\ call[w].op \in {"refresh", "extend"}
    /\ call[w].pending = {} /\ t \in call[w].topics
    /\ interestTTL' = [interestTTL EXCEPT ![<<t, call[w].conn>>] = Renewed(@)]
    /\ Continue(w, [call[w] EXCEPT !.op = "extend", !.topics = @ \ {t}, !.pending = {t}])
    /\ UNCHANGED <<predicate, index, indexTTL, topicsOf, connTTL>>

ExtendIndexNot(w, t) ==      \* mutated: the index is not renewed
    /\ call[w].op = "extend"
    /\ t \in call[w].pending
    /\ Continue(w, [call[w] EXCEPT !.pending = @ \ {t}])
    /\ UNCHANGED redis

ExtendIndex(w, t) ==
    /\ call[w].op = "extend"
    /\ t \in call[w].pending
    /\ indexTTL' = [indexTTL EXCEPT ![t] = Renewed(@)]
    /\ Continue(w, [call[w] EXCEPT !.pending = @ \ {t}])
    /\ UNCHANGED <<predicate, interestTTL, index, topicsOf, connTTL>>

ExtendConnNot(w) ==      \* mutated: the connection set is not renewed
    /\ call[w].op = "extend"
    /\ call[w].topics = {} /\ call[w].pending = {}
    /\ Continue(w, Idle)
    /\ UNCHANGED redis

ExtendConnAdding(w) ==      \* mutated: added to what is left
    /\ call[w].op = "extend"
    /\ call[w].topics = {} /\ call[w].pending = {}
    /\ connTTL' = [connTTL EXCEPT ![call[w].conn] = IF @ = 0 THEN 0 ELSE @ + TTL]
    /\ Continue(w, Idle)
    /\ UNCHANGED <<predicate, interestTTL, index, indexTTL, topicsOf>>

ExtendConn(w) ==
    /\ call[w].op = "extend"
    /\ call[w].topics = {} /\ call[w].pending = {}
    /\ connTTL' = [connTTL EXCEPT ![call[w].conn] = Renewed(@)]
    /\ Continue(w, Idle)
    /\ UNCHANGED <<predicate, interestTTL, index, indexTTL, topicsOf>>

(* A command of a call in progress fails and the call returns, or the       *)
(* process running it dies.  Candidates ignores a failed SREM: the same.    *)
Abandon(w) ==
    /\ call[w] # Idle
    /\ call[w].op = "extend" => PipelineBreaks
    /\ Continue(w, Idle)
    /\ UNCHANGED redis

(* Time passes and keys reach the end of their lives.  The commands of one  *)
(* pipeline run within a tick.                                              *)
Left(n) == IF n = 0 THEN 0 ELSE n - 1

Tick ==
    /\ \A w \in Workers : call[w].op # "extend"
    /\ interestTTL' = [k \in Keys |-> Left(interestTTL[k])]
    /\ predicate' = [k \in Keys |-> IF interestTTL[k] <= 1 THEN NoPredicate ELSE predicate[k]]
    /\ indexTTL' = [t \in Topics |-> Left(indexTTL[t])]
    /\ index' = [t \in Topics |-> IF indexTTL[t] <= 1 THEN {} ELSE index[t]]
    /\ connTTL' = [c \in Conns |-> Left(connTTL[c])]
    /\ topicsOf' = [c \in Conns |-> IF connTTL[c] <= 1 THEN {} ELSE topicsOf[c]]
    /\ UNCHANGED <<call, raced>>

Candidates(w) == (\E t \in Topics : ReadIndex(w, t)) \/ ReadInterests(w) \/ Prune(w)
Drop(w)       == (\E c \in Conns : ReadTopicsToDrop(w, c)) \/ CommitDrop(w)
Refresh(w)    ==
    \/ \E c \in Conns : ReadTopicsToRefresh(w, c)
    \/ \E t \in Topics : ExtendInterest(w, t) \/ ExtendIndex(w, t)
    \/ ExtendConn(w)

Next ==
    \/ \E t \in Topics, c \in Conns, p \in Predicates : Set(t, c, p)
    \/ \E w \in Workers : Candidates(w) \/ Drop(w) \/ Refresh(w) \/ Abandon(w)
    \/ Tick

Spec == Init /\ [][Next]_vars

-----------------------------------------------------------------------------
(* A key exists as long as it has something in it and time left.            *)
KeysConsistent ==
    /\ \A k \in Keys : (predicate[k] = NoPredicate) <=> (interestTTL[k] = 0)
    /\ \A t \in Topics : (index[t] = {}) <=> (indexTTL[t] = 0)
    /\ \A c \in Conns : (topicsOf[c] = {}) <=> (connTTL[c] = 0)

\* Connection c's refresh has renewed an interest and not yet its index.
Extending(t, c) ==
    \E w \in Workers : call[w].op = "extend" /\ call[w].conn = c /\ t \in call[w].pending

ExtendingConn(c) == \E w \in Workers : call[w].op = "extend" /\ call[w].conn = c

(* If pipelines run to their end, an index never expires under an interest  *)
(* it lists, although any number of connections share it and Refresh renews *)
(* them one key at a time: it outlives each of them, except between two     *)
(* commands of a refresh.                                                   *)
IndexOutlivesInterests ==
    \A t \in Topics : \A c \in index[t] :
        interestTTL[<<t, c>>] <= indexTTL[t] \/ Extending(t, c)

(* Nor, on the same premise, does a connection set expire under an interest *)
(* it lists, so that Refresh and Drop keep finding it.                      *)
ConnOutlivesInterests ==
    \A c \in Conns : \A t \in topicsOf[c] :
        interestTTL[<<t, c>>] <= connTTL[c] \/ ExtendingConn(c)

(* Unless a Set overlapped it, what Candidates is about to prune is dead.   *)
PruneIsStale ==
    \A w \in Workers : call[w].op = "prune" /\ w \notin raced =>
        \A c \in call[w].stale : ~Live(call[w].topic, c)

(* Unless a Set overlapped it, a Drop has read all there is to drop.        *)
DropHasReadAll ==
    \A w \in Workers : call[w].op = "drop" /\ w \notin raced =>
        topicsOf[call[w].conn] \subseteq call[w].topics

(* "The index converges on the truth without a sweeper" (Candidates'        *)
(* comment): if pipelines run to their end, a live interest stops being     *)
(* routable only when a prune removes it, and then only a prune a Set       *)
(* overlapped.  Where a pipeline may stop between an interest and its index *)
(* there is one other way, and no third: the index left behind expires.     *)
HiddenOnlyByRacingPrune ==
    [][\A t \in Topics, c \in Conns :
          Routable(t, c) /\ Live(t, c)' /\ ~Routable(t, c)' =>
             \/ \E w \in raced : Prune(w) /\ call[w].topic = t /\ c \in call[w].stale
             \/ PipelineBreaks /\ Tick /\ indexTTL[t] = 1]_vars

(* Drop "removes every interest held by a connection": if pipelines run to  *)
(* their end, a live interest leaves its connection's set only through a    *)
(* Drop that a Set overlapped.  Where a pipeline may stop before it has     *)
(* renewed the connection set, that set may also expire.                    *)
OrphanedOnlyByRacingDrop ==
    [][\A t \in Topics, c \in Conns :
          Owned(t, c) /\ Live(t, c)' /\ ~Owned(t, c)' =>
             \/ \E w \in raced : CommitDrop(w) /\ call[w].conn = c
             \/ PipelineBreaks /\ Tick /\ connTTL[c] = 1]_vars

(* Only Set makes an interest routable, and only Set changes its predicate: *)
(* a Refresh, a prune or a half-done call that meets a Drop or an expiry    *)
(* cannot bring an interest back.                                           *)
NoResurrection ==
    [][\A t \in Topics, c \in Conns :
          Routable(t, c)' /\ (~Routable(t, c) \/ predicate'[<<t, c>>] # predicate[<<t, c>>]) =>
             Set(t, c, predicate'[<<t, c>>])]_vars

-----------------------------------------------------------------------------
(* What the comment says of Candidates without the qualification.           *)

(* interest.go, Candidates: "the index converges on the truth".  A lookup   *)
(* that no Set overlapped finds every live interest of its topic.           *)
LookupComplete ==
    [][\A w \in Workers :
          ReadInterests(w) /\ w \notin raced =>
             \A c \in Conns : Live(call[w].topic, c) => c \in Found(w)]_vars
=============================================================================
