--------------------------- MODULE Subscriptions ---------------------------
(***************************************************************************)
(* What an instance promises the clients of its sockets                    *)
(* (internal/app/app.go over internal/interest): an interest a socket has  *)
(* registered is found by lookups, as it was last registered, for as long  *)
(* as the socket is open; once the socket has gone nothing is registered   *)
(* for it any more, and what it had registered vanishes bit by bit.        *)
(***************************************************************************)
CONSTANTS Topics, Sockets, Predicates, NoPredicate

VARIABLES
    socket,     \* each socket: "new", "open" or "gone"
    interests   \* what lookups may find of each topic and socket

subscriptionVars == <<socket, interests>>

Interests == Topics \X Sockets

SubscriptionsInit ==
    /\ socket = [s \in Sockets |-> "new"]
    /\ interests = [k \in Interests |-> NoPredicate]

Open(s) ==
    /\ socket[s] = "new"
    /\ socket' = [socket EXCEPT ![s] = "open"]
    /\ UNCHANGED interests

Want(t, s, p) ==
    /\ socket[s] = "open"
    /\ interests' = [interests EXCEPT ![<<t, s>>] = p]
    /\ UNCHANGED socket

\* One socket, or all those of an instance that dies.
Leave(some) ==
    /\ \A s \in some : socket[s] = "open"
    /\ socket' = [s \in Sockets |-> IF s \in some THEN "gone" ELSE socket[s]]
    /\ UNCHANGED interests

Vanish(some) ==
    /\ \A k \in some : socket[k[2]] = "gone"
    /\ interests' = [k \in Interests |-> IF k \in some THEN NoPredicate ELSE interests[k]]
    /\ UNCHANGED socket

SubscriptionsNext ==
    \/ \E s \in Sockets : Open(s)
    \/ \E t \in Topics, s \in Sockets, p \in Predicates : Want(t, s, p)
    \/ \E some \in SUBSET Sockets : Leave(some)
    \/ \E some \in SUBSET Interests : Vanish(some)

SubscriptionsSpec == SubscriptionsInit /\ [][SubscriptionsNext]_subscriptionVars
=============================================================================
