---------------------------- MODULE ConsolePanel ----------------------------
(***************************************************************************)
(* The panel of subscribers in the console's page (internal/web/static/    *)
(* app.js), over the subscribers and config handlers of internal/web:      *)
(* choosing or creating a topic, listing its subscribers, adding and       *)
(* removing them.  The page never waits: each of these sends a request and *)
(* goes on, and the callback that gets the answer acts on the page as it   *)
(* is by then.  Requests are served, and answered, in any order.           *)
(*                                                                         *)
(* The store is seen from here as a set of subscribers for each topic,     *)
(* which other visitors, sockets and the TTL change too; a request reads   *)
(* or writes it at one moment (what may happen within is InterestStore's). *)
(* Subscriber n stands for the id "sub-n", 0 for ids of any other form.    *)
(* Predicates, and what is typed into the boxes, are left out.             *)
(***************************************************************************)
EXTENDS Naturals, FiniteSets

CONSTANTS Topics, NoTopic,
          Configured,   \* the topics of the configuration
          Fallback,     \* the topic of a page that is offered none
          Ids,          \* bound: the ids that subscribers are given
          Slots         \* bound: the requests that may be open at a time

ASSUME PanelAssumption ==
    /\ NoTopic \notin Topics
    /\ Configured \subseteq Topics /\ Fallback \in Topics
    /\ Ids \subseteq Nat /\ IsFiniteSet(Ids)

VARIABLES
    registry,   \* the subscribers of each topic
    topic,      \* S.topic
    offered,    \* S.topics
    shown,      \* S.subs, with the topic it is the list of
    open,       \* the request in each slot
    untidy      \* history: something made default names unsafe

panelVars == <<registry, topic, offered, shown, open, untidy>>

\* A list is "old" once another has been asked for after it, and otherwise "stale"
\* once its topic has changed by another hand since it was read.
Lists == [topic : Topics \cup {NoTopic}, ids : SUBSET Ids, state : {"newest", "stale", "old"}]

Free == [kind |-> "free"]

Requests ==
    {Free}
    \cup [kind : {"list"}, served : BOOLEAN, of : Lists]
    \cup [kind : {"boot", "config"}, served : BOOLEAN, topics : SUBSET Topics]
    \cup [kind : {"add"}, served : BOOLEAN, topic : Topics \cup {NoTopic}, id : Ids,
          unnamed : BOOLEAN]
    \cup [kind : {"remove"}, served : BOOLEAN, id : Ids]

Blank(t) == [topic |-> t, ids |-> {}, state |-> "newest"]

List(t)          == [kind |-> "list", served |-> FALSE, of |-> Blank(t)]
Config(kind)     == [kind |-> kind, served |-> FALSE, topics |-> {}]
Add(t, id, dflt) == [kind |-> "add", served |-> FALSE, topic |-> t, id |-> id, unnamed |-> dflt]
Remove(id)       == [kind |-> "remove", served |-> FALSE, id |-> id]

\* What additions one after the other leave, if nothing is removed.
Compact(ids) == \A n \in ids : n <= Cardinality(ids)

PanelInit ==
    /\ registry \in [Topics -> {ids \in SUBSET Ids : Compact(ids)}]
    /\ topic = NoTopic
    /\ offered = {}
    /\ shown = Blank(NoTopic)
    /\ \E q \in Slots : open = [r \in Slots |-> IF r = q THEN Config("boot") ELSE Free]
    /\ untidy = FALSE

Quiet == \A q \in Slots : open[q] = Free

-----------------------------------------------------------------------------
(* The page.                                                                *)

\* setTopics: what the server has, and the topic that is selected.
SetTopics(list) == offered' = list \cup ({topic'} \ {NoTopic})

Older(list) == [list EXCEPT !.state = "old"]

\* loadSubs, sent from slot q, for the topic that is selected by now; the other
\* slots are left as they are in reqs.
LoadSubs(q, reqs) ==
    /\ open' = [r \in Slots |->
                   IF r = q THEN List(topic')
                   ELSE IF reqs[r].kind = "list" THEN [reqs[r] EXCEPT !.of = Older(@)]
                   ELSE reqs[r]]
    /\ shown' = Older(shown)

\* The select element, and createTopic.
ChooseTopic(q, t) ==
    /\ open[q] = Free
    /\ t # topic /\ t \in offered
    /\ topic' = t
    /\ LoadSubs(q, open)
    /\ UNCHANGED <<registry, offered, untidy>>

CreateTopicUnlisted(q, t) ==      \* mutated: the list is not read again
    /\ open[q] = Free
    /\ topic' = t
    /\ SetTopics(offered)
    /\ UNCHANGED <<registry, shown, open, untidy>>

CreateTopic(q, t) ==
    /\ open[q] = Free
    /\ topic' = t
    /\ SetTopics(offered)
    /\ LoadSubs(q, open)
    /\ UNCHANGED <<registry, untidy>>

DefaultName == Cardinality(shown.ids) + 1

\* A default name is safe to give while the page is at rest, shows the newest list
\* and nothing else has happened.
Ready == Quiet /\ shown.state = "newest"

\* The form: with a name, or with the default one.
SubmitAdd(q, id, unnamed) ==
    /\ open[q] = Free /\ \E r \in Slots \ {q} : open[r] = Free
    /\ unnamed => id = DefaultName
    /\ open' = [open EXCEPT ![q] = Add(topic, id, unnamed)]
    /\ untidy' = (untidy \/ (unnamed /\ ~Ready) \/ (~unnamed /\ id # 0))
    /\ UNCHANGED <<registry, topic, offered, shown>>

ClickRemove(q, id) ==
    /\ open[q] = Free /\ id \in shown.ids
    /\ open' = [open EXCEPT ![q] = Remove(id)]
    /\ untidy' = TRUE
    /\ UNCHANGED <<registry, topic, offered, shown>>

-----------------------------------------------------------------------------
(* The server.                                                              *)

Served(q, answer) == open' = [open EXCEPT ![q] = answer]

\* GET /api/subscribers
ServeList(q) ==
    /\ open[q].kind = "list" /\ ~open[q].served
    /\ Served(q, [open[q] EXCEPT !.served = TRUE, !.of.ids = registry[open[q].of.topic]])
    /\ UNCHANGED <<registry, topic, offered, shown, untidy>>

\* POST /api/subscribers: an addition without a topic is refused.
ServeAdd(q) ==
    /\ open[q].kind = "add" /\ ~open[q].served /\ open[q].topic # NoTopic
    /\ registry' = [registry EXCEPT ![open[q].topic] = @ \cup {open[q].id}]
    /\ Served(q, [open[q] EXCEPT !.served = TRUE])
    /\ UNCHANGED <<topic, offered, shown, untidy>>

\* DELETE /api/subscribers: Drop takes an id off every topic.
ServeRemove(q) ==
    /\ open[q].kind = "remove" /\ ~open[q].served
    /\ registry' = [t \in Topics |-> registry[t] \ {open[q].id}]
    /\ Served(q, [open[q] EXCEPT !.served = TRUE])
    /\ UNCHANGED <<topic, offered, shown, untidy>>

\* GET /api/config: the topics of the configuration, and those with an index, if
\* they can be read; it may outlive the interests in it.
ServeConfig(q) ==
    /\ open[q].kind \in {"boot", "config"} /\ ~open[q].served
    /\ \E some \in SUBSET Topics :
          /\ some = {} \/ {t \in Topics : registry[t] # {}} \subseteq some
          /\ Served(q, [open[q] EXCEPT !.served = TRUE, !.topics = Configured \cup some])
    /\ UNCHANGED <<registry, topic, offered, shown, untidy>>

\* What becomes of the lists that have been read when another hand changes topics.
Outdated(list, changed) ==
    IF list.state = "newest" /\ list.topic \in changed
    THEN [list EXCEPT !.state = "stale"] ELSE list
OutdatedRequest(r, changed) ==
    IF r.kind = "list" /\ r.served THEN [r EXCEPT !.of = Outdated(@, changed)] ELSE r

\* Another visitor or socket registers or leaves, or an interest expires.
OthersChange(t, id) ==
    /\ registry' = [registry EXCEPT ![t] = IF id \in @ THEN @ \ {id} ELSE @ \cup {id}]
    /\ shown' = Outdated(shown, {t})
    /\ open' = [q \in Slots |-> OutdatedRequest(open[q], {t})]
    /\ untidy' = TRUE
    /\ UNCHANGED <<topic, offered>>

-----------------------------------------------------------------------------
(* The callbacks.                                                           *)

AnswerList(q) ==
    /\ open[q].kind = "list" /\ open[q].served
    /\ shown' = open[q].of
    /\ open' = [open EXCEPT ![q] = Free]
    /\ UNCHANGED <<registry, topic, offered, untidy>>

\* The first of the topics, which come in the order of their names.
AnswerBoot(q) ==
    /\ open[q].kind = "boot" /\ open[q].served
    /\ topic' \in IF open[q].topics = {} THEN {Fallback} ELSE open[q].topics
    /\ SetTopics(open[q].topics)
    /\ LoadSubs(q, open)
    /\ UNCHANGED <<registry, untidy>>

AnswerConfigBare(q) ==      \* mutated: without the topic that is selected
    /\ open[q].kind = "config" /\ open[q].served
    /\ offered' = open[q].topics
    /\ open' = [open EXCEPT ![q] = Free]
    /\ UNCHANGED <<registry, topic, shown, untidy>>

AnswerConfig(q) ==
    /\ open[q].kind = "config" /\ open[q].served
    /\ UNCHANGED topic
    /\ SetTopics(open[q].topics)
    /\ open' = [open EXCEPT ![q] = Free]
    /\ UNCHANGED <<registry, shown, untidy>>

AnswerAddUnlisted(q) ==      \* mutated: the list is not read again
    /\ open[q].kind = "add" /\ open[q].served
    /\ open' = [open EXCEPT ![q] = Config("config")]
    /\ UNCHANGED <<registry, topic, offered, shown, untidy>>

\* refreshTopics and loadSubs.
AnswerAdd(q) ==
    /\ open[q].kind = "add" /\ open[q].served
    /\ \E r \in Slots \ {q} :
          /\ open[r] = Free
          /\ UNCHANGED topic
          /\ LoadSubs(q, [open EXCEPT ![r] = Config("config")])
    /\ UNCHANGED <<registry, offered, untidy>>

AnswerRemove(q) ==
    /\ open[q].kind = "remove" /\ open[q].served
    /\ UNCHANGED topic
    /\ LoadSubs(q, open)
    /\ UNCHANGED <<registry, offered, untidy>>

\* A request fails, before it was served or after.  A list is then shown as empty.
ListFails(q) ==
    /\ open[q].kind = "list"
    /\ shown' = Outdated([open[q].of EXCEPT !.ids = {}], Topics)
    /\ open' = [open EXCEPT ![q] = Free]
    /\ UNCHANGED <<registry, topic, offered, untidy>>

\* A write that was served although it failed is not followed by a list.
WriteFails(q) ==
    /\ open[q].kind \in {"add", "remove"}
    /\ shown' = Outdated(shown, Topics)
    /\ open' = [r \in Slots |-> IF r = q THEN Free ELSE OutdatedRequest(open[r], Topics)]
    /\ UNCHANGED <<registry, topic, offered, untidy>>

ConfigFails(q) ==
    /\ open[q].kind \in {"boot", "config"}
    /\ open' = [open EXCEPT ![q] = Free]
    /\ UNCHANGED <<registry, topic, offered, shown, untidy>>

Use(q) ==
    \/ \E t \in Topics : ChooseTopic(q, t) \/ CreateTopic(q, t)
    \/ \E id \in Ids, unnamed \in BOOLEAN : SubmitAdd(q, id, unnamed)
    \/ \E id \in Ids : ClickRemove(q, id)

Serve(q) == ServeList(q) \/ ServeAdd(q) \/ ServeRemove(q) \/ ServeConfig(q)

Answer(q) ==
    \/ AnswerList(q) \/ AnswerBoot(q) \/ AnswerConfig(q) \/ AnswerAdd(q) \/ AnswerRemove(q)
    \/ ListFails(q) \/ WriteFails(q) \/ ConfigFails(q)

PanelNext ==
    \/ \E q \in Slots : Use(q) \/ Serve(q) \/ Answer(q)
    \/ \E t \in Topics, id \in Ids : OthersChange(t, id)

PanelSpec == PanelInit /\ [][PanelNext]_panelVars

-----------------------------------------------------------------------------
(* Types; and the topic that is selected is always among those offered,     *)
(* although the answers that replace the offer know nothing of it.          *)
PanelTypeOK ==
    /\ registry \in [Topics -> SUBSET Ids]
    /\ topic \in offered \cup {NoTopic} /\ offered \subseteq Topics
    /\ topic = NoTopic => offered = {}
    /\ shown \in Lists
    /\ open \in [Slots -> Requests]
    /\ untidy \in BOOLEAN

(* At rest the panel shows the subscribers of the topic that is selected,   *)
(* with all that was added and removed here: unless an older list came in   *)
(* after the newest one, a request failed or others changed the topic.      *)
PanelShowsTopic ==
    Quiet /\ shown.state # "old" =>
        /\ shown.topic = topic
        /\ topic # NoTopic /\ shown.state = "newest" => shown.ids = registry[topic]

(* An unnamed addition never replaces a subscriber, on whatever topics and  *)
(* in whatever order they are made, if the page was at rest for each, no    *)
(* name of its form was typed and nothing has been removed: by this page,   *)
(* by others or by the TTL.                                                 *)
DefaultNamesAreFresh ==
    [][\A q \in Slots :
          ServeAdd(q) /\ open[q].unnamed /\ open[q].id \in registry[open[q].topic] =>
             untidy]_panelVars
=============================================================================
