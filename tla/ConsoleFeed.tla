---------------------------- MODULE ConsoleFeed ----------------------------
(***************************************************************************)
(* The feed of the console page over Recorder: the last steps of the boot  *)
(* in internal/web/static/app.js, the handlers decisions and stream of     *)
(* internal/web/web.go, and the browser's EventSource.                     *)
(*                                                                         *)
(* The page fetches the recent records, shows them, and only then opens    *)
(* the stream; when that breaks, EventSource opens it anew, and what was   *)
(* added meanwhile is not asked for again.  One page is followed; its      *)
(* connections are viewers of the recorder, the others belong to others.   *)
(***************************************************************************)
EXTENDS Recorder, SequencesExt

CONSTANTS Cap,      \* how many records a response and the feed hold
          NoConn    \* the page has no connection

ASSUME FeedAssumption ==
    /\ Cap \in Nat \ {0}
    /\ NoConn \notin Viewers
    /\ IsFiniteSet(Publishers)

VARIABLES
    stage,      \* how far the page is
    conn,       \* the viewer the page's stream is
    answer,     \* the response of /api/decisions, until it is shown
    feed,       \* S.recs, the newest arrival first
    lost,       \* history: what was never sent to the page, or not received
    displaced   \* history: what did not fit

page == <<stage, conn, answer, feed, lost, displaced>>
feedVars == <<vars, page>>

Stages == {"fetching", "answered", "connecting", "streaming", "dead"}

FeedInit ==
    /\ Init
    /\ stage = "fetching"
    /\ conn = NoConn
    /\ answer = <<>>
    /\ feed = <<>>
    /\ lost = {}
    /\ displaced = {}

\* Records that the page will not be sent.
Lose(records) == lost' = lost \cup records

-----------------------------------------------------------------------------
(* The page.                                                                *)

Snapshot ==      \* the handler decisions
    /\ stage = "fetching"
    /\ stage' = "answered"
    /\ answer' = Recent(Cap)
    /\ displaced' = 1 .. seq \ ToSet(Recent(Cap))
    /\ UNCHANGED <<vars, conn, feed, lost>>

\* A request of the boot fails: the page says so and opens no stream.
FetchFails ==
    /\ stage \in {"fetching", "answered"}
    /\ stage' = "dead"
    /\ answer' = <<>>
    /\ lost' = {} /\ displaced' = {}      \* there is no feed to account for
    /\ UNCHANGED <<vars, conn, feed>>

Show ==
    /\ stage = "answered"
    /\ stage' = "connecting"
    /\ feed' = Reverse(answer)
    /\ answer' = <<>>
    /\ UNCHANGED <<vars, conn, lost, displaced>>

\* The request for the stream reaches its handler.
Open(v) ==
    /\ stage = "connecting"
    /\ Subscribe(v)
    /\ stage' = "streaming"
    /\ conn' = v
    /\ UNCHANGED <<answer, feed, lost, displaced>>

PageReceiveUncapped ==      \* mutated: nothing is popped
    /\ stage = "streaming"
    /\ Receive(conn)
    /\ feed' = <<Head(queue[conn])>> \o feed
    /\ UNCHANGED <<stage, conn, answer, lost, displaced>>

\* es.onmessage.
PageReceive ==
    /\ stage = "streaming"
    /\ Receive(conn)
    /\ LET all == <<Head(queue[conn])>> \o feed
       IN  IF Len(all) > Cap
           THEN /\ feed' = Front(all)
                /\ displaced' = displaced \cup {Last(all)}
           ELSE feed' = all /\ UNCHANGED displaced
    /\ UNCHANGED <<stage, conn, answer, lost>>

\* The records on their way to viewer v.
Sending(v) == {sending[p].rec : p \in {p \in Publishers : v \in sending[p].to}}

\* The connection breaks.  Its handler may not know for a while.
Break ==
    /\ stage = "streaming"
    /\ stage' = "connecting"
    /\ conn' = NoConn
    /\ Lose(ToSet(queue[conn]) \cup Sending(conn))
    /\ UNCHANGED <<vars, answer, feed, displaced>>

-----------------------------------------------------------------------------
(* The recorder and its other viewers, with what that means for the page.   *)

FeedAdd(p) ==
    /\ Add(p)
    /\ Lose(IF stage \in {"answered", "connecting"} THEN {seq'} ELSE {})
    /\ UNCHANGED <<stage, conn, answer, feed, displaced>>

FeedSend(p, v) == Send(p, v) /\ UNCHANGED page

FeedSkipFull(p, v) ==
    /\ SkipFull(p, v)
    /\ Lose(IF v = conn THEN {sending[p].rec} ELSE {})
    /\ UNCHANGED <<stage, conn, answer, feed, displaced>>

\* The panic takes with it what was still to be sent.
FeedSendClosed(p, v) ==
    /\ SendClosed(p, v)
    /\ Lose(IF conn \in sending[p].to THEN {sending[p].rec} ELSE {})
    /\ UNCHANGED <<stage, conn, answer, feed, displaced>>

Other(v) ==
    /\ v # conn
    /\ Subscribe(v) \/ Receive(v) \/ Release(v)
    /\ UNCHANGED page

FeedSendLoop(p) ==
    \E v \in Viewers : FeedSend(p, v) \/ FeedSkipFull(p, v) \/ FeedSendClosed(p, v)

FeedNext ==
    \/ Snapshot \/ FetchFails \/ Show \/ PageReceive \/ Break
    \/ \E v \in Viewers : Open(v) \/ Other(v)
    \/ \E p \in Publishers : FeedAdd(p) \/ FeedSendLoop(p)

\* A publisher in its send loop is running: nothing it does can block.  Nothing
\* is assumed of the page, its connection or the other viewers.
FeedSpec ==
    /\ FeedInit /\ [][FeedNext]_feedVars
    /\ \A p \in Publishers : WF_feedVars(FeedSendLoop(p))

-----------------------------------------------------------------------------
FeedTypeOK ==
    /\ TypeOK
    /\ stage \in Stages
    /\ conn \in Viewers \cup {NoConn} /\ (conn # NoConn <=> stage = "streaming")
    /\ answer \in Seq(1 .. MaxSeq) /\ Len(answer) <= Cap
    /\ feed \in Seq(1 .. MaxSeq) /\ Len(feed) <= Cap
    /\ lost \in SUBSET (1 .. MaxSeq)
    /\ displaced \in SUBSET (1 .. MaxSeq)

\* What the page shows and what its connection still holds, newest arrival first.
Arrivals ==
    IF stage = "streaming" THEN Reverse(queue[conn]) \o feed
    ELSE IF stage = "answered" THEN Reverse(answer)
    ELSE feed

(* The feed shows a record once at most, although the response and the      *)
(* stream are asked for separately and the stream may be opened anew: the   *)
(* page never looks whether it has a record already.                        *)
FeedHasNoDuplicates ==
    \A i, j \in DOMAIN Arrivals : Arrivals[i] = Arrivals[j] => i = j

(* The page puts what arrives in front, but records may overtake each other *)
(* on their way, since the sends happen after the unlock.  A record is      *)
(* overtaken only while its publisher is in its send loop, so fewer older   *)
(* records stand in front of a newer one than there are publishers.         *)
FeedDisorderBounded ==
    \A i \in DOMAIN Arrivals :
        Cardinality({j \in 1 .. i - 1 : Arrivals[j] < Arrivals[i]})
            < Cardinality(Publishers)

(* Once the page has its response, every record is in the feed or on its    *)
(* way there, unless newer ones displaced it or there was a gap: it was     *)
(* added while the page had no connection or was sent into one that broke,  *)
(* met a full channel, or its publisher panicked.  That another viewer is   *)
(* slow or leaves costs the page nothing else, and no record that fell into *)
(* a gap turns up after all.                                                *)
FeedMissesOnlyGaps ==
    stage \in {"answered", "connecting", "streaming"} =>
        /\ \A r \in 1 .. seq :
              \/ r \in ToSet(Arrivals) \cup lost \cup displaced
              \/ stage = "streaming" /\ r \in Sending(conn)
        /\ lost \cap ToSet(Arrivals) = {}
=============================================================================
