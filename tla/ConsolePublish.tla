--------------------------- MODULE ConsolePublish ---------------------------
(***************************************************************************)
(* A publish from the console (publish in internal/web/web.go) through the *)
(* bus to the judge (internal/judge/judge.go, or keyword.go without an API *)
(* key) and the records the judge and the console leave of it, while other *)
(* clients register and remove interests.                                  *)
(*                                                                         *)
(* The bus is external: what is said of it here is what the repository     *)
(* relies on.  It looks up the candidates of a message's topic, skips the  *)
(* judge when there are none, delivers to those the judge decided on, or   *)
(* to every candidate when it fails (JudgeFailurePolicy: DeliverAll), and  *)
(* returns when that is done.  It may fail before, half way or after.      *)
(*                                                                         *)
(* One topic; interests are the ids Candidates finds, every one with a     *)
(* predicate (Set refuses empty ones, so none is left out of the           *)
(* questions).  A score stands for its place among Scores.                 *)
(***************************************************************************)
EXTENDS Naturals, FiniteSets

CONSTANTS Messages, Subscribers,
          TopScore,    \* scores and probabilities are 0 .. TopScore
          Threshold

ASSUME PublishAssumption ==
    /\ TopScore \in Nat \ {0}
    /\ Threshold \in 1 .. TopScore

VARIABLES
    judgeLive,   \* there is an API key; the keyword judge decides otherwise
    interests,   \* the topic's subscribers, as Candidates finds them
    stage,       \* how far each publish is
    known,       \* what the console's own lookup found for it
    asked,       \* the candidates the bus found
    verdict,     \* what became of the judgment
    decisions,   \* what the judge decided
    delivered,   \* whom the bus has delivered each message to
    records,     \* what the Recorder has been given
    disturbed    \* history: publishes during whose lookups interests changed

vars == <<judgeLive, interests, stage, known, asked, verdict, decisions, delivered, records,
          disturbed>>

Scores == 0 .. TopScore

Decision == [id : Subscribers, score : Scores, deliver : BOOLEAN]

\* A record's Decisions slice is nil or a list, which may be empty.
Record == [msg : Messages, nil : BOOLEAN, decisions : SUBSET Decision]

TypeOK ==
    /\ judgeLive \in BOOLEAN
    /\ interests \in SUBSET Subscribers
    /\ stage \in [Messages -> {"new", "looked", "judging", "routed", "published", "refused"}]
    /\ known \in [Messages -> {"nobody", "somebody", "unknown"}]
    /\ asked \in [Messages -> SUBSET Subscribers]
    /\ verdict \in [Messages -> {"none", "unjudged", "decided", "failed"}]
    /\ decisions \in [Messages -> SUBSET Decision]
    /\ delivered \in [Messages -> SUBSET Subscribers]
    /\ records \in SUBSET Record
    /\ disturbed \in SUBSET Messages

Init ==
    /\ judgeLive \in BOOLEAN
    /\ interests \in SUBSET Subscribers
    /\ stage = [m \in Messages |-> "new"]
    /\ known = [m \in Messages |-> "unknown"]
    /\ asked = [m \in Messages |-> {}]
    /\ verdict = [m \in Messages |-> "none"]
    /\ decisions = [m \in Messages |-> {}]
    /\ delivered = [m \in Messages |-> {}]
    /\ records = {}
    /\ disturbed = {}

To(m, place) == stage' = [stage EXCEPT ![m] = place]

\* Someone registers, leaves or expires.
InterestsChange ==
    /\ \E s \in Subscribers :
          interests' = IF s \in interests THEN interests \ {s} ELSE interests \cup {s}
    /\ disturbed' = disturbed \cup {m \in Messages : stage[m] = "looked"}
    /\ UNCHANGED <<judgeLive, stage, known, asked, verdict, decisions, delivered, records>>

-----------------------------------------------------------------------------
\* publish: the console's lookup, which may fail and is then only logged.
Look(m) ==
    /\ stage[m] = "new"
    /\ To(m, "looked")
    /\ known' \in {[known EXCEPT ![m] = answer] : answer \in
                      {"unknown", IF interests = {} THEN "nobody" ELSE "somebody"}}
    /\ UNCHANGED <<judgeLive, interests, asked, verdict, decisions, delivered, records, disturbed>>

\* PublishTopic: the bus's lookup.
Route(m) ==
    /\ stage[m] = "looked"
    /\ asked' = [asked EXCEPT ![m] = interests]
    /\ IF interests = {}
       THEN To(m, "routed") /\ verdict' = [verdict EXCEPT ![m] = "unjudged"]
       ELSE To(m, "judging") /\ UNCHANGED verdict
    /\ UNCHANGED <<judgeLive, interests, known, decisions, delivered, records, disturbed>>

\* Judge: the asker fails, or refuses.  The keyword judge never does.
JudgeFails(m) ==
    /\ stage[m] = "judging" /\ judgeLive
    /\ verdict' = [verdict EXCEPT ![m] = "failed"]
    /\ To(m, "routed")
    /\ UNCHANGED <<judgeLive, interests, known, asked, decisions, delivered, records, disturbed>>

DecisionsGuessing(m, answered, score) ==      \* mutated: no answer delivers
    {[id |-> s, score |-> IF s \in answered THEN score[s] ELSE 0,
      deliver |-> s \notin answered \/ score[s] >= Threshold] : s \in asked[m]}

\* A candidate the model left unanswered gets no decision.
Decisions(m, answered, score) ==
    {[id |-> s, score |-> score[s], deliver |-> score[s] >= Threshold] : s \in answered}

\* Judge: the answers, and their record.
Judge(m) ==
    /\ stage[m] = "judging" /\ judgeLive
    /\ \E answered \in SUBSET asked[m] : \E score \in [answered -> Scores] :
          LET ds == Decisions(m, answered, score)
          IN  /\ decisions' = [decisions EXCEPT ![m] = ds]
              /\ records' = records \cup {[msg |-> m, nil |-> FALSE, decisions |-> ds]}
    /\ verdict' = [verdict EXCEPT ![m] = "decided"]
    /\ To(m, "routed")
    /\ UNCHANGED <<judgeLive, interests, known, asked, delivered, disturbed>>

\* Keyword.Judge: the score is the share of the predicate's words that are in
\* the message, and one of them is enough to deliver.  It leaves no record.
KeywordJudge(m) ==
    /\ stage[m] = "judging" /\ ~judgeLive
    /\ \E score \in [asked[m] -> Scores] :
          decisions' = [decisions EXCEPT ![m] =
              {[id |-> s, score |-> score[s], deliver |-> score[s] > 0] : s \in asked[m]}]
    /\ verdict' = [verdict EXCEPT ![m] = "decided"]
    /\ To(m, "routed")
    /\ UNCHANGED <<judgeLive, interests, known, asked, delivered, records, disturbed>>

\* PublishTopic delivers, to one after the other.
Chosen(m) ==
    IF verdict[m] = "failed" THEN asked[m]
    ELSE {d.id : d \in {e \in decisions[m] : e.deliver}}

Deliver(m) ==
    /\ stage[m] = "routed"
    /\ \E s \in Chosen(m) \ delivered[m] : delivered' = [delivered EXCEPT ![m] = @ \cup {s}]
    /\ UNCHANGED <<judgeLive, interests, stage, known, asked, verdict, decisions, records, disturbed>>

\* PublishTopic fails, at its lookup or at any point of the delivery: the
\* console is told so and nothing more happens.
Refuse(m) ==
    /\ stage[m] \in {"looked", "routed"}
    /\ To(m, "refused")
    /\ UNCHANGED <<judgeLive, interests, known, asked, verdict, decisions, delivered, records, disturbed>>

FinishAlways(m) ==        \* mutated: every publish is recorded
    /\ stage[m] = "routed" /\ delivered[m] = Chosen(m)
    /\ To(m, "published")
    /\ records' = records \cup {[msg |-> m, nil |-> TRUE, decisions |-> {}]}
    /\ UNCHANGED <<judgeLive, interests, known, asked, verdict, decisions, delivered, disturbed>>

FinishGuessing(m) ==      \* mutated: a failed lookup counts as nobody
    /\ stage[m] = "routed" /\ delivered[m] = Chosen(m)
    /\ To(m, "published")
    /\ records' = IF known[m] # "somebody"
                  THEN records \cup {[msg |-> m, nil |-> TRUE, decisions |-> {}]}
                  ELSE records
    /\ UNCHANGED <<judgeLive, interests, known, asked, verdict, decisions, delivered, disturbed>>

\* AddPublish, if the console's lookup had found nobody.
Finish(m) ==
    /\ stage[m] = "routed" /\ delivered[m] = Chosen(m)
    /\ To(m, "published")
    /\ records' = IF known[m] = "nobody"
                  THEN records \cup {[msg |-> m, nil |-> TRUE, decisions |-> {}]}
                  ELSE records
    /\ UNCHANGED <<judgeLive, interests, known, asked, verdict, decisions, delivered, disturbed>>

Publish(m) ==
    \/ Look(m) \/ Route(m) \/ JudgeFails(m) \/ Judge(m) \/ KeywordJudge(m)
    \/ Deliver(m) \/ Refuse(m) \/ Finish(m)

Next == (\E m \in Messages : Publish(m)) \/ InterestsChange

Spec == Init /\ [][Next]_vars

-----------------------------------------------------------------------------
RecordsOf(m) == {r \in records : r.msg = m}

\* What the console's feed shows of a record.  app.js takes nil for an empty
\* list, and a record without decisions for one that was not judged; it marks
\* as delivered to whose score reaches the threshold it got from config.
ShownAsNobody(r)    == r.decisions = {}
ShownAsDelivered(r) == {d.id : d \in {e \in r.decisions : e.score >= Threshold}}

(* web.go, publish: looking first "keeps the feed honest".  So it is of     *)
(* every publish that came to its end and during whose lookups the          *)
(* interests did not change, but for three that leave no trace: one the     *)
(* keyword judge decided, one whose judgment failed, and one to nobody      *)
(* whose first lookup failed.  All others have one record, a bare one       *)
(* exactly if there was nobody to judge.                                    *)
UndisturbedPublishesAreRecorded ==
    \A m \in Messages \ disturbed : stage[m] = "published" =>
        LET judged == verdict[m] = "decided" /\ judgeLive
            nobody == verdict[m] = "unjudged" /\ known[m] # "unknown"
        IN  /\ Cardinality(RecordsOf(m)) = IF judged \/ nobody THEN 1 ELSE 0
            /\ \A r \in RecordsOf(m) : r.nil <=> nobody

(* A publish is recorded twice only when the interests changed under it,    *)
(* and a lookup that failed never makes a record.                           *)
DoubleRecordsAreRaces ==
    \A m \in Messages :
        /\ Cardinality(RecordsOf(m)) > 1 => m \in disturbed /\ known[m] = "nobody"
        /\ known[m] = "unknown" => \A r \in RecordsOf(m) : ~r.nil

(* "No answer is not a no", nor a yes: once the model has judged a message  *)
(* nobody gets it whom the judge's record does not show as delivered to, by *)
(* an answer that reached the threshold, and all of those get it if the     *)
(* publish comes to its end, whoever has come and gone since.  A publish    *)
(* the bus refuses after the judgment may deliver to fewer, or to nobody,   *)
(* than its record goes on showing.                                         *)
NoDeliveryOnAGap ==
    \A m \in Messages : verdict[m] = "decided" /\ judgeLive =>
        \E r \in RecordsOf(m) :
            /\ ~r.nil
            /\ delivered[m] \subseteq ShownAsDelivered(r)
            /\ ShownAsDelivered(r) \subseteq asked[m]
            /\ stage[m] = "published" => delivered[m] = ShownAsDelivered(r)

-----------------------------------------------------------------------------
(* README.md: "no subscribers, nothing judged" and "nobody matched" are     *)
(* different facts, and the console shows which it was.                     *)
FeedTellsNobodyFromNoMatch ==
    \A r \in records : ShownAsNobody(r) => r.nil
=============================================================================
