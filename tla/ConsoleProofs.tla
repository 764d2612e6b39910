------------------------- MODULE ConsoleProofs -------------------------
(***************************************************************************)
(* Proofs about the console: of its publishes (ConsolePublish, ServerRun)  *)
(* and of the panel of its page (ConsolePanel).                            *)
(*                                                                         *)
(* What the properties of ConsolePublish rest on: every record is the      *)
(* judge's, of what it decided, or the console's bare one, and there is    *)
(* one of each exactly when it should be (RecordsExplained, Recorded); and *)
(* unless the interests changed in between, the console's lookup and the   *)
(* bus's agree on whether there was anybody (LookupsAgree).  Nobody gets a *)
(* message before it is judged, or but who was chosen (DeliveriesJust).    *)
(*                                                                         *)
(* Proofs about ConsolePanel, for any topics, ids and number of requests.  *)
(* A list is the newest, of the selected topic, or known to be old         *)
(* (ListInv); the newest is true unless a write of this page is on its way *)
(* (TruthInv).  While nothing untidy has happened the ids of a topic are   *)
(* compact, and the one default name on its way is above them (NameInv).   *)
(***************************************************************************)
EXTENDS ServerRun, ConsolePanel, FiniteSetTheorems, TLAPS

Judged(m) == [msg |-> m, nil |-> FALSE, decisions |-> decisions[m]]
Bare(m)   == [msg |-> m, nil |-> TRUE, decisions |-> {}]

ByJudge(m)   == verdict[m] = "decided" /\ judgeLive
ByConsole(m) == stage[m] = "published" /\ known[m] = "nobody"

RecordsExplained ==
    \A r \in records :
        \/ ByJudge(r.msg) /\ r = Judged(r.msg)
        \/ ByConsole(r.msg) /\ r = Bare(r.msg)

Recorded ==
    \A m \in Messages :
        /\ ByJudge(m) => Judged(m) \in records
        /\ ByConsole(m) => Bare(m) \in records

VerdictsTimely ==
    \A m \in Messages :
        /\ verdict[m] = "none" => stage[m] \notin {"routed", "published"}
        /\ verdict[m] # "none" => stage[m] \in {"routed", "published", "refused"}
        /\ verdict[m] = "unjudged" => asked[m] = {}
        /\ verdict[m] \in {"decided", "failed"} \/ stage[m] = "judging" => asked[m] # {}

LookupsAgree ==
    \A m \in Messages \ disturbed :
        /\ stage[m] = "looked" =>
              /\ known[m] = "nobody" => interests = {}
              /\ known[m] = "somebody" => interests # {}
        /\ stage[m] \in {"judging", "routed", "published"} =>
              /\ known[m] = "nobody" => asked[m] = {}
              /\ known[m] = "somebody" => asked[m] # {}

DecisionsJust ==
    \A m \in Messages : ByJudge(m) =>
        \A d \in decisions[m] : d.id \in asked[m] /\ (d.deliver <=> d.score >= Threshold)

DeliveriesJust ==
    \A m \in Messages :
        /\ verdict[m] = "none" => delivered[m] = {}
        /\ delivered[m] \subseteq Chosen(m)
        /\ stage[m] = "published" => delivered[m] = Chosen(m)

IInv ==
    /\ TypeOK /\ RecordsExplained /\ Recorded /\ VerdictsTimely /\ LookupsAgree
    /\ DecisionsJust /\ DeliveriesJust

-----------------------------------------------------------------------------
LEMMA InitIInv == Init => IInv
BY DEF Init, IInv, TypeOK, RecordsExplained, Recorded, VerdictsTimely, LookupsAgree,
       DecisionsJust, DeliveriesJust, ByJudge, ByConsole, Decision

LEMMA DecisionMade ==
    ASSUME NEW s \in Subscribers, NEW n \in Scores, NEW b \in BOOLEAN
    PROVE  [id |-> s, score |-> n, deliver |-> b] \in Decision
BY Zenon DEF Decision

LEMMA RecordMade ==
    ASSUME NEW m \in Messages, NEW b \in BOOLEAN, NEW ds \in SUBSET Decision
    PROVE  [msg |-> m, nil |-> b, decisions |-> ds] \in Record
BY Zenon DEF Record

LEMMA TypeStep == TypeOK /\ [Next]_vars => TypeOK'
<1> SUFFICES ASSUME TypeOK, [Next]_vars PROVE TypeOK'
  OBVIOUS
<1> USE PublishAssumption DEF TypeOK, To
<1>1. CASE UNCHANGED vars
  BY <1>1 DEF vars
<1>2. CASE InterestsChange
  BY <1>2 DEF InterestsChange
<1>3. ASSUME NEW m \in Messages, Look(m) PROVE TypeOK'
  BY <1>3 DEF Look
<1>4. ASSUME NEW m \in Messages, Route(m) PROVE TypeOK'
  BY <1>4 DEF Route
<1>5. ASSUME NEW m \in Messages, JudgeFails(m) PROVE TypeOK'
  BY <1>5 DEF JudgeFails
<1>6. ASSUME NEW m \in Messages, Judge(m) PROVE TypeOK'
  <2>0. PICK answered \in SUBSET asked[m] : \E score \in [answered -> Scores] :
           /\ decisions' = [decisions EXCEPT ![m] = Decisions(m, answered, score)]
           /\ records' = records \cup
                {[msg |-> m, nil |-> FALSE, decisions |-> Decisions(m, answered, score)]}
    BY <1>6 DEF Judge
  <2>1. PICK score \in [answered -> Scores] :
           /\ decisions' = [decisions EXCEPT ![m] = Decisions(m, answered, score)]
           /\ records' = records \cup
                {[msg |-> m, nil |-> FALSE, decisions |-> Decisions(m, answered, score)]}
    BY <2>0
  <2>2. Decisions(m, answered, score) \subseteq Decision
    <3> SUFFICES ASSUME NEW s \in answered
                 PROVE  [id |-> s, score |-> score[s], deliver |-> score[s] >= Threshold] \in Decision
      BY Zenon DEF Decisions
    <3>1. s \in Subscribers /\ score[s] \in Scores
      OBVIOUS
    <3>2. (score[s] >= Threshold) \in BOOLEAN
      OBVIOUS
    <3> QED BY <3>1, <3>2, DecisionMade, Zenon
  <2>3. records' \subseteq Record
    <3>1. [msg |-> m, nil |-> FALSE, decisions |-> Decisions(m, answered, score)] \in Record
      BY <2>2, RecordMade, Zenon
    <3> QED BY <2>1, <3>1
  <2> QED BY <1>6, <2>1, <2>2, <2>3 DEF Judge
<1>7. ASSUME NEW m \in Messages, KeywordJudge(m) PROVE TypeOK'
  <2>1. PICK score \in [asked[m] -> Scores] :
           decisions' = [decisions EXCEPT ![m] =
              {[id |-> s, score |-> score[s], deliver |-> score[s] > 0] : s \in asked[m]}]
    BY <1>7 DEF KeywordJudge
  <2>2. {[id |-> s, score |-> score[s], deliver |-> score[s] > 0] : s \in asked[m]}
          \subseteq Decision
    <3> DEFINE D(s) == [id |-> s, score |-> score[s], deliver |-> score[s] > 0]
    <3>1. ASSUME NEW s \in asked[m] PROVE D(s) \in Decision
      <4>1. s \in Subscribers /\ score[s] \in Scores
        OBVIOUS
      <4>2. (score[s] > 0) \in BOOLEAN
        OBVIOUS
      <4> QED BY <4>1, <4>2, DecisionMade, Zenon
    <3> HIDE DEF D
    <3>2. {D(s) : s \in asked[m]} \subseteq Decision
      BY <3>1
    <3> QED BY <3>2 DEF D
  <2> QED BY <1>7, <2>1, <2>2 DEF KeywordJudge
<1>8. ASSUME NEW m \in Messages, Refuse(m) PROVE TypeOK'
  BY <1>8 DEF Refuse
<1>9. ASSUME NEW m \in Messages, Finish(m) PROVE TypeOK'
  <2>1. [msg |-> m, nil |-> TRUE, decisions |-> {}] \in Record
    BY RecordMade, Zenon
  <2> QED BY <1>9, <2>1 DEF Finish
<1>10. ASSUME NEW m \in Messages, Deliver(m) PROVE TypeOK'
  <2>1. PICK s \in Chosen(m) : delivered' = [delivered EXCEPT ![m] = @ \cup {s}]
    BY <1>10 DEF Deliver
  <2>2. s \in Subscribers
    <3>1. \A d \in decisions[m] : d.id \in Subscribers
      BY DEF Decision
    <3> QED BY <2>1, <3>1 DEF Chosen
  <2> QED BY <1>10, <2>1, <2>2 DEF Deliver
<1> QED BY <1>1, <1>2, <1>3, <1>4, <1>5, <1>6, <1>7, <1>8, <1>9, <1>10
   DEF Next, Publish

(* Every state of a publish has its type.                                   *)
THEOREM TypeCorrect == Spec => []TypeOK
<1>1. Init => TypeOK
  BY InitIInv DEF IInv
<1> QED BY <1>1, TypeStep, PTL DEF Spec

-----------------------------------------------------------------------------
LEMMA RecordsStep == IInv /\ [Next]_vars => RecordsExplained' /\ Recorded'
<1> SUFFICES ASSUME IInv, [Next]_vars PROVE RecordsExplained' /\ Recorded'
  OBVIOUS
<1>0. TypeOK /\ RecordsExplained /\ Recorded /\ VerdictsTimely
  BY DEF IInv
<1>t. \A r \in records : r.msg \in Messages
  BY <1>0 DEF TypeOK, Record
<1> USE <1>0, <1>t DEF TypeOK, RecordsExplained, Recorded, VerdictsTimely, ByJudge, ByConsole,
                       Judged, Bare, To
<1>1. CASE UNCHANGED vars
  BY <1>1 DEF vars
<1>2. CASE InterestsChange
  BY <1>2 DEF InterestsChange
<1>3. ASSUME NEW m \in Messages, Look(m) PROVE RecordsExplained' /\ Recorded'
  BY <1>3 DEF Look
<1>4. ASSUME NEW m \in Messages, Route(m) PROVE RecordsExplained' /\ Recorded'
  BY <1>4 DEF Route
<1>5. ASSUME NEW m \in Messages, JudgeFails(m) PROVE RecordsExplained' /\ Recorded'
  BY <1>5 DEF JudgeFails
<1>6. ASSUME NEW m \in Messages, Judge(m) PROVE RecordsExplained' /\ Recorded'
  <2>1. PICK ds :
           /\ decisions' = [decisions EXCEPT ![m] = ds]
           /\ records' = records \cup {[msg |-> m, nil |-> FALSE, decisions |-> ds]}
    BY <1>6 DEF Judge
  <2>2. stage[m] = "judging" /\ judgeLive /\ verdict' = [verdict EXCEPT ![m] = "decided"]
        /\ stage' = [stage EXCEPT ![m] = "routed"] /\ UNCHANGED <<judgeLive, known>>
    BY <1>6 DEF Judge
  <2>3. ~ByJudge(m) /\ ~ByConsole(m) /\ ByJudge(m)' /\ ~ByConsole(m)'
    BY <2>2
  <2>4. \A n \in Messages \ {m} :
           /\ ByJudge(n)' = ByJudge(n) /\ ByConsole(n)' = ByConsole(n)
           /\ decisions'[n] = decisions[n]
    BY <2>1, <2>2
  <2>5. decisions'[m] = ds
    BY <2>1
  <2>6. \A r \in records : r.msg \in Messages \ {m}
    BY <2>3
  <2>7. RecordsExplained'
    <3> SUFFICES ASSUME NEW r \in records'
                 PROVE  \/ ByJudge(r.msg)' /\ r = Judged(r.msg)'
                        \/ ByConsole(r.msg)' /\ r = Bare(r.msg)'
      OBVIOUS
    <3>1. CASE r \in records
      BY <2>4, <2>6, <3>1
    <3>2. CASE r = [msg |-> m, nil |-> FALSE, decisions |-> ds]
      <4>1. r.msg = m
        BY <3>2
      <4> QED BY <2>3, <2>5, <3>2, <4>1
    <3> QED BY <2>1, <3>1, <3>2
  <2>8. Recorded'
    BY <2>1, <2>3, <2>4, <2>5
  <2> QED BY <2>7, <2>8
<1>7. ASSUME NEW m \in Messages, KeywordJudge(m) PROVE RecordsExplained' /\ Recorded'
  <2>1. PICK ds : decisions' = [decisions EXCEPT ![m] = ds]
    BY <1>7 DEF KeywordJudge
  <2> QED BY <1>7, <2>1 DEF KeywordJudge
<1>8. ASSUME NEW m \in Messages, Refuse(m) PROVE RecordsExplained' /\ Recorded'
  BY <1>8 DEF Refuse
<1>9. ASSUME NEW m \in Messages, Finish(m) PROVE RecordsExplained' /\ Recorded'
  BY <1>9 DEF Finish
<1>10. ASSUME NEW m \in Messages, Deliver(m) PROVE RecordsExplained' /\ Recorded'
  BY <1>10 DEF Deliver
<1> QED BY <1>1, <1>2, <1>3, <1>4, <1>5, <1>6, <1>7, <1>8, <1>9, <1>10
   DEF Next, Publish

LEMMA LookupsStep == IInv /\ [Next]_vars => VerdictsTimely' /\ LookupsAgree'
<1> SUFFICES ASSUME IInv, [Next]_vars PROVE VerdictsTimely' /\ LookupsAgree'
  OBVIOUS
<1> USE DEF IInv, TypeOK, VerdictsTimely, LookupsAgree, To
<1>1. CASE UNCHANGED vars
  BY <1>1 DEF vars
<1>2. CASE InterestsChange
  BY <1>2 DEF InterestsChange
<1>3. ASSUME NEW m \in Messages, Look(m) PROVE VerdictsTimely' /\ LookupsAgree'
  BY <1>3 DEF Look
<1>4. ASSUME NEW m \in Messages, Route(m) PROVE VerdictsTimely' /\ LookupsAgree'
  BY <1>4 DEF Route
<1>5. ASSUME NEW m \in Messages, JudgeFails(m) PROVE VerdictsTimely' /\ LookupsAgree'
  BY <1>5 DEF JudgeFails
<1>6. ASSUME NEW m \in Messages, Judge(m) PROVE VerdictsTimely' /\ LookupsAgree'
  BY <1>6 DEF Judge
<1>7. ASSUME NEW m \in Messages, KeywordJudge(m) PROVE VerdictsTimely' /\ LookupsAgree'
  BY <1>7 DEF KeywordJudge
<1>8. ASSUME NEW m \in Messages, Refuse(m) PROVE VerdictsTimely' /\ LookupsAgree'
  BY <1>8 DEF Refuse
<1>9. ASSUME NEW m \in Messages, Finish(m) PROVE VerdictsTimely' /\ LookupsAgree'
  BY <1>9 DEF Finish
<1>10. ASSUME NEW m \in Messages, Deliver(m) PROVE VerdictsTimely' /\ LookupsAgree'
  BY <1>10 DEF Deliver
<1> QED BY <1>1, <1>2, <1>3, <1>4, <1>5, <1>6, <1>7, <1>8, <1>9, <1>10
   DEF Next, Publish

LEMMA DecisionsStep == IInv /\ [Next]_vars => DecisionsJust'
<1> SUFFICES ASSUME IInv, [Next]_vars PROVE DecisionsJust'
  OBVIOUS
<1>0. TypeOK /\ VerdictsTimely /\ DecisionsJust
  BY DEF IInv
<1> USE <1>0 DEF TypeOK, VerdictsTimely, DecisionsJust, ByJudge, To
<1>1. CASE UNCHANGED vars
  BY <1>1 DEF vars
<1>2. CASE InterestsChange
  BY <1>2 DEF InterestsChange
<1>3. ASSUME NEW m \in Messages, Look(m) PROVE DecisionsJust'
  BY <1>3 DEF Look
<1>4. ASSUME NEW m \in Messages, Route(m) PROVE DecisionsJust'
  BY <1>4 DEF Route
<1>5. ASSUME NEW m \in Messages, JudgeFails(m) PROVE DecisionsJust'
  BY <1>5 DEF JudgeFails
<1>6. ASSUME NEW m \in Messages, Judge(m) PROVE DecisionsJust'
  <2>0. PICK answered \in SUBSET asked[m] : \E score \in [answered -> Scores] :
           decisions' = [decisions EXCEPT ![m] = Decisions(m, answered, score)]
    BY <1>6 DEF Judge
  <2>1. PICK score \in [answered -> Scores] :
           decisions' = [decisions EXCEPT ![m] = Decisions(m, answered, score)]
    BY <2>0
  <2>2. \A d \in Decisions(m, answered, score) :
           d.id \in asked[m] /\ (d.deliver <=> d.score >= Threshold)
    <3> SUFFICES ASSUME NEW s \in answered, NEW d,
                        d = [id |-> s, score |-> score[s], deliver |-> score[s] >= Threshold]
                 PROVE  d.id \in asked[m] /\ (d.deliver <=> d.score >= Threshold)
      BY Zenon DEF Decisions
    <3>1. d.id = s /\ d.score = score[s] /\ d.deliver = (score[s] >= Threshold)
      BY Zenon
    <3> QED BY <3>1
  <2> QED BY <1>6, <2>1, <2>2 DEF Judge
<1>7. ASSUME NEW m \in Messages, KeywordJudge(m) PROVE DecisionsJust'
  <2>1. PICK ds : decisions' = [decisions EXCEPT ![m] = ds]
    BY <1>7 DEF KeywordJudge
  <2> QED BY <1>7, <2>1 DEF KeywordJudge
<1>8. ASSUME NEW m \in Messages, Refuse(m) PROVE DecisionsJust'
  BY <1>8 DEF Refuse
<1>9. ASSUME NEW m \in Messages, Finish(m) PROVE DecisionsJust'
  BY <1>9 DEF Finish
<1>10. ASSUME NEW m \in Messages, Deliver(m) PROVE DecisionsJust'
  BY <1>10 DEF Deliver
<1> QED BY <1>1, <1>2, <1>3, <1>4, <1>5, <1>6, <1>7, <1>8, <1>9, <1>10
   DEF Next, Publish

LEMMA DeliveriesStep == IInv /\ [Next]_vars => DeliveriesJust'
<1> SUFFICES ASSUME IInv, [Next]_vars PROVE DeliveriesJust'
  OBVIOUS
<1>0. TypeOK /\ VerdictsTimely /\ DeliveriesJust
  BY DEF IInv
<1> USE <1>0 DEF TypeOK, VerdictsTimely, DeliveriesJust, Chosen, To
<1>1. CASE UNCHANGED vars
  BY <1>1 DEF vars
<1>2. CASE InterestsChange
  BY <1>2 DEF InterestsChange
<1>3. ASSUME NEW m \in Messages, Look(m) PROVE DeliveriesJust'
  BY <1>3 DEF Look
<1>4. ASSUME NEW m \in Messages, Route(m) PROVE DeliveriesJust'
  BY <1>4 DEF Route
<1>5. ASSUME NEW m \in Messages, JudgeFails(m) PROVE DeliveriesJust'
  BY <1>5 DEF JudgeFails
<1>6. ASSUME NEW m \in Messages, Judge(m) PROVE DeliveriesJust'
  <2>1. PICK ds : decisions' = [decisions EXCEPT ![m] = ds]
    BY <1>6 DEF Judge
  <2> QED BY <1>6, <2>1 DEF Judge
<1>7. ASSUME NEW m \in Messages, KeywordJudge(m) PROVE DeliveriesJust'
  <2>1. PICK ds : decisions' = [decisions EXCEPT ![m] = ds]
    BY <1>7 DEF KeywordJudge
  <2> QED BY <1>7, <2>1 DEF KeywordJudge
<1>8. ASSUME NEW m \in Messages, Refuse(m) PROVE DeliveriesJust'
  BY <1>8 DEF Refuse
<1>9. ASSUME NEW m \in Messages, Finish(m) PROVE DeliveriesJust'
  BY <1>9 DEF Finish
<1>10. ASSUME NEW m \in Messages, Deliver(m) PROVE DeliveriesJust'
  <2>1. PICK s \in Chosen(m) : delivered' = [delivered EXCEPT ![m] = @ \cup {s}]
    BY <1>10 DEF Deliver
  <2>2. stage[m] = "routed" /\ UNCHANGED <<stage, asked, verdict, decisions>>
    BY <1>10 DEF Deliver
  <2> QED BY <2>1, <2>2
<1> QED BY <1>1, <1>2, <1>3, <1>4, <1>5, <1>6, <1>7, <1>8, <1>9, <1>10
   DEF Next, Publish

LEMMA IInvInvariant == Spec => []IInv
<1>1. IInv /\ [Next]_vars => IInv'
  BY TypeStep, RecordsStep, LookupsStep, DecisionsStep, DeliveriesStep DEF IInv
<1> QED BY <1>1, InitIInv, PTL DEF Spec

-----------------------------------------------------------------------------
LEMMA AtMostTwo ==
    ASSUME IInv, NEW m \in Messages
    PROVE  /\ RecordsOf(m) \subseteq {Judged(m), Bare(m)}
           /\ Judged(m) \in RecordsOf(m) <=> ByJudge(m)
           /\ Bare(m) \in RecordsOf(m) <=> ByConsole(m)
<1>1. Judged(m) # Bare(m) /\ Judged(m).msg = m /\ Bare(m).msg = m
  <2>1. Judged(m).nil = FALSE /\ Bare(m).nil = TRUE
    BY DEF Judged, Bare
  <2> QED BY <2>1 DEF Judged, Bare
<1> QED BY <1>1 DEF RecordsOf, IInv, RecordsExplained, Recorded

(* A publish that came to its end and that the interests did not change     *)
(* under has one record if the model judged it, or if nobody was there and  *)
(* the console knew it; then a bare one.  Otherwise it has none.            *)
THEOREM Undisturbed == Spec => []UndisturbedPublishesAreRecorded
<1>1. IInv => UndisturbedPublishesAreRecorded
  <2> SUFFICES ASSUME IInv, NEW m \in Messages \ disturbed, stage[m] = "published"
               PROVE  LET judged == verdict[m] = "decided" /\ judgeLive
                          nobody == verdict[m] = "unjudged" /\ known[m] # "unknown"
                      IN  /\ Cardinality(RecordsOf(m)) = IF judged \/ nobody THEN 1 ELSE 0
                          /\ \A r \in RecordsOf(m) : r.nil <=> nobody
    BY DEF UndisturbedPublishesAreRecorded
  <2> DEFINE nobody == verdict[m] = "unjudged" /\ known[m] # "unknown"
  <2>1. Judged(m).nil = FALSE /\ Bare(m).nil = TRUE
    BY DEF Judged, Bare
  <2>2. nobody <=> ByConsole(m)
    <3>1. /\ verdict[m] \in {"unjudged", "decided", "failed"}
          /\ known[m] \in {"nobody", "somebody", "unknown"}
      BY DEF IInv, TypeOK, VerdictsTimely
    <3>2. /\ verdict[m] = "unjudged" <=> asked[m] = {}
          /\ known[m] = "nobody" => asked[m] = {}
          /\ known[m] = "somebody" => asked[m] # {}
      BY <3>1 DEF IInv, VerdictsTimely, LookupsAgree
    <3> QED BY <3>1, <3>2 DEF ByConsole
  <2>3. ~(nobody /\ ByJudge(m))
    BY DEF ByJudge
  <2> HIDE DEF nobody
  <2>4. CASE nobody
    <3>1. RecordsOf(m) = {Bare(m)}
      BY AtMostTwo, <2>2, <2>3, <2>4
    <3>2. Cardinality(RecordsOf(m)) = 1
      BY <3>1, FS_Singleton
    <3> QED BY <3>1, <3>2, <2>1, <2>4 DEF nobody
  <2>5. CASE ByJudge(m)
    <3>1. RecordsOf(m) = {Judged(m)}
      BY AtMostTwo, <2>2, <2>3, <2>5
    <3>2. Cardinality(RecordsOf(m)) = 1
      BY <3>1, FS_Singleton
    <3> QED BY <3>1, <3>2, <2>1, <2>3, <2>5 DEF nobody, ByJudge
  <2>6. CASE ~nobody /\ ~ByJudge(m)
    <3>1. RecordsOf(m) = {}
      BY AtMostTwo, <2>2, <2>6
    <3>2. Cardinality(RecordsOf(m)) = 0
      BY <3>1, FS_EmptySet
    <3> QED BY <3>1, <3>2, <2>6 DEF nobody, ByJudge
  <2> QED BY <2>4, <2>5, <2>6
<1> QED BY <1>1, IInvInvariant, PTL

(* Only a change of the interests between the two lookups makes a publish   *)
(* appear twice, and a failed lookup makes no record.                       *)
THEOREM DoubleRecords == Spec => []DoubleRecordsAreRaces
<1>1. IInv => DoubleRecordsAreRaces
  <2> SUFFICES ASSUME IInv, NEW m \in Messages
               PROVE  /\ Cardinality(RecordsOf(m)) > 1 => m \in disturbed /\ known[m] = "nobody"
                      /\ known[m] = "unknown" => \A r \in RecordsOf(m) : ~r.nil
    BY DEF DoubleRecordsAreRaces
  <2>1. CASE ByJudge(m) /\ ByConsole(m)
    BY <2>1 DEF ByJudge, ByConsole, IInv, VerdictsTimely, LookupsAgree
  <2>2. CASE ~ByConsole(m)
    <3>1. RecordsOf(m) \subseteq {Judged(m)}
      BY AtMostTwo, <2>2
    <3>2. RecordsOf(m) = {} \/ RecordsOf(m) = {Judged(m)}
      BY <3>1
    <3>3. Cardinality(RecordsOf(m)) = 0 \/ Cardinality(RecordsOf(m)) = 1
      BY <3>2, FS_EmptySet, FS_Singleton
    <3>4. \A r \in RecordsOf(m) : ~r.nil
      BY <3>1 DEF Judged
    <3> QED BY <3>3, <3>4
  <2>3. CASE ~ByJudge(m) /\ ByConsole(m)
    <3>1. RecordsOf(m) = {} \/ RecordsOf(m) = {Bare(m)}
      BY AtMostTwo, <2>3
    <3>2. Cardinality(RecordsOf(m)) = 0 \/ Cardinality(RecordsOf(m)) = 1
      BY <3>1, FS_EmptySet, FS_Singleton
    <3> QED BY <3>2, <2>3 DEF ByConsole
  <2> QED BY <2>1, <2>2, <2>3
<1> QED BY <1>1, IInvInvariant, PTL

(* Nobody gets a message the model has judged but those its record shows as *)
(* delivered to, for a score that reached the threshold; and if the publish *)
(* is not refused in the end they all do.                                   *)
THEOREM NoGap == Spec => []NoDeliveryOnAGap
<1>1. IInv => NoDeliveryOnAGap
  <2> SUFFICES ASSUME IInv, NEW m \in Messages, ByJudge(m)
               PROVE  \E r \in RecordsOf(m) :
                         /\ ~r.nil
                         /\ delivered[m] \subseteq ShownAsDelivered(r)
                         /\ ShownAsDelivered(r) \subseteq asked[m]
                         /\ stage[m] = "published" => delivered[m] = ShownAsDelivered(r)
    BY DEF NoDeliveryOnAGap, ByJudge
  <2>1. \A d \in decisions[m] : d.id \in asked[m] /\ (d.deliver <=> d.score >= Threshold)
    BY DEF IInv, DecisionsJust
  <2>2. Chosen(m) = {d.id : d \in {e \in decisions[m] : e.deliver}}
    BY DEF Chosen, ByJudge
  <2>3. Judged(m) \in RecordsOf(m)
    BY AtMostTwo
  <2>4. Judged(m).nil = FALSE /\ Judged(m).decisions = decisions[m]
    BY DEF Judged
  <2>5. ShownAsDelivered(Judged(m)) = Chosen(m)
    <3>1. {e \in decisions[m] : e.deliver} = {e \in decisions[m] : e.score >= Threshold}
      BY <2>1
    <3> QED BY <2>2, <2>4, <3>1 DEF ShownAsDelivered
  <2>6. Chosen(m) \subseteq asked[m]
    BY <2>1, <2>2
  <2>7. /\ delivered[m] \subseteq Chosen(m)
        /\ stage[m] = "published" => delivered[m] = Chosen(m)
    BY DEF IInv, DeliveriesJust
  <2> QED BY <2>3, <2>4, <2>5, <2>6, <2>7
<1> QED BY <1>1, IInvInvariant, PTL

-----------------------------------------------------------------------------
LEMMA ServerStep == [ServerNext]_serverVars => [Next]_vars
<1> SUFFICES ASSUME [ServerNext]_serverVars PROVE [Next]_vars
  OBVIOUS
<1>1. CASE UNCHANGED serverVars
  BY <1>1 DEF serverVars
<1>2. ASSUME NEW m \in Messages, ServePublish(m) PROVE [Next]_vars
  BY <1>2 DEF ServePublish, Next
<1>3. ASSUME NEW v \in Viewers, OpenStream(v) \/ LeaveStream(v) PROVE [Next]_vars
  BY <1>3 DEF OpenStream, LeaveStream
<1>4. CASE ConsoleFails \/ Interrupt \/ Shutdown \/ Timeout \/ End
  BY <1>4 DEF ConsoleFails, Interrupt, Shutdown, Timeout, End
<1>5. CASE InterestsChange /\ UNCHANGED runVars
  BY <1>5 DEF Next
<1> QED BY <1>1, <1>2, <1>3, <1>4, <1>5 DEF ServerNext

(* An interrupt at any moment changes nothing of this: a run of the process *)
(* is a behaviour of ConsolePublish, so what is proved of the records and   *)
(* the deliveries of a publish holds throughout.                            *)
THEOREM HonestWhileStopping ==
    ServerSpec => []UndisturbedPublishesAreRecorded /\ []DoubleRecordsAreRaces /\ []NoDeliveryOnAGap
<1>1. ServerInit => Init
  BY DEF ServerInit
<1>2. ServerSpec => Spec
  BY <1>1, ServerStep, PTL DEF ServerSpec, Spec
<1> QED BY <1>2, Undisturbed, DoubleRecords, NoGap

-----------------------------------------------------------------------------

Current(list) == list.state # "old" => list.topic = topic

ListInv ==
    /\ Current(shown)
    /\ \A q \in Slots : open[q].kind = "list" => Current(open[q].of)

\* An addition or a removal has been served and its callback has not run.
Writing == \E q \in Slots : open[q].kind \in {"add", "remove"} /\ open[q].served

TruthInv ==
    topic # NoTopic /\ ~Writing =>
        /\ shown.state = "newest" => shown.ids = registry[topic]
        /\ \A q \in Slots :
              open[q].kind = "list" /\ open[q].served /\ open[q].of.state = "newest" =>
                 open[q].of.ids = registry[topic]

\* Before a topic is selected there is nothing to list or to remove.
EmptyInv ==
    /\ topic = NoTopic =>
          /\ shown.ids = {}
          /\ \A q \in Slots : /\ open[q].kind \in {"free", "boot", "add"}
                              /\ open[q].kind = "add" => open[q].topic = NoTopic
    /\ \A q \in Slots : open[q].kind = "list" => open[q].of.topic \in Topics
    /\ \A q \in Slots : open[q].kind = "add" /\ open[q].served => open[q].topic \in Topics

Unnamed(q) == open[q].kind = "add" /\ open[q].unnamed

NameInv ==
    ~untidy =>
        /\ \A t \in Topics : Compact(registry[t])
        /\ \A q \in Slots : open[q].kind # "remove"
        /\ \A q \in Slots : open[q].kind = "add" /\ ~open[q].unnamed => open[q].id = 0
        /\ \A q, r \in Slots : Unnamed(q) /\ Unnamed(r) => q = r
        /\ \A q \in Slots : Unnamed(q) /\ ~open[q].served /\ open[q].topic \in Topics =>
              /\ open[q].id > 0 /\ \A n \in registry[open[q].topic] : n < open[q].id
              /\ open[q].id <= Cardinality(registry[open[q].topic]) + 1

PanelInv == PanelTypeOK /\ ListInv /\ TruthInv /\ EmptyInv

-----------------------------------------------------------------------------
(* Lists and requests.                                                      *)

LEMMA ListFields ==
    ASSUME NEW l \in Lists
    PROVE  /\ l.topic \in Topics \cup {NoTopic} /\ l.ids \in SUBSET Ids
           /\ l.state \in {"newest", "stale", "old"}
BY DEF Lists

LEMMA BlankFields ==
    ASSUME NEW t \in Topics \cup {NoTopic}
    PROVE  /\ Blank(t) \in Lists
           /\ Blank(t).topic = t /\ Blank(t).ids = {} /\ Blank(t).state = "newest"
BY DEF Blank, Lists

LEMMA OlderFields ==
    ASSUME NEW l \in Lists
    PROVE  /\ Older(l) \in Lists
           /\ Older(l).topic = l.topic /\ Older(l).ids = l.ids /\ Older(l).state = "old"
BY DEF Older, Lists

LEMMA OutdatedFields ==
    ASSUME NEW l \in Lists, NEW changed
    PROVE  /\ Outdated(l, changed) \in Lists
           /\ Outdated(l, changed).topic = l.topic /\ Outdated(l, changed).ids = l.ids
           /\ l.state = "old" => Outdated(l, changed).state = "old"
           /\ Outdated(l, changed).state = "old" => l.state = "old"
           /\ Outdated(l, changed).state = "newest" =>
                 l.state = "newest" /\ l.topic \notin changed
BY DEF Outdated, Lists

LEMMA RequestFields ==
    ASSUME NEW r \in Requests
    PROVE  /\ r.kind \in {"free", "list", "boot", "config", "add", "remove"}
           /\ r.kind = "free" => r = Free
           /\ r.kind = "list" => r.served \in BOOLEAN /\ r.of \in Lists
           /\ r.kind \in {"boot", "config"} =>
                 r.served \in BOOLEAN /\ r.topics \in SUBSET Topics
           /\ r.kind = "add" =>
                 /\ r.served \in BOOLEAN /\ r.unnamed \in BOOLEAN
                 /\ r.topic \in Topics \cup {NoTopic} /\ r.id \in Ids
           /\ r.kind = "remove" => r.served \in BOOLEAN /\ r.id \in Ids
BY DEF Requests, Free

LEMMA NewRequests ==
    /\ Free \in Requests /\ Free.kind = "free"
    /\ \A t \in Topics \cup {NoTopic} :
          /\ List(t) \in Requests /\ List(t).kind = "list" /\ List(t).served = FALSE
          /\ List(t).of = Blank(t)
    /\ \A k \in {"boot", "config"} :
          /\ Config(k) \in Requests /\ Config(k).kind = k /\ Config(k).served = FALSE
          /\ Config(k).topics = {}
    /\ \A t \in Topics \cup {NoTopic}, id \in Ids, u \in BOOLEAN :
          /\ Add(t, id, u) \in Requests /\ Add(t, id, u).kind = "add"
          /\ Add(t, id, u).served = FALSE /\ Add(t, id, u).topic = t
          /\ Add(t, id, u).id = id /\ Add(t, id, u).unnamed = u
    /\ \A id \in Ids :
          /\ Remove(id) \in Requests /\ Remove(id).kind = "remove"
          /\ Remove(id).served = FALSE /\ Remove(id).id = id
<1>1. Free \in Requests /\ Free.kind = "free"
  BY DEF Free, Requests
<1>2. ASSUME NEW t \in Topics \cup {NoTopic}
      PROVE  /\ List(t) \in Requests /\ List(t).kind = "list" /\ List(t).served = FALSE
             /\ List(t).of = Blank(t)
  BY <1>2, BlankFields DEF List, Requests
<1>3. ASSUME NEW k \in {"boot", "config"}
      PROVE  /\ Config(k) \in Requests /\ Config(k).kind = k /\ Config(k).served = FALSE
             /\ Config(k).topics = {}
  BY <1>3 DEF Config, Requests
<1>4. ASSUME NEW t \in Topics \cup {NoTopic}, NEW id \in Ids, NEW u \in BOOLEAN
      PROVE  /\ Add(t, id, u) \in Requests /\ Add(t, id, u).kind = "add"
             /\ Add(t, id, u).served = FALSE /\ Add(t, id, u).topic = t
             /\ Add(t, id, u).id = id /\ Add(t, id, u).unnamed = u
  BY <1>4 DEF Add, Requests
<1>5. ASSUME NEW id \in Ids
      PROVE  /\ Remove(id) \in Requests /\ Remove(id).kind = "remove"
             /\ Remove(id).served = FALSE /\ Remove(id).id = id
  BY <1>5 DEF Remove, Requests
<1> QED
  BY <1>1, <1>2, <1>3, <1>4, <1>5

\* A request that has been served, by kind.
WithIds(r, ids)   == [r EXCEPT !.served = TRUE, !.of.ids = ids]
WithTopics(r, ts) == [r EXCEPT !.served = TRUE, !.topics = ts]

LEMMA ServedList ==
    ASSUME NEW r \in Requests, r.kind = "list", NEW ids \in SUBSET Ids
    PROVE  \E m \in Lists :
              /\ WithIds(r, ids) = [kind |-> "list", served |-> TRUE, of |-> m]
              /\ m.topic = r.of.topic /\ m.state = r.of.state /\ m.ids = ids
<1>1. r \in [kind : {"list"}, served : BOOLEAN, of : Lists]
  BY DEF Requests, Free
<1>2. PICK l \in Lists : r = [kind |-> "list", served |-> r.served, of |-> l] /\ r.of = l
  BY <1>1
<1>3. PICK m : m = [l EXCEPT !.ids = ids]
  OBVIOUS
<1>4. m \in Lists /\ m.topic = l.topic /\ m.state = l.state /\ m.ids = ids
  BY <1>3 DEF Lists
<1>5. PICK s : s = WithIds(r, ids)
  OBVIOUS
<1>6. s = [kind |-> "list", served |-> TRUE, of |-> m]
  BY <1>2, <1>3, <1>5 DEF WithIds
<1> QED
  BY <1>2, <1>4, <1>5, <1>6

LEMMA ServedListFields ==
    ASSUME NEW m \in Lists, NEW s, s = [kind |-> "list", served |-> TRUE, of |-> m]
    PROVE  s \in Requests /\ s.kind = "list" /\ s.served = TRUE /\ s.of = m
BY DEF Requests

LEMMA ServedConfig ==
    ASSUME NEW r \in Requests, r.kind \in {"boot", "config"}, NEW ts \in SUBSET Topics
    PROVE  WithTopics(r, ts) \in Requests /\ WithTopics(r, ts).kind = r.kind
<1>1. r \in [kind : {"boot", "config"}, served : BOOLEAN, topics : SUBSET Topics]
  BY DEF Requests, Free
<1>2. PICK s : s = WithTopics(r, ts)
  OBVIOUS
<1>3. s = [kind |-> r.kind, served |-> TRUE, topics |-> ts]
  BY <1>1, <1>2 DEF WithTopics
<1>4. s \in [kind : {"boot", "config"}, served : BOOLEAN, topics : SUBSET Topics]
  BY <1>1, <1>3
<1>5. s \in Requests /\ s.kind = r.kind
  BY <1>3, <1>4 DEF Requests
<1> QED
  BY <1>2, <1>5

LEMMA ServedWrite ==
    ASSUME NEW r \in Requests, r.kind \in {"add", "remove"},
           NEW s, s = [r EXCEPT !.served = TRUE]
    PROVE  /\ s \in Requests /\ s.kind = r.kind /\ s.served = TRUE /\ s.id = r.id
           /\ r.kind = "add" => s.topic = r.topic /\ s.unnamed = r.unnamed
<1>1. CASE r.kind = "add"
  <2>1. r \in [kind : {"add"}, served : BOOLEAN, topic : Topics \cup {NoTopic}, id : Ids,
               unnamed : BOOLEAN]
    BY <1>1 DEF Requests, Free
  <2>2. s = [kind |-> "add", served |-> TRUE, topic |-> r.topic, id |-> r.id,
             unnamed |-> r.unnamed]
    BY <2>1
  <2> QED
    BY <1>1, <2>1, <2>2 DEF Requests
<1>2. CASE r.kind = "remove"
  <2>1. r \in [kind : {"remove"}, served : BOOLEAN, id : Ids]
    BY <1>2 DEF Requests, Free
  <2>2. s = [kind |-> "remove", served |-> TRUE, id |-> r.id]
    BY <2>1
  <2> QED
    BY <1>2, <2>1, <2>2 DEF Requests
<1> QED
  BY <1>1, <1>2

LEMMA OlderRequest ==
    ASSUME NEW r \in Requests, r.kind = "list", NEW s, s = [r EXCEPT !.of = Older(@)]
    PROVE  s \in Requests /\ s.kind = "list" /\ s.served = r.served /\ s.of = Older(r.of)
<1>1. r \in [kind : {"list"}, served : BOOLEAN, of : Lists]
  BY DEF Requests, Free
<1>2. Older(r.of) \in Lists
  BY <1>1, OlderFields
<1> QED
  BY <1>1, <1>2 DEF Requests

LEMMA OutdatedRequests ==
    ASSUME NEW r \in Requests, NEW changed
    PROVE  /\ OutdatedRequest(r, changed) \in Requests
           /\ OutdatedRequest(r, changed).kind = r.kind
           /\ r.kind = "list" =>
                 /\ OutdatedRequest(r, changed).served = r.served
                 /\ OutdatedRequest(r, changed).of =
                       IF r.served THEN Outdated(r.of, changed) ELSE r.of
           /\ r.kind # "list" => OutdatedRequest(r, changed) = r
<1>1. CASE r.kind = "list" /\ r.served
  <2>1. r \in [kind : {"list"}, served : BOOLEAN, of : Lists]
    BY <1>1 DEF Requests, Free
  <2>2. Outdated(r.of, changed) \in Lists
    BY <2>1, OutdatedFields
  <2>3. OutdatedRequest(r, changed) = [r EXCEPT !.of = Outdated(r.of, changed)]
    BY <1>1, <2>1 DEF OutdatedRequest
  <2> QED
    BY <1>1, <2>1, <2>2, <2>3 DEF Requests
<1>2. CASE ~(r.kind = "list" /\ r.served)
  BY <1>2 DEF OutdatedRequest
<1> QED
  BY <1>1, <1>2

-----------------------------------------------------------------------------
(* What the steps do to the lists.                                          *)

\* Of the writes under way, none is changed and none begins.
WritesKept ==
    \A r \in Slots : open'[r].kind \in {"add", "remove"} => open'[r] = open[r]

LEMMA PanelFields ==
    ASSUME PanelTypeOK
    PROVE  /\ registry \in [Topics -> SUBSET Ids]
           /\ topic \in offered \cup {NoTopic} /\ offered \subseteq Topics
           /\ topic \in Topics \cup {NoTopic} /\ NoTopic \notin Topics
           /\ shown \in Lists /\ untidy \in BOOLEAN
           /\ open \in [Slots -> Requests] /\ \A q \in Slots : open[q] \in Requests
BY PanelAssumption DEF PanelTypeOK

\* The list is read again, for a topic.
LEMMA LoadSubsEffect ==
    ASSUME NEW q \in Slots, NEW reqs \in [Slots -> Requests], shown \in Lists,
           NEW t \in Topics, topic' = t, LoadSubs(q, reqs)
    PROVE  /\ open' \in [Slots -> Requests]
           /\ shown' \in Lists /\ shown'.state = "old" /\ shown'.ids = shown.ids
           /\ open'[q].kind = "list" /\ open'[q].served = FALSE /\ open'[q].of.topic = t
           /\ \A r \in Slots \ {q} :
                 /\ open'[r].kind = reqs[r].kind
                 /\ reqs[r].kind = "list" =>
                       open'[r].of.state = "old" /\ open'[r].of.topic = reqs[r].of.topic
                 /\ reqs[r].kind # "list" => open'[r] = reqs[r]
<1>1. /\ shown' \in Lists /\ shown'.state = "old" /\ shown'.ids = shown.ids
  BY OlderFields DEF LoadSubs
<1>2. /\ List(t) \in Requests /\ List(t).kind = "list" /\ List(t).served = FALSE
      /\ List(t).of.topic = t
  BY NewRequests, BlankFields
<1>3. ASSUME NEW r \in Slots
      PROVE  open'[r] = IF r = q THEN List(t)
                        ELSE IF reqs[r].kind = "list" THEN [reqs[r] EXCEPT !.of = Older(@)]
                        ELSE reqs[r]
  BY DEF LoadSubs
<1>4. ASSUME NEW r \in Slots \ {q}, reqs[r].kind = "list"
      PROVE  /\ open'[r] \in Requests /\ open'[r].kind = "list"
             /\ open'[r].of.state = "old" /\ open'[r].of.topic = reqs[r].of.topic
  <2>1. open'[r] \in Requests /\ open'[r].kind = "list" /\ open'[r].of = Older(reqs[r].of)
    BY <1>3, <1>4, OlderRequest
  <2>2. reqs[r].of \in Lists
    BY <1>4, RequestFields
  <2> QED
    BY <2>1, <2>2, OlderFields
<1>5. \A r \in Slots : open'[r] \in Requests
  BY <1>2, <1>3, <1>4
<1>6. open' \in [Slots -> Requests]
  <2>1. open' = [r \in Slots |-> open'[r]]
    BY DEF LoadSubs
  <2> QED
    BY <1>5, <2>1
<1> QED
  BY <1>1, <1>2, <1>3, <1>4, <1>6

\* Then every other list is old.
LEMMA Reread ==
    ASSUME PanelInv, NEW q \in Slots, NEW reqs \in [Slots -> Requests], LoadSubs(q, reqs),
           \A r \in Slots \ {q} : reqs[r] = open[r] \/ reqs[r] = Config("config"),
           NEW t \in Topics, topic' = t, t \in offered', offered' \subseteq Topics,
           UNCHANGED <<registry, untidy>>
    PROVE  PanelInv' /\ WritesKept
<1>1. /\ PanelTypeOK /\ shown \in Lists /\ t # NoTopic /\ \A r \in Slots : open[r] \in Requests
  BY PanelFields, PanelAssumption DEF PanelInv
<1>2. /\ open' \in [Slots -> Requests]
      /\ shown' \in Lists /\ shown'.state = "old" /\ shown'.ids = shown.ids
      /\ open'[q].kind = "list" /\ open'[q].served = FALSE /\ open'[q].of.topic = t
  BY <1>1, LoadSubsEffect
<1>3. ASSUME NEW r \in Slots \ {q}
      PROVE  /\ open'[r].kind = "list" =>
                   /\ open[r].kind = "list" /\ open'[r].of.state = "old"
                   /\ open'[r].of.topic = open[r].of.topic
             /\ open'[r].kind \in {"add", "remove"} => open'[r] = open[r]
  <2>1. /\ open'[r].kind = reqs[r].kind
        /\ reqs[r].kind = "list" =>
              open'[r].of.state = "old" /\ open'[r].of.topic = reqs[r].of.topic
        /\ reqs[r].kind # "list" => open'[r] = reqs[r]
    BY <1>1, LoadSubsEffect
  <2>2. CASE reqs[r] = open[r]
    BY <2>1, <2>2
  <2>3. CASE reqs[r] = Config("config")
    BY <2>1, <2>3, NewRequests
  <2> QED
    BY <2>2, <2>3
<1>4. PanelTypeOK'
  BY <1>1, <1>2 DEF PanelTypeOK
<1>5. ListInv'
  BY <1>2, <1>3 DEF ListInv, Current
<1>6. TruthInv'
  BY <1>2, <1>3 DEF TruthInv
<1>7. EmptyInv'
  <2>1. ASSUME NEW r \in Slots, open'[r].kind = "list" PROVE open'[r].of.topic \in Topics
    BY <1>2, <1>3, <2>1 DEF PanelInv, EmptyInv
  <2>2. ASSUME NEW r \in Slots, open'[r].kind = "add", open'[r].served
        PROVE  open'[r].topic \in Topics
    BY <1>2, <1>3, <2>2 DEF PanelInv, EmptyInv
  <2> QED
    BY <1>1, <2>1, <2>2 DEF EmptyInv
<1>8. WritesKept
  BY <1>2, <1>3 DEF WritesKept
<1> QED
  BY <1>4, <1>5, <1>6, <1>7, <1>8 DEF PanelInv

\* One request changes, that no write depends on.
LEMMA OneRequest ==
    ASSUME PanelInv, NEW q \in Slots, NEW new \in Requests,
           open' = [open EXCEPT ![q] = new],
           open[q].kind \in {"free", "list", "boot", "config"},
           new.kind \in {"add", "remove"} => new.served = FALSE,
           new.kind = "add" => new.topic = topic,
           new.kind \in {open[q].kind, "free", "add", "remove"},
           new.kind = "remove" => topic # NoTopic,
           new.kind = "list" =>
              /\ new.of.topic = open[q].of.topic /\ new.of.state = open[q].of.state
              /\ new.of.ids = registry[open[q].of.topic],
           UNCHANGED <<registry, topic, shown>>,
           topic \in offered' \cup {NoTopic}, offered' \subseteq Topics,
           topic = NoTopic => offered' = {},
           untidy' \in BOOLEAN
    PROVE  PanelInv'
<1>1. /\ PanelTypeOK /\ open \in [Slots -> Requests]
      /\ open'[q] = new /\ \A r \in Slots \ {q} : open'[r] = open[r]
  BY PanelFields DEF PanelInv
<1>2. PanelTypeOK'
  BY <1>1 DEF PanelTypeOK
<1>3. ASSUME new.kind = "list"
      PROVE  /\ open[q].kind = "list" /\ Current(new.of) /\ new.of.topic \in Topics
             /\ new.of.state = "newest" => new.of.ids = registry[topic]
  BY <1>3 DEF PanelInv, ListInv, EmptyInv, Current
<1>4. ListInv'
  BY <1>1, <1>3 DEF PanelInv, ListInv, Current
<1>5. Writing' <=> Writing
  BY <1>1 DEF Writing
<1>6. TruthInv'
  BY <1>1, <1>3, <1>5 DEF PanelInv, TruthInv
<1>7. EmptyInv'
  <2>1. ASSUME NEW r \in Slots, open'[r].kind = "list" PROVE open'[r].of.topic \in Topics
    BY <1>1, <1>3, <2>1 DEF PanelInv, EmptyInv
  <2>2. ASSUME NEW r \in Slots, open'[r].kind = "add", open'[r].served
        PROVE  open'[r].topic \in Topics
    BY <1>1, <2>2 DEF PanelInv, EmptyInv
  <2>3. ASSUME topic = NoTopic, NEW r \in Slots
        PROVE  /\ open'[r].kind \in {"free", "boot", "add"}
               /\ open'[r].kind = "add" => open'[r].topic = NoTopic
    BY <1>1, <2>3 DEF PanelInv, EmptyInv
  <2>4. topic = NoTopic => shown.ids = {}
    BY DEF PanelInv, EmptyInv
  <2> QED
    BY <2>1, <2>2, <2>3, <2>4 DEF EmptyInv
<1> QED
  BY <1>2, <1>4, <1>6, <1>7 DEF PanelInv

\* A write is served: until its callback has run the lists may be behind.
LEMMA WriteServed ==
    ASSUME PanelInv, NEW q \in Slots, open[q].kind \in {"add", "remove"},
           open[q].kind = "add" => open[q].topic # NoTopic,
           NEW s, s = [open[q] EXCEPT !.served = TRUE], Served(q, s),
           registry' \in [Topics -> SUBSET Ids],
           UNCHANGED <<topic, offered, shown, untidy>>
    PROVE  PanelInv'
<1>1. /\ PanelTypeOK /\ open \in [Slots -> Requests] /\ open[q] \in Requests
      /\ NoTopic \notin Topics
      /\ open' = [open EXCEPT ![q] = s]
      /\ open'[q] = s /\ \A r \in Slots \ {q} : open'[r] = open[r]
  BY PanelFields DEF PanelInv, Served
<1>2. /\ s \in Requests /\ s.kind = open[q].kind /\ s.served = TRUE
      /\ open[q].kind = "add" => s.topic = open[q].topic
      /\ open[q].kind = "add" => open[q].topic \in Topics
  <2>1. s \in Requests /\ s.kind = open[q].kind /\ s.served = TRUE
    BY <1>1, ServedWrite
  <2>2. open[q].kind = "add" => s.topic = open[q].topic
    BY <1>1, ServedWrite
  <2>3. open[q].kind = "add" => open[q].topic \in Topics \cup {NoTopic}
    BY <1>1, RequestFields
  <2> QED
    BY <2>1, <2>2, <2>3
<1>3. topic # NoTopic
  BY <1>2, PanelAssumption DEF PanelInv, EmptyInv
<1>4. PanelTypeOK'
  BY <1>1, <1>2 DEF PanelTypeOK
<1>5. ListInv'
  BY <1>1, <1>2 DEF PanelInv, ListInv, Current
<1>6. TruthInv'
  BY <1>1, <1>2 DEF TruthInv, Writing
<1>7. EmptyInv'
  <2>1. ASSUME NEW r \in Slots, open'[r].kind = "list" PROVE open'[r].of.topic \in Topics
    BY <1>1, <1>2, <2>1 DEF PanelInv, EmptyInv
  <2>2. ASSUME NEW r \in Slots, open'[r].kind = "add", open'[r].served
        PROVE  open'[r].topic \in Topics
    BY <1>1, <1>2, <2>2 DEF PanelInv, EmptyInv
  <2> QED
    BY <1>3, <2>1, <2>2 DEF EmptyInv
<1> QED
  BY <1>4, <1>5, <1>6, <1>7 DEF PanelInv

\* A list comes in, or is taken for empty.
LEMMA ListShown ==
    ASSUME PanelInv, NEW q \in Slots, open[q].kind = "list",
           open' = [open EXCEPT ![q] = Free],
           shown' \in Lists, shown'.topic = open[q].of.topic,
           shown'.state # "old" => open[q].of.state # "old",
           shown'.state = "newest" =>
              open[q].served /\ open[q].of.state = "newest" /\ shown'.ids = open[q].of.ids,
           UNCHANGED <<registry, topic, offered, untidy>>
    PROVE  PanelInv'
<1>1. /\ PanelTypeOK /\ open \in [Slots -> Requests]
      /\ open'[q].kind = "free" /\ \A r \in Slots \ {q} : open'[r] = open[r]
  BY PanelFields, NewRequests DEF PanelInv
<1>2. topic # NoTopic
  BY DEF PanelInv, EmptyInv
<1>3. PanelTypeOK'
  BY <1>1, NewRequests DEF PanelTypeOK
<1>4. ListInv'
  BY <1>1 DEF PanelInv, ListInv, Current
<1>5. Writing' <=> Writing
  BY <1>1 DEF Writing
<1>6. TruthInv'
  BY <1>1, <1>5 DEF PanelInv, TruthInv
<1>7. EmptyInv'
  BY <1>1, <1>2 DEF PanelInv, EmptyInv
<1> QED
  BY <1>3, <1>4, <1>6, <1>7 DEF PanelInv

\* Topics change by another hand, or a write is given up: what has been read of
\* them is not the newest any more.
LEMMA ListsOutdated ==
    ASSUME PanelInv, NEW changed \in SUBSET Topics, NEW gone \in SUBSET Slots,
           shown' = Outdated(shown, changed),
           open' = [r \in Slots |-> IF r \in gone THEN Free ELSE OutdatedRequest(open[r], changed)],
           \A r \in gone : open[r].kind \in {"add", "remove"},
           gone # {} => changed = Topics,
           registry' \in [Topics -> SUBSET Ids],
           \A t \in Topics \ changed : registry'[t] = registry[t],
           UNCHANGED <<topic, offered>>, untidy' \in BOOLEAN
    PROVE  PanelInv' /\ WritesKept
<1>1. /\ PanelTypeOK /\ shown \in Lists /\ \A r \in Slots : open[r] \in Requests
      /\ topic \in Topics \cup {NoTopic}
  BY PanelFields DEF PanelInv
<1>2. /\ shown' \in Lists /\ shown'.topic = shown.topic /\ shown'.ids = shown.ids
      /\ shown'.state # "old" => shown.state # "old"
      /\ shown'.state = "newest" => shown.state = "newest" /\ shown.topic \notin changed
  BY <1>1, OutdatedFields
<1>3. ASSUME NEW r \in Slots
      PROVE  /\ open'[r] \in Requests
             /\ r \in gone => open'[r].kind = "free"
             /\ r \notin gone => /\ open'[r].kind = open[r].kind
                                 /\ open[r].kind # "list" => open'[r] = open[r]
  <2>1. CASE r \in gone
    BY <2>1, NewRequests
  <2>2. CASE r \notin gone
    BY <1>1, <2>2, OutdatedRequests
  <2> QED
    BY <2>1, <2>2
<1>4. ASSUME NEW r \in Slots, open'[r].kind = "list"
      PROVE  /\ open[r].kind = "list" /\ r \notin gone
             /\ open'[r].served = open[r].served /\ open'[r].of.topic = open[r].of.topic
             /\ open'[r].of.state # "old" => open[r].of.state # "old"
             /\ open[r].served /\ open'[r].of.state = "newest" =>
                   /\ open[r].of.state = "newest" /\ open[r].of.topic \notin changed
                   /\ open'[r].of.ids = open[r].of.ids
  <2>1. open[r].kind = "list" /\ r \notin gone /\ open[r] \in Requests /\ open[r].of \in Lists
    BY <1>1, <1>3, <1>4, RequestFields
  <2>2. /\ open'[r].served = open[r].served
        /\ open'[r].of = IF open[r].served THEN Outdated(open[r].of, changed) ELSE open[r].of
    BY <2>1, OutdatedRequests
  <2> QED
    BY <2>1, <2>2, OutdatedFields
<1>5. PanelTypeOK'
  <2>1. open' \in [Slots -> Requests]
    BY <1>3
  <2> QED
    BY <1>1, <1>2, <2>1 DEF PanelTypeOK
<1>6. ListInv'
  <2>1. Current(shown)'
    BY <1>2 DEF PanelInv, ListInv, Current
  <2>2. ASSUME NEW r \in Slots, open'[r].kind = "list" PROVE Current(open[r].of)'
    BY <1>4, <2>2 DEF PanelInv, ListInv, Current
  <2> QED
    BY <2>1, <2>2 DEF ListInv
<1>7. TruthInv'
  <2> SUFFICES ASSUME topic # NoTopic, ~Writing'
               PROVE  /\ shown'.state = "newest" => shown'.ids = registry'[topic]
                      /\ \A r \in Slots :
                            /\ open'[r].kind = "list" /\ open'[r].served
                            /\ open'[r].of.state = "newest"
                            => open'[r].of.ids = registry'[topic]
    BY DEF TruthInv
  <2>1. CASE topic \notin changed
    <3>1. gone = {} /\ registry'[topic] = registry[topic]
      BY <1>1, <2>1
    <3>2. ~Writing
      BY <1>3, <3>1 DEF Writing
    <3> QED
      BY <1>2, <1>4, <3>1, <3>2 DEF PanelInv, TruthInv
  <2>2. CASE topic \in changed
    BY <1>2, <1>4, <2>2 DEF PanelInv, ListInv, Current
  <2> QED
    BY <2>1, <2>2
<1>8. EmptyInv'
  <2>1. ASSUME NEW r \in Slots, open'[r].kind = "list" PROVE open'[r].of.topic \in Topics
    BY <1>4, <2>1 DEF PanelInv, EmptyInv
  <2>2. ASSUME NEW r \in Slots, open'[r].kind = "add", open'[r].served
        PROVE  open'[r].topic \in Topics
    BY <1>3, <2>2 DEF PanelInv, EmptyInv
  <2>3. ASSUME topic = NoTopic, NEW r \in Slots
        PROVE  /\ open'[r].kind \in {"free", "boot", "add"}
               /\ open'[r].kind = "add" => open'[r].topic = NoTopic
    BY <1>3, <2>3 DEF PanelInv, EmptyInv
  <2>4. topic = NoTopic => shown'.ids = {}
    BY <1>2 DEF PanelInv, EmptyInv
  <2> QED
    BY <2>1, <2>2, <2>3, <2>4 DEF EmptyInv
<1>9. WritesKept
  BY <1>3 DEF WritesKept
<1> QED
  BY <1>5, <1>6, <1>7, <1>8, <1>9 DEF PanelInv

\* What the use of the page does.
LEMMA UseStep ==
    ASSUME PanelInv, NEW q \in Slots, Use(q)
    PROVE  /\ PanelInv'
           /\ \/ WritesKept /\ UNCHANGED <<registry, untidy>>
              \/ untidy'
              \/ \E id \in Ids, unnamed \in BOOLEAN : SubmitAdd(q, id, unnamed)
<1>1. /\ PanelTypeOK /\ open \in [Slots -> Requests] /\ open[q] \in Requests
      /\ topic \in offered \cup {NoTopic} /\ offered \subseteq Topics
      /\ topic \in Topics \cup {NoTopic} /\ NoTopic \notin Topics
      /\ topic = NoTopic => offered = {}
      /\ untidy \in BOOLEAN
  BY PanelFields DEF PanelInv, PanelTypeOK
<1>2. ASSUME NEW t \in Topics, ChooseTopic(q, t) PROVE PanelInv' /\ WritesKept
  BY <1>1, <1>2, Reread DEF ChooseTopic
<1>3. ASSUME NEW t \in Topics, CreateTopic(q, t) PROVE PanelInv' /\ WritesKept
  <2>1. t \in offered' /\ offered' \subseteq Topics
    BY <1>1, <1>3 DEF CreateTopic, SetTopics
  <2> QED
    BY <1>1, <1>3, <2>1, Reread DEF CreateTopic
<1>4. ASSUME NEW id \in Ids, NEW unnamed \in BOOLEAN, SubmitAdd(q, id, unnamed)
      PROVE  PanelInv'
  <2>1. PICK new : new = Add(topic, id, unnamed)
    OBVIOUS
  <2>2. /\ new \in Requests /\ new.kind = "add" /\ new.served = FALSE /\ new.topic = topic
    BY <1>1, <2>1, NewRequests
  <2>3. open[q].kind = "free" /\ open' = [open EXCEPT ![q] = new]
    BY <1>4, <2>1, NewRequests DEF SubmitAdd
  <2>4. untidy' \in BOOLEAN /\ UNCHANGED <<registry, topic, offered, shown>>
    BY <1>1, <1>4 DEF SubmitAdd
  <2> QED
    BY <1>1, <2>2, <2>3, <2>4, OneRequest
<1>5. ASSUME NEW id \in Ids, ClickRemove(q, id) PROVE PanelInv'
  <2>1. PICK new : new = Remove(id)
    OBVIOUS
  <2>2. new \in Requests /\ new.kind = "remove" /\ new.served = FALSE
    BY <2>1, NewRequests
  <2>3. /\ open[q].kind = "free" /\ open' = [open EXCEPT ![q] = new]
        /\ untidy' \in BOOLEAN /\ UNCHANGED <<registry, topic, offered, shown>>
    BY <1>5, <2>1, NewRequests DEF ClickRemove
  <2>4. topic # NoTopic
    BY <1>5 DEF ClickRemove, PanelInv, EmptyInv
  <2> QED
    BY <1>1, <2>2, <2>3, <2>4, OneRequest
<1>6. ASSUME NEW t \in Topics, ChooseTopic(q, t) \/ CreateTopic(q, t)
      PROVE  UNCHANGED <<registry, untidy>>
  BY <1>6 DEF ChooseTopic, CreateTopic
<1>7. ASSUME NEW id \in Ids, ClickRemove(q, id) PROVE untidy'
  BY <1>7 DEF ClickRemove
<1> QED
  BY <1>2, <1>3, <1>4, <1>5, <1>6, <1>7 DEF Use

\* What the server does.
LEMMA ServeStep ==
    ASSUME PanelInv, NEW q \in Slots, Serve(q)
    PROVE  /\ PanelInv'
           /\ \/ WritesKept /\ UNCHANGED <<registry, untidy>>
              \/ ServeAdd(q) \/ ServeRemove(q)
<1>1. /\ PanelTypeOK /\ open \in [Slots -> Requests] /\ open[q] \in Requests
      /\ registry \in [Topics -> SUBSET Ids]
      /\ topic \in offered \cup {NoTopic} /\ offered \subseteq Topics
      /\ topic = NoTopic => offered = {}
      /\ untidy \in BOOLEAN
  BY PanelFields DEF PanelInv, PanelTypeOK
<1>2. ASSUME ServeList(q) PROVE PanelInv' /\ WritesKept /\ UNCHANGED <<registry, untidy>>
  <2>1. open[q].kind = "list" /\ open[q].of.topic \in Topics
    BY <1>2 DEF ServeList, PanelInv, EmptyInv
  <2>2. PICK ids : ids = registry[open[q].of.topic]
    OBVIOUS
  <2>3. ids \in SUBSET Ids
    BY <1>1, <2>1, <2>2
  <2>4. PICK r : r = open[q]
    OBVIOUS
  <2>5. PICK s : s = WithIds(r, ids)
    OBVIOUS
  <2>6. r \in Requests /\ r.kind = "list"
    BY <1>1, <2>1, <2>4
  <2>7. PICK m \in Lists :
           /\ s = [kind |-> "list", served |-> TRUE, of |-> m]
           /\ m.topic = r.of.topic /\ m.state = r.of.state /\ m.ids = ids
    BY <2>3, <2>5, <2>6, ServedList
  <2>8. s \in Requests /\ s.kind = "list" /\ s.served = TRUE /\ s.of = m
    BY <2>7, ServedListFields
  <2>9. /\ open' = [open EXCEPT ![q] = s]
        /\ UNCHANGED <<registry, topic, offered, shown, untidy>>
    BY <1>2, <2>2, <2>4, <2>5 DEF ServeList, Served, WithIds
  <2>10. WritesKept
    BY <1>1, <2>8, <2>9 DEF WritesKept
  <2>11. PanelInv'
    BY <1>1, <2>1, <2>2, <2>4, <2>7, <2>8, <2>9, OneRequest
  <2> QED
    BY <2>9, <2>10, <2>11
<1>3. ASSUME ServeAdd(q) PROVE PanelInv'
  <2>1. PICK s : s = [open[q] EXCEPT !.served = TRUE]
    OBVIOUS
  <2>2. /\ open[q].kind = "add" /\ open[q].topic # NoTopic /\ Served(q, s)
        /\ UNCHANGED <<topic, offered, shown, untidy>>
    BY <1>3, <2>1 DEF ServeAdd
  <2>3. open[q].topic \in Topics /\ open[q].id \in Ids
    BY <1>1, <2>2, RequestFields
  <2>4. registry' \in [Topics -> SUBSET Ids]
    BY <1>1, <1>3, <2>3 DEF ServeAdd
  <2> QED
    BY <2>1, <2>2, <2>4, WriteServed
<1>4. ASSUME ServeRemove(q) PROVE PanelInv'
  <2>1. PICK s : s = [open[q] EXCEPT !.served = TRUE]
    OBVIOUS
  <2>2. /\ open[q].kind = "remove" /\ Served(q, s)
        /\ UNCHANGED <<topic, offered, shown, untidy>>
    BY <1>4, <2>1 DEF ServeRemove
  <2>3. registry' \in [Topics -> SUBSET Ids]
    BY <1>1, <1>4 DEF ServeRemove
  <2> QED
    BY <2>1, <2>2, <2>3, WriteServed
<1>5. ASSUME ServeConfig(q) PROVE PanelInv' /\ WritesKept /\ UNCHANGED <<registry, untidy>>
  <2>1. PICK some \in SUBSET Topics :
           Served(q, [open[q] EXCEPT !.served = TRUE, !.topics = Configured \cup some])
    BY <1>5 DEF ServeConfig
  <2>2. PICK ts : ts = Configured \cup some
    OBVIOUS
  <2>3. PICK r : r = open[q]
    OBVIOUS
  <2>8. PICK s : s = WithTopics(r, ts)
    OBVIOUS
  <2>4. ts \in SUBSET Topics
    BY <2>2, PanelAssumption
  <2>5. /\ open[q].kind \in {"boot", "config"}
        /\ UNCHANGED <<registry, topic, offered, shown, untidy>>
    BY <1>5 DEF ServeConfig
  <2>9. r \in Requests /\ r.kind \in {"boot", "config"}
    BY <1>1, <2>3, <2>5
  <2>6. s \in Requests /\ s.kind = r.kind
    BY <2>4, <2>8, <2>9, ServedConfig
  <2>7. open' = [open EXCEPT ![q] = s]
    BY <2>1, <2>2, <2>3, <2>8 DEF Served, WithTopics
  <2>10. WritesKept
    BY <1>1, <2>6, <2>7, <2>9 DEF WritesKept
  <2>11. PanelInv'
    BY <1>1, <2>3, <2>5, <2>6, <2>7, OneRequest
  <2> QED
    BY <2>5, <2>10, <2>11
<1> QED
  BY <1>2, <1>3, <1>4, <1>5, Zenon DEF Serve

\* What the callbacks do.
LEMMA AnswerStep ==
    ASSUME PanelInv, NEW q \in Slots, Answer(q)
    PROVE  PanelInv' /\ WritesKept
<1>1. /\ PanelTypeOK /\ open \in [Slots -> Requests] /\ open[q] \in Requests
      /\ registry \in [Topics -> SUBSET Ids] /\ shown \in Lists
      /\ topic \in offered \cup {NoTopic} /\ offered \subseteq Topics
      /\ topic \in Topics \cup {NoTopic} /\ NoTopic \notin Topics
      /\ topic = NoTopic => offered = {}
      /\ untidy \in BOOLEAN
  BY PanelFields DEF PanelInv, PanelTypeOK
<1>2. Free \in Requests /\ Free.kind = "free"
  BY NewRequests
<1>3. ASSUME open' = [open EXCEPT ![q] = Free] PROVE WritesKept
  BY <1>1, <1>2, <1>3 DEF WritesKept
<1>4. ASSUME AnswerList(q) PROVE PanelInv' /\ WritesKept
  <2>1. /\ open[q].kind = "list" /\ open[q].served /\ shown' = open[q].of
        /\ open' = [open EXCEPT ![q] = Free] /\ UNCHANGED <<registry, topic, offered, untidy>>
    BY <1>4 DEF AnswerList
  <2>2. shown' \in Lists
    BY <1>1, <2>1, RequestFields
  <2> QED
    BY <1>3, <2>1, <2>2, ListShown
<1>5. ASSUME AnswerBoot(q) PROVE PanelInv' /\ WritesKept
  <2>1. PICK t : t = topic'
    OBVIOUS
  <2>2. t \in Topics
    BY <1>1, <1>5, <2>1, RequestFields, PanelAssumption DEF AnswerBoot
  <2>3. t \in offered' /\ offered' \subseteq Topics
    BY <1>1, <1>5, <2>1, <2>2, RequestFields DEF AnswerBoot, SetTopics
  <2> QED
    BY <1>1, <1>5, <2>1, <2>2, <2>3, Reread DEF AnswerBoot
<1>6. ASSUME AnswerConfig(q) PROVE PanelInv' /\ WritesKept
  <2>1. open[q].kind = "config" /\ open[q].topics \in SUBSET Topics
    BY <1>1, <1>6, RequestFields DEF AnswerConfig
  <2>2. topic # NoTopic
    BY <2>1 DEF PanelInv, EmptyInv
  <2>3. topic \in offered' /\ offered' \subseteq Topics
    BY <1>1, <1>6, <2>1, <2>2 DEF AnswerConfig, SetTopics
  <2>4. open' = [open EXCEPT ![q] = Free] /\ UNCHANGED <<registry, topic, shown, untidy>>
    BY <1>6 DEF AnswerConfig
  <2> QED
    BY <1>1, <1>2, <1>3, <2>1, <2>2, <2>3, <2>4, OneRequest
<1>7. ASSUME AnswerAdd(q) PROVE PanelInv' /\ WritesKept
  <2>1. PICK r \in Slots \ {q} : LoadSubs(q, [open EXCEPT ![r] = Config("config")])
    BY <1>7 DEF AnswerAdd
  <2>2. PICK reqs : reqs = [open EXCEPT ![r] = Config("config")]
    OBVIOUS
  <2>3. /\ reqs \in [Slots -> Requests] /\ LoadSubs(q, reqs)
        /\ \A x \in Slots \ {q} : reqs[x] = open[x] \/ reqs[x] = Config("config")
    BY <1>1, <2>1, <2>2, NewRequests
  <2>4. topic \in Topics
    BY <1>1, <1>7 DEF AnswerAdd, PanelInv, EmptyInv
  <2>5. UNCHANGED <<registry, topic, offered, untidy>>
    BY <1>7 DEF AnswerAdd
  <2> QED
    BY <1>1, <2>3, <2>4, <2>5, Reread
<1>8. ASSUME AnswerRemove(q) PROVE PanelInv' /\ WritesKept
  <2>1. topic \in Topics
    BY <1>1, <1>8 DEF AnswerRemove, PanelInv, EmptyInv
  <2>2. LoadSubs(q, open) /\ UNCHANGED <<registry, topic, offered, untidy>>
    BY <1>8 DEF AnswerRemove
  <2> QED
    BY <1>1, <2>1, <2>2, Reread
<1>9. ASSUME ListFails(q) PROVE PanelInv' /\ WritesKept
  <2>1. /\ open[q].kind = "list" /\ open' = [open EXCEPT ![q] = Free]
        /\ shown' = Outdated([open[q].of EXCEPT !.ids = {}], Topics)
        /\ UNCHANGED <<registry, topic, offered, untidy>>
    BY <1>9 DEF ListFails
  <2>2. open[q].of \in Lists /\ open[q].of.topic \in Topics
    BY <1>1, <2>1, RequestFields DEF PanelInv, EmptyInv
  <2>3. PICK l : l = [open[q].of EXCEPT !.ids = {}]
    OBVIOUS
  <2>4. l \in Lists /\ l.topic = open[q].of.topic /\ l.state = open[q].of.state
    BY <2>2, <2>3 DEF Lists
  <2>5. /\ shown' \in Lists /\ shown'.topic = open[q].of.topic
        /\ shown'.state # "old" => open[q].of.state # "old"
        /\ shown'.state # "newest"
    BY <2>1, <2>2, <2>3, <2>4, OutdatedFields
  <2> QED
    BY <1>3, <2>1, <2>5, ListShown
<1>10. ASSUME WriteFails(q) PROVE PanelInv' /\ WritesKept
  <2>1. /\ open[q].kind \in {"add", "remove"} /\ shown' = Outdated(shown, Topics)
        /\ open' = [r \in Slots |-> IF r = q THEN Free ELSE OutdatedRequest(open[r], Topics)]
        /\ UNCHANGED <<registry, topic, offered, untidy>>
    BY <1>10 DEF WriteFails
  <2>2. open' = [r \in Slots |-> IF r \in {q} THEN Free ELSE OutdatedRequest(open[r], Topics)]
    BY <2>1
  <2> QED
    BY <1>1, <2>1, <2>2, ListsOutdated
<1>11. ASSUME ConfigFails(q) PROVE PanelInv' /\ WritesKept
  <2>1. /\ open[q].kind \in {"boot", "config"} /\ open' = [open EXCEPT ![q] = Free]
        /\ UNCHANGED <<registry, topic, offered, shown, untidy>>
    BY <1>11 DEF ConfigFails
  <2> QED
    BY <1>1, <1>2, <1>3, <2>1, OneRequest
<1> QED
  BY <1>4, <1>5, <1>6, <1>7, <1>8, <1>9, <1>10, <1>11, Zenon DEF Answer

LEMMA OthersStep ==
    ASSUME PanelInv, NEW t \in Topics, NEW id \in Ids, OthersChange(t, id)
    PROVE  PanelInv'
<1>1. registry \in [Topics -> SUBSET Ids]
  BY PanelFields DEF PanelInv
<1>2. PICK changed, gone : changed = {t} /\ gone = {}
  OBVIOUS
<1>3. /\ shown' = Outdated(shown, changed)
      /\ open' = [r \in Slots |->
                     IF r \in gone THEN Free ELSE OutdatedRequest(open[r], changed)]
      /\ registry' \in [Topics -> SUBSET Ids] /\ UNCHANGED <<topic, offered>>
      /\ untidy' \in BOOLEAN /\ \A u \in Topics \ changed : registry'[u] = registry[u]
  BY <1>1, <1>2 DEF OthersChange
<1>4. /\ changed \in SUBSET Topics /\ gone \in SUBSET Slots
      /\ gone # {} => changed = Topics
      /\ \A r \in gone : open[r].kind \in {"add", "remove"}
  BY <1>2
<1> QED
  BY <1>3, <1>4, ListsOutdated

LEMMA PanelStep == PanelInv /\ [PanelNext]_panelVars => PanelInv'
<1> SUFFICES ASSUME PanelInv, [PanelNext]_panelVars PROVE PanelInv'
  OBVIOUS
<1>1. CASE UNCHANGED panelVars
  BY <1>1
  DEF panelVars, PanelInv, PanelTypeOK, ListInv, TruthInv, EmptyInv, Current, Writing
<1> QED
  BY <1>1, UseStep, ServeStep, AnswerStep, OthersStep DEF PanelNext

LEMMA InitPanel == PanelInit => PanelInv
<1> SUFFICES ASSUME PanelInit PROVE PanelInv
  OBVIOUS
<1>1. PICK p \in Slots : open = [r \in Slots |-> IF r = p THEN Config("boot") ELSE Free]
  BY DEF PanelInit
<1>2. /\ Config("boot") \in Requests /\ Config("boot").kind = "boot"
      /\ Free \in Requests /\ Free.kind = "free"
  BY NewRequests
<1>3. open \in [Slots -> Requests] /\ \A q \in Slots : open[q].kind \in {"boot", "free"}
  BY <1>1, <1>2
<1>4. shown \in Lists /\ shown.topic = NoTopic /\ shown.ids = {} /\ topic = NoTopic
  BY BlankFields DEF PanelInit
<1>5. PanelTypeOK
  BY <1>3, <1>4 DEF PanelInit, PanelTypeOK
<1> QED
  BY <1>3, <1>4, <1>5 DEF PanelInv, ListInv, Current, TruthInv, EmptyInv

LEMMA PanelCorrect == PanelSpec => []PanelInv
  BY InitPanel, PanelStep, PTL DEF PanelSpec

(* Types; and the topic that is selected is always among those offered.     *)
THEOREM PanelTypeCorrect == PanelSpec => []PanelTypeOK
<1>1. PanelInv => PanelTypeOK
  BY DEF PanelInv
<1> QED
  BY <1>1, PanelCorrect, PTL

\* At rest no write is under way.
LEMMA AtRest == PanelInv => PanelShowsTopic
<1>1. ASSUME Quiet PROVE ~Writing
  BY <1>1, NewRequests DEF Quiet, Writing
<1> QED
  BY <1>1 DEF PanelInv, ListInv, Current, TruthInv, PanelShowsTopic

(* At rest the panel shows the subscribers of the topic that is selected,   *)
(* unless an older list came in after the newest one, a request failed or   *)
(* others changed the topic: in whatever order the requests are served and  *)
(* answered.                                                                *)
THEOREM ShowsTopic == PanelSpec => []PanelShowsTopic
  BY AtRest, PanelCorrect, PTL

-----------------------------------------------------------------------------
(* Default names.                                                           *)

LEMMA RegistryFinite ==
    ASSUME PanelTypeOK, NEW t \in Topics
    PROVE  /\ IsFiniteSet(registry[t]) /\ registry[t] \in SUBSET Nat
           /\ Cardinality(registry[t]) \in Nat
<1>1. registry[t] \in SUBSET Ids
  BY DEF PanelTypeOK
<1> QED
  BY <1>1, PanelAssumption, FS_Subset, FS_CardinalityType

\* Steps that begin no write and serve none.
LEMMA NamesKept ==
    ASSUME NameInv, WritesKept, UNCHANGED registry, untidy => untidy'
    PROVE  NameInv'
<1> SUFFICES ASSUME ~untidy' PROVE NameInv'
  BY DEF NameInv
<1>1. /\ ~untidy /\ \A t \in Topics : Compact(registry[t])
      /\ \A q \in Slots : open[q].kind # "remove"
  BY DEF NameInv
<1>2. ASSUME NEW q \in Slots, open'[q].kind = "add"
      PROVE  open'[q] = open[q] /\ open[q].kind = "add"
  BY <1>2 DEF WritesKept
<1>3. \A q \in Slots : open'[q].kind # "remove"
  BY <1>1 DEF WritesKept
<1>4. \A q \in Slots : open'[q].kind = "add" /\ ~open'[q].unnamed => open'[q].id = 0
  BY <1>1, <1>2 DEF NameInv
<1>5. \A q, r \in Slots : Unnamed(q)' /\ Unnamed(r)' => q = r
  BY <1>1, <1>2 DEF NameInv, Unnamed
<1>6. ASSUME NEW q \in Slots, Unnamed(q)', ~open'[q].served, open'[q].topic \in Topics
      PROVE  /\ open'[q].id > 0 /\ \A n \in registry[open'[q].topic] : n < open'[q].id
             /\ open'[q].id <= Cardinality(registry[open'[q].topic]) + 1
  <2>1. open'[q] = open[q] /\ Unnamed(q)
    BY <1>2, <1>6 DEF Unnamed
  <2> QED
    BY <1>1, <1>6, <2>1 DEF NameInv
<1>7. \A t \in Topics : Compact(registry'[t])
  BY <1>1
<1> QED
  BY <1>3, <1>4, <1>5, <1>6, <1>7 DEF NameInv, Unnamed

\* An addition is sent: with the default name, while the list is the newest.
LEMMA NamesSubmitted ==
    ASSUME PanelInv, NameInv, NEW q \in Slots, NEW id \in Ids, NEW unnamed \in BOOLEAN,
           SubmitAdd(q, id, unnamed)
    PROVE  NameInv'
<1> SUFFICES ASSUME ~untidy' PROVE NameInv'
  BY DEF NameInv
<1>1. /\ ~untidy
      /\ unnamed => Ready /\ id = DefaultName
      /\ ~unnamed => id = 0
      /\ registry' = registry /\ open[q] = Free
  BY DEF SubmitAdd
<1>2. PICK new : new = Add(topic, id, unnamed)
  OBVIOUS
<1>3. /\ new.kind = "add" /\ new.served = FALSE /\ new.topic = topic
      /\ new.id = id /\ new.unnamed = unnamed
  BY <1>2, NewRequests, PanelFields DEF PanelInv
<1>4. open'[q] = new /\ \A r \in Slots \ {q} : open'[r] = open[r]
  BY <1>2 DEF SubmitAdd, PanelInv, PanelTypeOK
<1>5. CASE ~unnamed
  <2>1. \A t \in Topics : Compact(registry'[t])
    BY <1>1 DEF NameInv
  <2>2. \A r \in Slots : open'[r].kind # "remove"
    BY <1>1, <1>3, <1>4 DEF NameInv
  <2>3. \A r \in Slots : open'[r].kind = "add" /\ ~open'[r].unnamed => open'[r].id = 0
    BY <1>1, <1>3, <1>4, <1>5 DEF NameInv
  <2>4. \A r \in Slots : Unnamed(r)' => r # q /\ open'[r] = open[r] /\ Unnamed(r)
    BY <1>3, <1>4, <1>5 DEF Unnamed
  <2>5. \A r, s \in Slots : Unnamed(r)' /\ Unnamed(s)' => r = s
    BY <1>1, <2>4 DEF NameInv
  <2>6. ASSUME NEW r \in Slots, Unnamed(r)', ~open'[r].served, open'[r].topic \in Topics
        PROVE  /\ open'[r].id > 0 /\ \A n \in registry[open'[r].topic] : n < open'[r].id
               /\ open'[r].id <= Cardinality(registry[open'[r].topic]) + 1
    BY <1>1, <2>4, <2>6 DEF NameInv
  <2> QED
    BY <1>1, <2>1, <2>2, <2>3, <2>5, <2>6 DEF NameInv, Unnamed
<1>6. CASE unnamed
  <2>1. Quiet /\ shown.state = "newest" /\ id = Cardinality(shown.ids) + 1
    BY <1>1, <1>6 DEF Ready, DefaultName
  <2>2. ASSUME topic \in Topics
        PROVE  /\ id > 0 /\ \A n \in registry[topic] : n < id
               /\ id <= Cardinality(registry[topic]) + 1
    <3>1. shown.ids = registry[topic]
      BY <2>1, <2>2, AtRest, PanelAssumption DEF PanelShowsTopic
    <3>2. /\ \A n \in registry[topic] : n \in Nat /\ n <= Cardinality(registry[topic])
          /\ Cardinality(registry[topic]) \in Nat
      BY <1>1, <2>2, RegistryFinite DEF NameInv, Compact, PanelInv
    <3> QED
      BY <2>1, <3>1, <3>2
  <2>3. \A r \in Slots : open'[r].kind = "add" => r = q
    BY <1>4, <2>1, NewRequests DEF Quiet
  <2>4. \A r \in Slots : open'[r].kind # "remove"
    BY <1>3, <1>4, <2>1, NewRequests DEF Quiet
  <2>5. \A t \in Topics : Compact(registry'[t])
    BY <1>1 DEF NameInv
  <2> QED
    BY <1>1, <1>3, <1>4, <1>6, <2>2, <2>3, <2>4, <2>5 DEF NameInv, Unnamed
<1> QED
  BY <1>5, <1>6

\* An addition is served: it makes its topic one longer, or the id is 0.
LEMMA NamesServed ==
    ASSUME PanelInv, NameInv, NEW q \in Slots, ServeAdd(q)
    PROVE  NameInv'
<1> SUFFICES ASSUME ~untidy PROVE NameInv'
  BY DEF NameInv, ServeAdd
<1>0. PICK t, id, s :
         t = open[q].topic /\ id = open[q].id /\ s = [open[q] EXCEPT !.served = TRUE]
  OBVIOUS
<1>1. /\ open[q].kind = "add" /\ ~open[q].served /\ t # NoTopic /\ untidy' = untidy
      /\ registry' = [registry EXCEPT ![t] = registry[t] \cup {id}]
      /\ open' = [open EXCEPT ![q] = s]
  BY <1>0 DEF ServeAdd, Served
<1>2. /\ PanelTypeOK /\ open \in [Slots -> Requests] /\ open[q] \in Requests
      /\ registry \in [Topics -> SUBSET Ids]
  BY PanelFields DEF PanelInv
<1>3. t \in Topics /\ id \in Ids /\ id \in Nat /\ open[q].unnamed \in BOOLEAN
  BY <1>0, <1>1, <1>2, RequestFields, PanelAssumption
<1>4. /\ s.kind = "add" /\ s.served = TRUE /\ s.id = id /\ s.topic = t
      /\ s.unnamed = open[q].unnamed
  BY <1>0, <1>1, <1>2, ServedWrite
<1>5. open'[q] = s /\ \A r \in Slots \ {q} : open'[r] = open[r]
  BY <1>1, <1>2
<1>6. registry'[t] = registry[t] \cup {id} /\ \A u \in Topics \ {t} : registry'[u] = registry[u]
  BY <1>1, <1>2, <1>3
<1>7. /\ IsFiniteSet(registry[t]) /\ Cardinality(registry[t]) \in Nat
      /\ \A n \in registry[t] : n \in Nat
  BY <1>2, <1>3, RegistryFinite
<1>8. /\ Cardinality(registry'[t]) \in Nat
      /\ Cardinality(registry'[t]) = IF id \in registry[t] THEN Cardinality(registry[t])
                                     ELSE Cardinality(registry[t]) + 1
  BY <1>6, <1>7, FS_AddElement, FS_CardinalityType
<1>9. \A n \in registry[t] : n <= Cardinality(registry[t])
  BY <1>3 DEF NameInv, Compact
<1>10. \A r \in Slots : Unnamed(r)' <=> Unnamed(r)
  BY <1>1, <1>4, <1>5 DEF Unnamed
<1>11. Compact(registry'[t])
  <2>1. CASE open[q].unnamed
    <3>1. /\ \A n \in registry[t] : n < id
          /\ id <= Cardinality(registry[t]) + 1
      BY <1>0, <1>1, <1>3, <2>1 DEF NameInv, Unnamed
    <3>2. id \notin registry[t]
      BY <1>3, <3>1
    <3> QED
      BY <1>3, <1>6, <1>7, <1>8, <1>9, <3>1, <3>2 DEF Compact
  <2>2. CASE ~open[q].unnamed
    <3>1. id = 0
      BY <1>0, <1>1, <2>2 DEF NameInv
    <3> QED
      BY <1>6, <1>7, <1>8, <1>9, <3>1 DEF Compact
  <2> QED
    BY <2>1, <2>2
<1>12. \A u \in Topics : Compact(registry'[u])
  BY <1>6, <1>11 DEF NameInv
<1>13. \A r \in Slots : open'[r].kind # "remove"
  BY <1>4, <1>5 DEF NameInv
<1>14. \A r \in Slots : open'[r].kind = "add" /\ ~open'[r].unnamed => open'[r].id = 0
  BY <1>0, <1>1, <1>4, <1>5 DEF NameInv
<1>15. ASSUME NEW r \in Slots, Unnamed(r)', ~open'[r].served, open'[r].topic \in Topics
       PROVE  /\ open'[r].id > 0 /\ \A n \in registry'[open'[r].topic] : n < open'[r].id
              /\ open'[r].id <= Cardinality(registry'[open'[r].topic]) + 1
  <2>1. r # q /\ open'[r] = open[r] /\ Unnamed(r)
    BY <1>4, <1>5, <1>10, <1>15
  <2>2. ~Unnamed(q)
    BY <2>1 DEF NameInv
  <2>3. id = 0
    BY <1>0, <1>1, <2>2 DEF NameInv, Unnamed
  <2>4. PICK rt, rid : rt = open[r].topic /\ rid = open[r].id
    OBVIOUS
  <2>5. /\ rid > 0 /\ \A n \in registry[rt] : n < rid
        /\ rid <= Cardinality(registry[rt]) + 1
        /\ rt \in Topics /\ rid \in Nat
    <3>1. rid \in Nat
      BY <1>2, <2>1, <2>4, RequestFields, PanelAssumption DEF Unnamed
    <3> QED
      BY <1>15, <2>1, <2>4, <3>1 DEF NameInv
  <2>6. CASE rt = t
    <3>1. registry'[rt] = registry[rt] \cup {0}
      BY <1>6, <2>3, <2>6
    <3>2. \A n \in registry'[rt] : n < rid
      BY <2>5, <3>1
    <3>3. Cardinality(registry[rt]) <= Cardinality(registry'[rt])
      BY <1>7, <1>8, <2>6
    <3>4. rid <= Cardinality(registry'[rt]) + 1
      BY <1>7, <1>8, <2>5, <2>6, <3>3
    <3> QED
      BY <2>1, <2>4, <2>5, <3>2, <3>4
  <2>7. CASE rt # t
    BY <1>6, <2>1, <2>4, <2>5, <2>7
  <2> QED
    BY <2>6, <2>7
<1> QED
  BY <1>10, <1>12, <1>13, <1>14, <1>15 DEF NameInv, Unnamed

LEMMA NameStep == PanelInv /\ NameInv /\ [PanelNext]_panelVars => NameInv'
<1> SUFFICES ASSUME PanelInv, NameInv, [PanelNext]_panelVars PROVE NameInv'
  OBVIOUS
<1>1. untidy \in BOOLEAN
  BY PanelFields DEF PanelInv
<1>2. ASSUME WritesKept, UNCHANGED <<registry, untidy>> PROVE NameInv'
  BY <1>2, NamesKept
<1>3. ASSUME untidy' PROVE NameInv'
  BY <1>3 DEF NameInv
<1>4. ASSUME UNCHANGED panelVars PROVE NameInv'
  BY <1>2, <1>4 DEF panelVars, WritesKept
<1>5. ASSUME NEW q \in Slots, Use(q) PROVE NameInv'
  BY <1>2, <1>3, <1>5, UseStep, NamesSubmitted
<1>6. ASSUME NEW q \in Slots, Serve(q) PROVE NameInv'
  <2>1. CASE ServeAdd(q)
    BY <2>1, NamesServed
  <2>2. CASE ServeRemove(q)
    BY <1>3, <2>2 DEF ServeRemove, NameInv
  <2> QED
    BY <1>2, <1>6, <2>1, <2>2, ServeStep
<1>7. ASSUME NEW q \in Slots, Answer(q) PROVE NameInv'
  <2>1. UNCHANGED <<registry, untidy>>
    BY <1>7
    DEF Answer, AnswerList, AnswerBoot, AnswerConfig, AnswerAdd, AnswerRemove, ListFails,
        WriteFails, ConfigFails
  <2> QED
    BY <1>2, <1>7, <2>1, AnswerStep
<1>8. ASSUME NEW t \in Topics, NEW id \in Ids, OthersChange(t, id) PROVE NameInv'
  BY <1>3, <1>8 DEF OthersChange
<1> QED
  BY <1>4, <1>5, <1>6, <1>7, <1>8 DEF PanelNext

LEMMA InitNames == PanelInit => NameInv
<1> SUFFICES ASSUME PanelInit PROVE NameInv
  OBVIOUS
<1>1. PICK p \in Slots : open = [r \in Slots |-> IF r = p THEN Config("boot") ELSE Free]
  BY DEF PanelInit
<1>2. \A q \in Slots : open[q].kind \in {"boot", "free"}
  BY <1>1, NewRequests
<1>3. \A t \in Topics : Compact(registry[t])
  BY DEF PanelInit
<1> QED
  BY <1>2, <1>3 DEF NameInv, Unnamed

(* An unnamed addition never replaces a subscriber, if the page was at rest *)
(* for each, no name of its form was typed and nothing has been removed:    *)
(* on whatever topics and in whatever order they are made.                  *)
THEOREM FreshNames == PanelSpec => DefaultNamesAreFresh
<1>1. PanelInit => PanelInv /\ NameInv
  BY InitPanel, InitNames
<1>2. PanelInv /\ NameInv /\ [PanelNext]_panelVars => PanelInv' /\ NameInv'
  BY PanelStep, NameStep
<1>3. PanelInv /\ NameInv =>
         [\A q \in Slots :
             ServeAdd(q) /\ open[q].unnamed /\ open[q].id \in registry[open[q].topic] =>
                untidy]_panelVars
  <2> SUFFICES ASSUME PanelInv, NameInv, NEW q \in Slots, ServeAdd(q), open[q].unnamed,
                      open[q].id \in registry[open[q].topic], ~untidy
               PROVE  FALSE
    OBVIOUS
  <2>1. open[q].kind = "add" /\ ~open[q].served /\ open[q].topic # NoTopic
    BY DEF ServeAdd
  <2>2. open[q].topic \in Topics /\ open[q].id \in Nat
    BY <2>1, PanelFields, RequestFields, PanelAssumption DEF PanelInv
  <2>3. open[q].id < open[q].id
    BY <2>1, <2>2 DEF NameInv, Unnamed
  <2> QED
    BY <2>2, <2>3
<1> QED
  BY <1>1, <1>2, <1>3, PTL DEF PanelSpec, DefaultNamesAreFresh
=============================================================================
