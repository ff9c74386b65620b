------------------------------ MODULE Answers ------------------------------
(* Questions and what is made of the answers: the tables question and answer, *)
(* and the running sums presence_score, absence_score and count_answers of    *)
(* person, which every answer updates.                                        *)
(*                                                                            *)
(* A request's statement reads in a snapshot and commits later, beside those  *)
(* of the other workers; the second of two that change one row fails.         *)
EXTENDS Integers, FiniteSets, FiniteSetsExt

CONSTANTS AnsPeople, AnsQuestions, AnsTraits,
          AnsVectors,   \* [question -> [trait -> [py, pn, ay, an]]]
          AnsWorkers,   \* processes that answer requests, one transaction each
          AnsMay,       \* who answers what, and how: rows <<person, question, public>> (bound)
          AnsMaxPosts,  \* answers given in all (bound)
          AnsNone

VARIABLES ansPhase,   \* how far the questions have been loaded
          ansRow,     \* answer: [answer, public] or AnsNone
          ansSum,     \* person.presence_score and absence_score, per trait
          ansCount,   \* person.count_answers
          ansYes, ansNo, \* question.count_yes, count_no
          ansTx       \* what each worker's open transaction has read

ansVars == <<ansPhase, ansRow, ansSum, ansCount, ansYes, ansNo, ansTx>>

AnsValues == {"yes", "no", "skip"}
AnsRows == [answer : AnsValues, public : BOOLEAN]
AnsSums == [AnsTraits -> [presence : Int, absence : Int]]

ASSUME AnsAssumption ==
  /\ AnsVectors \in [AnsQuestions -> [AnsTraits -> [py : Int, pn : Int, ay : Int, an : Int]]]
  /\ IsFiniteSet(AnsPeople) /\ IsFiniteSet(AnsQuestions) /\ IsFiniteSet(AnsWorkers)
  /\ AnsNone \notin AnsRows

Posts == MapThenSumSet(LAMBDA q : ansYes[q] + ansNo[q], AnsQuestions)

AnsIdle == [op |-> "none"]
AnsOpen ==
  [op : {"answer"}, person : AnsPeople, question : AnsQuestions, row : AnsRows \cup {AnsNone},
   old : AnsValues \cup {"none"}, sum : AnsSums, count : Int, stale : BOOLEAN]
IsOpen(w) == ansTx[w].op # "none"

AnsTypeOK ==
  /\ ansPhase \in {"empty", "texts", "ready"}
  /\ ansRow \in [AnsPeople \X AnsQuestions -> AnsRows \cup {AnsNone}]
  /\ ansSum \in [AnsPeople -> AnsSums] /\ ansCount \in [AnsPeople -> Int]
  /\ ansYes \in [AnsQuestions -> Nat] /\ ansNo \in [AnsQuestions -> Nat]
  /\ ansTx \in [AnsWorkers -> AnsOpen \cup {AnsIdle}]

AnsInit ==
  /\ ansPhase = "empty"
  /\ ansRow = [x \in AnsPeople \X AnsQuestions |-> AnsNone]
  /\ ansSum = [p \in AnsPeople |-> [t \in AnsTraits |-> [presence |-> 0, absence |-> 0]]]
  /\ ansCount = [p \in AnsPeople |-> 0]
  /\ ansYes = [q \in AnsQuestions |-> 0] /\ ansNo = [q \in AnsQuestions |-> 0]
  /\ ansTx = [w \in AnsWorkers |-> AnsIdle]

-----------------------------------------------------------------------------
(* question.init_db, before any worker serves: the texts in one transaction,  *)
(* the vectors in another.  Each asks first whether it has been done, so that *)
(* an initialisation that was cut short is finished by the next one.          *)

LoadTexts ==
  /\ ansPhase = "empty" /\ ansPhase' = "texts"
  /\ UNCHANGED <<ansRow, ansSum, ansCount, ansYes, ansNo, ansTx>>

LoadVectors ==
  /\ ansPhase = "texts" /\ ansPhase' = "ready"
  /\ UNCHANGED <<ansRow, ansSum, ansCount, ansYes, ansNo, ansTx>>

-----------------------------------------------------------------------------
(* compute_personality_vectors, up to the percentages.                        *)

\* answer_score_vectors less the excess that presence and absence share.
Score(q, a) == [t \in AnsTraits |->
  LET v == AnsVectors[q][t]
      yes == [presence |-> v.py, absence |-> v.ay]
      no  == [presence |-> v.pn, absence |-> v.an]
      s == IF a = "yes" THEN yes ELSE no
      excess == IF s.presence < s.absence THEN s.presence ELSE s.absence
  IN  IF a \in {"yes", "no"}
      THEN [presence |-> s.presence - excess, absence |-> s.absence - excess]
      ELSE [presence |-> 0, absence |-> 0]]

Counts(a) == IF a \in {"yes", "no"} THEN 1 ELSE 0

Moved(cur, q, new, old) == [t \in AnsTraits |->
  [presence |-> cur[t].presence + Score(q, new)[t].presence - Score(q, old)[t].presence,
   absence  |-> cur[t].absence + Score(q, new)[t].absence - Score(q, old)[t].absence]]

AnswerOf(row) == IF row = AnsNone THEN "none" ELSE row.answer

-----------------------------------------------------------------------------
(* Answers.                                                                   *)

\* Q_UPDATE_ANSWER reads the old answer and the sums.
Read(w, p, q, row) == ansTx' = [ansTx EXCEPT ![w] =
  [op |-> "answer", person |-> p, question |-> q, row |-> row,
   old |-> AnswerOf(ansRow[<<p, q>>]), sum |-> ansSum[p], count |-> ansCount[p],
   stale |-> FALSE]]

\* post_answer: the count is committed by a transaction of its own; the second
\* one takes its snapshot.  Nothing else looks at the counts, so the two steps
\* are one here.
PostAnswer(w, p, q, row) ==
  /\ ansPhase = "ready" /\ ~IsOpen(w)
  /\ ansYes' = [ansYes EXCEPT ![q] = @ + IF row.answer = "yes" THEN 1 ELSE 0]
  /\ ansNo' = [ansNo EXCEPT ![q] = @ + IF row.answer = "no" THEN 1 ELSE 0]
  /\ Read(w, p, q, row)
  /\ UNCHANGED <<ansPhase, ansRow, ansSum, ansCount>>

DeleteAnswer(w, p, q) ==
  /\ ansPhase = "ready" /\ ~IsOpen(w)
  /\ Read(w, p, q, AnsNone)
  /\ UNCHANGED <<ansPhase, ansRow, ansSum, ansCount, ansYes, ansNo>>

\* Mutant of CommitAnswer: the second of two that overlap commits too.
CommitAnswerAnyway(w) == LET x == ansTx[w] IN
  /\ x.op = "answer"
  /\ ansRow' = [ansRow EXCEPT ![<<x.person, x.question>>] = x.row]
  /\ ansSum' = [ansSum EXCEPT ![x.person] =
        Moved(x.sum, x.question, AnswerOf(x.row), x.old)]
  /\ ansCount' = [ansCount EXCEPT ![x.person] =
        x.count + Counts(AnswerOf(x.row)) - Counts(x.old)]
  /\ ansTx' = [ansTx EXCEPT ![w] = AnsIdle]
  /\ UNCHANGED <<ansPhase, ansYes, ansNo>>

\* The sums written are made of the sums read.  Every such statement updates
\* the row of person, so of two that overlap the second one fails.
CommitAnswer(w) == LET x == ansTx[w] IN
  /\ x.op = "answer" /\ ~x.stale
  /\ ansRow' = [ansRow EXCEPT ![<<x.person, x.question>>] = x.row]
  /\ ansSum' = [ansSum EXCEPT ![x.person] =
        Moved(x.sum, x.question, AnswerOf(x.row), x.old)]
  /\ ansCount' = [ansCount EXCEPT ![x.person] =
        x.count + Counts(AnswerOf(x.row)) - Counts(x.old)]
  /\ ansTx' = [v \in AnsWorkers |->
        IF v = w THEN AnsIdle
        ELSE IF ansTx[v].op = "answer" /\ ansTx[v].person = x.person
             THEN [ansTx[v] EXCEPT !.stale = TRUE] ELSE ansTx[v]]
  /\ UNCHANGED <<ansPhase, ansYes, ansNo>>

\* A conflict, or any other error: the client gets an error.
TxFails(w) ==
  /\ IsOpen(w) /\ ansTx' = [ansTx EXCEPT ![w] = AnsIdle]
  /\ UNCHANGED <<ansPhase, ansRow, ansSum, ansCount, ansYes, ansNo>>

\* Q_ANSWER_COMPARISON: the questions of one page.
Compared(p, prospect, agreement) == {q \in AnsQuestions :
  LET theirs == ansRow[<<prospect, q>>]  mine == AnswerOf(ansRow[<<p, q>>]) IN
  /\ AnswerOf(theirs) \in {"yes", "no"} /\ theirs.public
  /\ agreement = "Agree" => mine = theirs.answer
  /\ agreement = "Disagree" => mine \in {"yes", "no"} \ {theirs.answer}
  /\ agreement = "Unanswered" => mine \notin {"yes", "no"}}

AnsNext == LET morePosts == Posts < AnsMaxPosts IN
  \/ LoadTexts \/ LoadVectors
  \/ \E w \in AnsWorkers, p \in AnsPeople, q \in AnsQuestions :
        \/ \E row \in AnsRows :
              /\ <<p, q, row.public>> \in AnsMay
              /\ row.answer = "skip" \/ morePosts
              /\ PostAnswer(w, p, q, row)
        \/ <<p, q, TRUE>> \in AnsMay /\ DeleteAnswer(w, p, q)
  \/ \E w \in AnsWorkers : CommitAnswer(w) \/ TxFails(w)

AnsSpec == AnsInit /\ [][AnsNext]_ansVars

-----------------------------------------------------------------------------
(* Properties.                                                                *)

\* The running sums are what the stored answers give, and the count is that of
\* the answers that are not skips, however changes, deletions and answers from
\* two devices at once are interleaved: nothing ever recomputes them.
ScoresAreSums == \A p \in AnsPeople :
  LET score == [q \in AnsQuestions |-> Score(q, AnswerOf(ansRow[<<p, q>>]))] IN
  /\ \A t \in AnsTraits :
        /\ ansSum[p][t].presence = MapThenSumSet(LAMBDA q : score[q][t].presence, AnsQuestions)
        /\ ansSum[p][t].absence = MapThenSumSet(LAMBDA q : score[q][t].absence, AnsQuestions)
  /\ ansCount[p] = Cardinality({q \in AnsQuestions : AnswerOf(ansRow[<<p, q>>]) \in {"yes", "no"}})

\* The counts shown with a question cover the answers that are stored, though
\* they are committed apart from them and never taken back.
TalliesCoverAnswers == \A q \in AnsQuestions :
  /\ ansYes[q] >= Cardinality({p \in AnsPeople : AnswerOf(ansRow[<<p, q>>]) = "yes"})
  /\ ansNo[q] >= Cardinality({p \in AnsPeople : AnswerOf(ansRow[<<p, q>>]) = "no"})

\* Agreements, disagreements and unanswered questions share out the list of all
\* comparisons, skips included.
ComparisonsPartition == \A p, r \in AnsPeople :
  LET page(a) == Compared(p, r, a) IN
  /\ page("All") = page("Agree") \cup page("Disagree") \cup page("Unanswered")
  /\ page("Agree") \cap page("Disagree") = {}
  /\ page("Unanswered") \cap (page("Agree") \cup page("Disagree")) = {}
=============================================================================
