------------------------------ MODULE MCMembers ------------------------------
(* Accounts, Clubs, Answers and BestDistance, which share no step: TLC picks one *)
(* of them and runs it.  Sessions, and the connections of the others, which are named like *)
(* them, are interchangeable, and so are the two equivalent addresses.         *)
EXTENDS MCAccounts, Clubs, Answers, BestDistance

CONSTANTS ann, bob, chess, go

VARIABLE part

MCPeople == {ann, bob}
MCLiked == ann :> {chess, go} @@ bob :> {chess}

\* Answers: two devices of ann's, and bob; yes and no share an excess.
AMay == {<<ann, 1, TRUE>>, <<ann, 2, TRUE>>, <<bob, 1, TRUE>>, <<bob, 1, FALSE>>}
AVec == [q \in {1, 2} |-> [t \in {"intro"} |->
  IF q = 1 THEN [py |-> 5, pn |-> 1, ay |-> 2, an |-> 4]
           ELSE [py |-> 1, pn |-> 3, ay |-> 3, an |-> 0]]]

MembersInit ==
  /\ part \in {"accounts", "clubs", "answers", "distance"}
  /\ AccInit /\ ClubsInit /\ AnsInit /\ BdInit
  /\ part # "distance" => bdPeople = {}

MembersNext ==
  /\ UNCHANGED part
  /\ \/ part = "accounts" /\ AccNext /\ UNCHANGED <<clubsVars, ansVars, bdVars>>
     \/ part = "clubs" /\ ClubsNext /\ UNCHANGED <<accVars, ansVars, bdVars>>
     \/ part = "answers" /\ AnsNext /\ UNCHANGED <<accVars, clubsVars, bdVars>>
     \/ part = "distance" /\ BdNext /\ UNCHANGED <<accVars, clubsVars, ansVars>>

MembersSpec ==
  MembersInit /\ [][MembersNext]_<<part, accVars, clubsVars, ansVars, bdVars>>

\* The variables of the one that runs keep their types.
MembersTypeOK ==
  CASE part = "accounts" -> AccTypeOK
    [] part = "clubs"    -> ClubsTypeOK
    [] part = "answers"  -> AnsTypeOK
    [] part = "distance" -> BdTypeOK

\* What is made of the answers adds up: sums, tallies and comparisons.
AnswersAddUp ==
  part = "answers" => ScoresAreSums /\ TalliesCoverAnswers /\ ComparisonsPartition
=============================================================================
