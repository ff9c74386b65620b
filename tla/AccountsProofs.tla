---------------------------- MODULE AccountsProofs ----------------------------
(* Machine-checked proofs about Accounts, for any addresses and any way to     *)
(* normalise them, any sessions, and any operations that may be held.          *)
EXTENDS Accounts, TLAPS

Persons == [email : AccEmails, active : {"yes", "user", "cron"}]
Rows == [email : AccEmails, pid : AccIds \cup {AccNone}, otp : BOOLEAN, signed : BOOLEAN]

\* A request names a token, an address and an account that there is or was, and
\* one for a code has found an account of the same mailbox.
InfoOK(i) ==
  /\ i.token \in AccTokens /\ i.email \in AccEmails /\ i.pid \in AccIds \cup {AccNone}
  /\ i.pid # AccNone => accPerson[i.pid] # AccNone
  /\ i.op = "request-otp" /\ i.pid \in Living =>
       AccNorm[accPerson[i.pid].email] = AccNorm[i.email]

HeldOK == accHeld # AccNone => InfoOK(accHeld)

AccIInv == AccTypeOK /\ HeldOK /\ AccountsHold

-----------------------------------------------------------------------------
(* Lemmas.                                                                     *)

\* Who lives has a row in person.
LEMMA LivingHaveRows ==
  ASSUME AccTypeOK
  PROVE  \A p \in AccIds : p \in Living <=> accPerson[p] \in Persons
  BY AccAssumption DEF AccAssumption, AccTypeOK, Living, Persons

\* No account comes back, and none changes its address.
PersonsGoOn ==
  \A p \in AccIds : accPerson[p] # AccNone =>
    /\ accPerson'[p] # AccNone
    /\ p \in Living' => p \in Living /\ accPerson'[p].email = accPerson[p].email

LEMMA HeldGoesOn ==
  ASSUME HeldOK, PersonsGoOn, accHeld' \in {accHeld, AccNone}
  PROVE  HeldOK'
<1>1. CASE accHeld' = AccNone
  BY <1>1 DEF HeldOK
<1>2. CASE accHeld # AccNone /\ accHeld' = accHeld
  <2>1. InfoOK(accHeld)
    BY <1>2 DEF HeldOK
  <2>2. accHeld.pid # AccNone => accHeld.pid \in AccIds /\ accPerson[accHeld.pid] # AccNone
    BY <2>1 DEF InfoOK
  <2>3. accHeld.pid # AccNone => accPerson'[accHeld.pid] # AccNone
    BY <2>2 DEF PersonsGoOn
  <2>4. accHeld.pid \in Living' =>
          accHeld.pid \in Living /\ accPerson'[accHeld.pid].email = accPerson[accHeld.pid].email
    BY <2>2, AccAssumption DEF AccAssumption, PersonsGoOn, Living
  <2>5. InfoOK(accHeld)'
    BY <1>2, <2>1, <2>3, <2>4 DEF InfoOK
  <2> QED
    BY <1>2, <2>5 DEF HeldOK
<1> QED
  BY <1>1, <1>2 DEF HeldOK

\* A step on sessions, onboardees, bans or tokens leaves the accounts alone.
LEMMA SamePersons ==
  ASSUME accPerson' = accPerson
  PROVE  PersonsGoOn /\ Living' = Living /\ (OneAccountPerEmail => OneAccountPerEmail')
  BY DEF PersonsGoOn, Living, OneAccountPerEmail

\* Sessions that go away, or that stay as they are.
LEMMA FewerSessions ==
  ASSUME AccIInv, accPerson' = accPerson,
         accSession' = [t \in AccTokens |-> accSession'[t]],
         \A t \in AccTokens : accSession'[t] \in {accSession[t], AccNone},
         accHeld' \in {accHeld, AccNone}, accTok' \subseteq accTok,
         accOnboardee' \subseteq AccEmails,
         accBan' \in [DOMAIN accBan -> {"none", "month", "less", "expired"}]
  PROVE  AccIInv'
<1> USE DEF AccIInv
<1>1. Living' = Living /\ HeldOK'
  BY SamePersons, HeldGoesOn
<1>2. AccTypeOK'
  BY <1>1 DEF AccTypeOK
<1>3. AccountsHold'
  BY <1>1, SamePersons
  DEF AccountsHold, NoStrangerSession, SleepersAreSignedOut, Linked, AccTypeOK
<1> QED
  BY <1>1, <1>2, <1>3

\* An account that is deleted takes its sessions and its token along.
LEMMA DeletionKeeps ==
  ASSUME AccIInv, NEW p \in AccIds, DeletePerson(p),
         accHeld' \in {accHeld, AccNone}, accOnboardee' = accOnboardee,
         accBan' \in [DOMAIN accBan -> {"none", "month", "less", "expired"}]
  PROVE  AccIInv'
<1> USE DEF AccIInv
<1>1. Living' = Living \ {p}
  BY DEF DeletePerson, AccTypeOK, Living
<1>2. \A q \in AccIds \ {p} : accPerson'[q] = accPerson[q]
  BY DEF DeletePerson, AccTypeOK
<1>3. \A t \in AccTokens : accSession'[t] = IF t \in Linked(p) THEN AccNone ELSE accSession[t]
  BY DEF DeletePerson
<1>4. PersonsGoOn
  BY <1>1, <1>2, AccAssumption DEF AccAssumption, PersonsGoOn, DeletePerson, AccTypeOK
<1>5. AccTypeOK'
  <2>1. accPerson' \in [AccIds -> {AccNone, AccGone} \cup Persons]
    BY DEF DeletePerson, AccTypeOK, Persons
  <2>2. \A t \in AccTokens : accSession'[t] # AccNone => accSession'[t].pid \in Living' \cup {AccNone}
    BY <1>1, <1>3 DEF AccTypeOK, Linked
  <2> QED
    BY <1>1, <2>1, <2>2 DEF DeletePerson, AccTypeOK, Persons
<1>6. \A q \in Living' : Linked(q)' \subseteq Linked(q)
                         /\ \A t \in Linked(q)' : accSession'[t] = accSession[t]
  BY <1>1, <1>3 DEF Linked
<1>7. AccountsHold'
  BY <1>1, <1>2, <1>6
  DEF AccountsHold, NoStrangerSession, OneAccountPerEmail, SleepersAreSignedOut, Living
<1> QED
  BY <1>4, <1>5, <1>7, HeldGoesOn

-----------------------------------------------------------------------------
(* The handlers, whether they run at once or after being held.                 *)

LEMMA InsertSessionKeeps ==
  ASSUME AccIInv, NEW i, InfoOK(i), i.op = "request-otp", InsertSession(i),
         accHeld' \in {accHeld, AccNone}
  PROVE  AccIInv'
<1> USE DEF AccIInv, InsertSession
<1>1. Living' = Living /\ HeldOK'
  BY SamePersons, HeldGoesOn
<1> DEFINE new == [email |-> i.email, pid |-> i.pid, otp |-> TRUE, signed |-> FALSE]
<1>2. new \in Rows
  BY DEF InfoOK, Rows
<1>3. AccTypeOK'
  BY <1>1, <1>2 DEF AccTypeOK, Rows
<1>4. AccountsHold'
  BY <1>1, SamePersons
  DEF AccountsHold, NoStrangerSession, SleepersAreSignedOut, Linked, AccTypeOK, InfoOK
<1> QED
  BY <1>1, <1>3, <1>4

LEMMA ResendKeeps ==
  ASSUME AccIInv, NEW i, InfoOK(i), ResendOtp(i), accHeld' \in {accHeld, AccNone}
  PROVE  AccIInv'
<1> USE DEF AccIInv, ResendOtp
<1>1. Living' = Living /\ HeldOK'
  BY SamePersons, HeldGoesOn
<1>2. i.token \in AccTokens /\ accSession[i.token] \in Rows
  BY DEF InfoOK, AccTypeOK, Rows
<1>3. AccTypeOK'
  BY <1>1, <1>2 DEF AccTypeOK, Rows
<1>4. \A p \in Living : Linked(p)' \subseteq Linked(p)
  BY <1>2, AccAssumption DEF AccAssumption, Linked, AccTypeOK, Rows
<1>5. \A t \in AccTokens : accSession[t] # AccNone =>
        accSession'[t].email = accSession[t].email /\ accSession'[t].signed = accSession[t].signed
  BY <1>2 DEF AccTypeOK, Rows
<1>6. AccountsHold'
  BY <1>1, <1>4, <1>5, SamePersons
  DEF AccountsHold, NoStrangerSession, SleepersAreSignedOut, Linked
<1> QED
  BY <1>1, <1>3, <1>6

\* Signing in wakes the account up, if it is not a bot's.
LEMMA CheckOtpKeeps ==
  ASSUME AccIInv, NEW i, InfoOK(i), AccCheckOtp(i), accHeld' \in {accHeld, AccNone}
  PROVE  AccIInv'
<1> USE DEF AccIInv
<1> DEFINE s == accSession[i.token]
<1>1. i.token \in AccTokens /\ s \in Rows /\ s # AccNone /\ s.pid \in Living \cup {AccNone}
  BY DEF InfoOK, AccCheckOtp, AccTypeOK, Rows
<1>2. /\ accSession' = [accSession EXCEPT ![i.token].signed = TRUE]
      /\ accOnboardee' = accOnboardee \ {s.email}
      /\ accPerson' = IF s.pid = AccNone \/ s.pid \in AccBots THEN accPerson
                      ELSE [accPerson EXCEPT ![s.pid].active = "yes"]
      /\ UNCHANGED <<accBan, accTok>>
  BY DEF AccCheckOtp
<1> HIDE DEF s
<1>3. \A p \in AccIds : p \in Living =>
        accPerson'[p] \in Persons /\ accPerson'[p].email = accPerson[p].email
  BY <1>1, <1>2, LivingHaveRows DEF Living, AccTypeOK, Persons
<1>4. \A p \in AccIds \ Living : accPerson'[p] = accPerson[p]
  BY <1>1, <1>2 DEF AccTypeOK
<1>5. Living' = Living
  BY <1>3, <1>4, AccAssumption DEF AccAssumption, Living, Persons
<1>6. PersonsGoOn
  BY <1>3, <1>4, <1>5, AccAssumption DEF AccAssumption, PersonsGoOn, Persons
<1>7. \A t \in AccTokens :
        /\ accSession'[t] = AccNone <=> accSession[t] = AccNone
        /\ accSession[t] # AccNone => /\ accSession'[t] \in Rows
                                      /\ accSession'[t].pid = accSession[t].pid
                                      /\ accSession'[t].email = accSession[t].email
                                      /\ t # i.token => accSession'[t] = accSession[t]
  BY <1>1, <1>2, AccAssumption, ZenonT(60) DEF AccAssumption, AccTypeOK, Rows, s
<1>8. AccTypeOK'
  <2>1. accPerson' \in [AccIds -> {AccNone, AccGone} \cup Persons]
    BY <1>2, <1>3, <1>4 DEF AccTypeOK, Persons
  <2>2. accSession' \in [AccTokens -> {AccNone} \cup Rows]
    BY <1>2, <1>7 DEF AccTypeOK, Rows
  <2> QED
    BY <1>2, <1>5, <1>7, <2>1, <2>2 DEF AccTypeOK, Persons, Rows
<1>9. \A p \in Living : Linked(p)' = Linked(p)
  BY <1>7 DEF Linked
<1>10. NoStrangerSession' /\ OneAccountPerEmail'
  BY <1>3, <1>5, <1>7, <1>9 DEF AccountsHold, NoStrangerSession, OneAccountPerEmail, Linked, Living
<1>11. SleepersAreSignedOut'
  <2> SUFFICES ASSUME NEW p \in Living \ AccBots, accPerson'[p].active = "cron", NEW t \in Linked(p)
               PROVE  ~accSession'[t].signed
    BY <1>5, <1>9 DEF SleepersAreSignedOut
  <2>1. t \in AccTokens /\ accSession[t] # AccNone /\ accSession[t].pid = p
    BY DEF Linked
  <2>2. CASE t = i.token
    <3>1. p \in AccIds /\ accPerson'[p].active = "yes"
      BY <1>2, <2>1, <2>2, LivingHaveRows, AccAssumption
      DEF AccAssumption, Living, AccTypeOK, Persons, s
    <3> QED
      BY <3>1
  <2>3. CASE t # i.token
    <3>1. p \in AccIds /\ accPerson[p].active = "cron"
      BY <1>1, <1>2, LivingHaveRows DEF Living, AccTypeOK, Persons
    <3> QED
      BY <1>7, <2>1, <2>3, <3>1 DEF AccountsHold, SleepersAreSignedOut
  <2> QED
    BY <2>2, <2>3
<1> QED
  BY <1>6, <1>8, <1>10, <1>11, HeldGoesOn DEF AccountsHold

LEMMA SignOutKeeps ==
  ASSUME AccIInv, NEW i, InfoOK(i), SignOut(i), accHeld' \in {accHeld, AccNone}
  PROVE  AccIInv'
<1>1. /\ accSession' = [t \in AccTokens |-> accSession'[t]]
      /\ \A t \in AccTokens : accSession'[t] \in {accSession[t], AccNone}
  BY DEF SignOut, AccIInv, AccTypeOK
<1> QED
  BY <1>1, FewerSessions DEF SignOut, AccIInv, AccTypeOK

LEMMA PatchKeeps ==
  ASSUME AccIInv, NEW i, InfoOK(i), PatchOnboardee(i), accHeld' \in {accHeld, AccNone}
  PROVE  AccIInv'
<1>1. /\ accSession' = [t \in AccTokens |-> accSession'[t]]
      /\ \A t \in AccTokens : accSession'[t] \in {accSession[t], AccNone}
  BY DEF PatchOnboardee, AccIInv, AccTypeOK
<1>2. accOnboardee' \subseteq AccEmails
  BY DEF PatchOnboardee, AccIInv, AccTypeOK, InfoOK
<1> QED
  BY <1>1, <1>2, FewerSessions DEF PatchOnboardee, AccIInv, AccTypeOK

\* Onboarding takes an id that was never used, and an address that nobody has.
LEMMA FinishKeeps ==
  ASSUME AccIInv, NEW i, InfoOK(i), AccFinishOnboarding(i), accHeld' \in {accHeld, AccNone}
  PROVE  AccIInv'
<1> USE DEF AccIInv
<1>1. PICK p \in Unused :
        /\ accPerson' = [accPerson EXCEPT ![p] = [email |-> i.email, active |-> "yes"]]
        /\ accSession' = [t \in AccTokens |->
              IF accSession[t] # AccNone /\ accSession[t].email = i.email
              THEN [accSession[t] EXCEPT !.pid = p] ELSE accSession[t]]
  BY DEF AccFinishOnboarding
<1> DEFINE new == [email |-> i.email, active |-> "yes"]
<1>2. new \in Persons /\ p \in AccIds /\ p \notin Living /\ accPerson[p] = AccNone
  BY DEF InfoOK, Persons, Unused, Living
<1>3. accPerson'[p] = new /\ \A q \in AccIds \ {p} : accPerson'[q] = accPerson[q]
  BY <1>1, <1>2 DEF AccTypeOK
<1>4. Living' = Living \cup {p}
  BY <1>2, <1>3, AccAssumption DEF AccAssumption, Living, Persons
<1>5. PersonsGoOn
  BY <1>2, <1>3, <1>4 DEF PersonsGoOn
<1>6. \A t \in AccTokens : accSession'[t] = IF accSession[t] # AccNone /\ accSession[t].email = i.email
                                             THEN [accSession[t] EXCEPT !.pid = p] ELSE accSession[t]
  BY <1>1
<1>7. \A t \in AccTokens : accSession[t] # AccNone =>
        /\ accSession'[t] \in Rows /\ accSession'[t] # AccNone
        /\ accSession'[t].email = accSession[t].email /\ accSession'[t].signed = accSession[t].signed
        /\ accSession'[t].pid = IF accSession[t].email = i.email THEN p ELSE accSession[t].pid
  <2> SUFFICES ASSUME NEW t \in AccTokens, accSession[t] # AccNone
               PROVE  /\ accSession'[t] \in Rows /\ accSession'[t] # AccNone
                      /\ accSession'[t].email = accSession[t].email
                      /\ accSession'[t].signed = accSession[t].signed
                      /\ accSession'[t].pid = IF accSession[t].email = i.email
                                             THEN p ELSE accSession[t].pid
    OBVIOUS
  <2>1. accSession[t] \in Rows
    BY DEF AccTypeOK, Rows
  <2>2. CASE accSession[t].email = i.email
    <3>1. accSession'[t] = [accSession[t] EXCEPT !.pid = p]
      BY <1>6, <2>2
    <3> QED
      BY <1>2, <2>1, <2>2, <3>1, AccAssumption DEF AccAssumption, Rows
  <2>3. CASE accSession[t].email # i.email
    BY <1>6, <2>1, <2>3, AccAssumption DEF AccAssumption, Rows
  <2> QED
    BY <2>2, <2>3
<1>8. \A t \in AccTokens : accSession[t] = AccNone => accSession'[t] = AccNone
  BY <1>6
<1>9. AccTypeOK'
  <2>1. accPerson' \in [AccIds -> {AccNone, AccGone} \cup Persons]
    BY <1>1, <1>2, <1>3 DEF AccTypeOK, Persons
  <2>2. accSession' \in [AccTokens -> {AccNone} \cup Rows]
    BY <1>1, <1>7, <1>8
  <2>3. \A t \in AccTokens : accSession'[t] # AccNone => accSession'[t].pid \in Living' \cup {AccNone}
    BY <1>4, <1>7, <1>8 DEF AccTypeOK
  <2> QED
    BY <1>4, <2>1, <2>2, <2>3 DEF AccTypeOK, AccFinishOnboarding, Persons, Rows
<1>10. \A t \in Linked(p)' : accSession'[t].email = i.email
  BY <1>2, <1>7, <1>8, AccAssumption DEF AccAssumption, Linked, AccTypeOK, Living
<1>11. \A q \in Living : \A t \in Linked(q)' :
         t \in Linked(q) /\ accSession'[t].email = accSession[t].email
                         /\ accSession'[t].signed = accSession[t].signed
  BY <1>2, <1>7, <1>8 DEF Linked
<1>12. \A q \in Living : q # p /\ accPerson'[q] = accPerson[q] /\ q \in AccIds
  BY <1>2, <1>3 DEF Living
<1>13. NoStrangerSession'
  BY <1>3, <1>4, <1>10, <1>11, <1>12 DEF AccountsHold, NoStrangerSession, Linked
<1>14. OneAccountPerEmail'
  BY <1>3, <1>4, <1>12 DEF AccountsHold, OneAccountPerEmail, AccFinishOnboarding, EmailIsFree
<1>15. SleepersAreSignedOut'
  BY <1>3, <1>4, <1>11, <1>12 DEF AccountsHold, SleepersAreSignedOut
<1> QED
  BY <1>5, <1>9, <1>13, <1>14, <1>15, HeldGoesOn DEF AccountsHold

LEMMA DeactivateKeeps ==
  ASSUME AccIInv, NEW i, InfoOK(i), PostDeactivate(i), accHeld' \in {accHeld, AccNone}
  PROVE  AccIInv'
<1> USE DEF AccIInv
<1> DEFINE p == i.pid
<1>1. p \in Living /\ p \in AccIds /\ accPerson[p] \in Persons
  BY LivingHaveRows DEF PostDeactivate, Living
<1>2. /\ accPerson' = [accPerson EXCEPT ![p].active = "user"]
      /\ UNCHANGED <<accSession, accOnboardee, accBan, accTok>>
  BY DEF PostDeactivate
<1> HIDE DEF p
<1>3. /\ accPerson'[p] \in Persons /\ accPerson'[p].email = accPerson[p].email
      /\ accPerson'[p].active = "user"
      /\ \A q \in AccIds \ {p} : accPerson'[q] = accPerson[q]
  BY <1>1, <1>2 DEF AccTypeOK, Persons
<1>4. Living' = Living
  BY <1>1, <1>3, AccAssumption DEF AccAssumption, Living, Persons
<1>5. PersonsGoOn
  BY <1>1, <1>3, <1>4, AccAssumption DEF AccAssumption, PersonsGoOn, Persons
<1>6. AccTypeOK'
  <2>1. accPerson' \in [AccIds -> {AccNone, AccGone} \cup Persons]
    BY <1>1, <1>2, <1>3 DEF AccTypeOK, Persons
  <2> QED
    BY <1>2, <1>4, <2>1 DEF AccTypeOK, Persons
<1>7. \A q \in Living : accPerson'[q].email = accPerson[q].email /\ Linked(q)' = Linked(q)
                         /\ accPerson'[q].active = "cron" => accPerson[q].active = "cron"
  BY <1>2, <1>3 DEF Living, Linked
<1>8. AccountsHold'
  BY <1>2, <1>4, <1>7
  DEF AccountsHold, NoStrangerSession, OneAccountPerEmail, SleepersAreSignedOut, Linked
<1> QED
  BY <1>5, <1>6, <1>8, HeldGoesOn

LEMMA HandlerKeeps ==
  ASSUME AccIInv, NEW i, InfoOK(i), Handle(i), accHeld' \in {accHeld, AccNone}
  PROVE  AccIInv'
<1>1. CASE i.op = "request-otp" /\ InsertSession(i)
  BY <1>1, InsertSessionKeeps
<1>2. CASE ResendOtp(i)
  BY <1>2, ResendKeeps
<1>3. CASE AccCheckOtp(i)
  BY <1>3, CheckOtpKeeps
<1>4. CASE SignOut(i)
  BY <1>4, SignOutKeeps
<1>5. CASE PatchOnboardee(i)
  BY <1>5, PatchKeeps
<1>6. CASE AccFinishOnboarding(i)
  BY <1>6, FinishKeeps
<1>7. CASE PostDeactivate(i)
  BY <1>7, DeactivateKeeps
<1>8. CASE AccDeleteAccount(i)
  BY <1>8, DeletionKeeps DEF AccDeleteAccount, DeletePerson, Living, AccIInv, AccTypeOK
<1> QED
  BY <1>1, <1>2, <1>3, <1>4, <1>5, <1>6, <1>7, <1>8 DEF Handle

\* The idle ones lose their sessions as they fall asleep.
LEMMA SleepKeeps ==
  ASSUME AccIInv, AutoDeactivate
  PROVE  AccIInv'
<1> USE DEF AccIInv
<1>1. PICK idle \in SUBSET {p \in Living : accPerson[p].active = "yes"} :
        /\ accPerson' = [p \in AccIds |->
              IF p \in idle THEN [accPerson[p] EXCEPT !.active = "cron"] ELSE accPerson[p]]
        /\ accSession' = [t \in AccTokens |->
              IF \E p \in idle : t \in Linked(p) THEN AccNone ELSE accSession[t]]
  BY DEF AutoDeactivate
<1>2. \A p \in AccIds : p \in Living =>
        accPerson'[p] \in Persons /\ accPerson'[p].email = accPerson[p].email
  BY <1>1, LivingHaveRows DEF Persons
<1>3. \A p \in AccIds \ idle : accPerson'[p] = accPerson[p]
  BY <1>1
<1>4. idle \subseteq Living /\ Living \subseteq AccIds
  BY <1>1 DEF Living
<1>5. Living' = Living
  BY <1>2, <1>3, <1>4, AccAssumption DEF AccAssumption, Living, Persons
<1>6. PersonsGoOn
  BY <1>2, <1>3, <1>4, <1>5, AccAssumption DEF AccAssumption, PersonsGoOn, Persons
<1>7. \A t \in AccTokens : accSession'[t] \in {accSession[t], AccNone}
  BY <1>1
<1>8. AccTypeOK'
  <2>1. accPerson' \in [AccIds -> {AccNone, AccGone} \cup Persons]
    BY <1>1, <1>2, <1>3, <1>4 DEF AccTypeOK, Persons
  <2>2. accSession' \in [AccTokens -> {AccNone} \cup Rows]
    BY <1>1, <1>7 DEF AccTypeOK, Rows
  <2> QED
    BY <1>5, <1>7, <2>1, <2>2 DEF AccTypeOK, Persons, Rows, AutoDeactivate
<1>9. \A p \in Living : Linked(p)' \subseteq Linked(p)
                         /\ \A t \in Linked(p)' : accSession'[t] = accSession[t]
  BY <1>7 DEF Linked
<1>10. \A p \in idle : Linked(p)' = {}
  BY <1>1, <1>9, <1>4 DEF Linked
<1>11. NoStrangerSession' /\ OneAccountPerEmail'
  BY <1>2, <1>4, <1>5, <1>9 DEF AccountsHold, NoStrangerSession, OneAccountPerEmail
<1>12. SleepersAreSignedOut'
  BY <1>3, <1>4, <1>5, <1>9, <1>10 DEF AccountsHold, SleepersAreSignedOut
<1> QED
  BY <1>6, <1>8, <1>11, <1>12, HeldGoesOn DEF AccountsHold, AutoDeactivate

-----------------------------------------------------------------------------
(* The theorems.                                                               *)

LEMMA AccInitOK == AccInit => AccIInv
<1> SUFFICES ASSUME AccInit PROVE AccIInv
  OBVIOUS
<1>1. Living = {} /\ \A t \in AccTokens : accSession[t] = AccNone
  BY DEF AccInit, Living
<1> QED
  BY <1>1 DEF AccInit, AccIInv, AccTypeOK, HeldOK, AccountsHold, NoStrangerSession,
              OneAccountPerEmail, SleepersAreSignedOut

\* What a request learns when it authenticates.
LEMMA InfoIsOK ==
  ASSUME AccIInv, NEW t \in AccTokens, NEW op \in AccOps, accSession[t] # AccNone
  PROVE  InfoOK(Info(t, op))
  BY AccAssumption DEF AccAssumption, AccIInv, AccTypeOK, InfoOK, Info, AccOps, Living

LEMMA AccountOfIsTheirs ==
  ASSUME NEW e \in AccEmails, AccountOf(e) # AccNone
  PROVE  AccountOf(e) \in Living /\ AccNorm[accPerson[AccountOf(e)].email] = AccNorm[e]
  BY DEF AccountOf

LEMMA OtpExpiresKeeps ==
  ASSUME AccIInv, NEW t \in AccTokens, OtpExpires(t)
  PROVE  AccIInv'
<1> USE DEF AccIInv, OtpExpires
<1>1. Living' = Living /\ HeldOK'
  BY SamePersons, HeldGoesOn
<1>2. accSession[t] \in Rows
  BY DEF AccTypeOK, Rows
<1>3. AccTypeOK'
  BY <1>1, <1>2 DEF AccTypeOK, Rows
<1>4. \A p \in Living : Linked(p)' \subseteq Linked(p)
  BY <1>2, AccAssumption DEF AccAssumption, Linked, AccTypeOK, Rows
<1>5. \A s \in AccTokens : accSession[s] # AccNone =>
        accSession'[s].email = accSession[s].email /\ accSession'[s].signed = accSession[s].signed
  BY <1>2 DEF AccTypeOK, Rows
<1>6. AccountsHold'
  BY <1>1, <1>4, <1>5, SamePersons
  DEF AccountsHold, NoStrangerSession, SleepersAreSignedOut, Linked
<1> QED
  BY <1>1, <1>3, <1>6

LEMMA RequestOtpKeeps ==
  ASSUME AccIInv, NEW t \in AccTokens, NEW e \in AccEmails, RequestOtp(t, e)
  PROVE  AccIInv'
<1> DEFINE i == [op |-> "request-otp", token |-> t, email |-> e, pid |-> AccountOf(e)]
<1>1. InfoOK(i)
  <2>1. AccountOf(e) # AccNone => AccountOf(e) \in Living
          /\ AccNorm[accPerson[AccountOf(e)].email] = AccNorm[e]
    BY AccountOfIsTheirs
  <2> HIDE DEF AccountOf
  <2> QED
    BY <2>1, AccAssumption DEF AccAssumption, InfoOK, Living
<1>2. accHeld' = i /\ UNCHANGED <<accPerson, accSession, accOnboardee, accBan, accTok>>
  BY DEF RequestOtp
<1> HIDE DEF i
<1>3. HeldOK'
  BY <1>1, <1>2 DEF HeldOK, InfoOK, Living
<1> QED
  BY <1>2, <1>3 DEF AccIInv, AccTypeOK, AccountsHold, NoStrangerSession, OneAccountPerEmail,
                    SleepersAreSignedOut, Living, Linked

LEMMA HoldKeeps ==
  ASSUME AccIInv, NEW t \in AccTokens, NEW op \in AccOps, Hold(t, op)
  PROVE  AccIInv'
<1>1. InfoOK(Info(t, op))
  BY InfoIsOK DEF Hold, Authorised
<1> DEFINE i == Info(t, op)
<1>2. accHeld' = i /\ UNCHANGED <<accPerson, accSession, accOnboardee, accBan, accTok>>
  BY DEF Hold
<1> HIDE DEF i
<1>3. HeldOK'
  BY <1>1, <1>2 DEF HeldOK, InfoOK, Living, i
<1> QED
  BY <1>2, <1>3 DEF AccIInv, AccTypeOK, AccountsHold, NoStrangerSession, OneAccountPerEmail,
                    SleepersAreSignedOut, Living, Linked

LEMMA AccStepKeeps == AccIInv /\ [AccNext]_accVars => AccIInv'
<1> SUFFICES ASSUME AccIInv, [AccNext]_accVars PROVE AccIInv'
  OBVIOUS
<1>1. CASE \E t \in AccTokens, e \in AccEmails : RequestOtp(t, e)
  BY <1>1, RequestOtpKeeps
<1>2. CASE \E t \in AccTokens, op \in AccOps : Request(t, op)
  <2>1. PICK t \in AccTokens, op \in AccOps : Request(t, op)
    BY <1>2
  <2>2. InfoOK(Info(t, op)) /\ Handle(Info(t, op)) /\ accHeld' = accHeld
    BY <2>1, InfoIsOK DEF Request, Authorised
  <2> QED
    BY <2>2, HandlerKeeps
<1>3. CASE \E t \in AccTokens, op \in AccOps : Hold(t, op)
  BY <1>3, HoldKeeps
<1>4. CASE Resume
  <2>1. InfoOK(accHeld) /\ Handle(accHeld) /\ accHeld' = AccNone
    BY <1>4 DEF Resume, AccIInv, HeldOK
  <2> QED
    BY <2>1, HandlerKeeps
<1>5. CASE Fail
  BY <1>5 DEF Fail, AccIInv, AccTypeOK, HeldOK, AccountsHold, NoStrangerSession,
              OneAccountPerEmail, SleepersAreSignedOut, Living, Linked
<1>6. CASE \E p, q \in AccIds : MakeReport(p, q)
  <2>1. UNCHANGED <<accPerson, accSession, accOnboardee, accBan, accHeld>> /\ accTok' \subseteq Living
    BY <1>6 DEF MakeReport, AccIInv, AccTypeOK
  <2> QED
    BY <2>1 DEF AccIInv, AccTypeOK, HeldOK, InfoOK, AccountsHold, NoStrangerSession,
                OneAccountPerEmail, SleepersAreSignedOut, Living, Linked
<1>7. CASE \E p \in AccIds : AdminBan(p)
  <2>1. PICK p \in AccIds : AdminBan(p)
    BY <1>7
  <2>2. accBan' \in [DOMAIN accBan -> {"none", "month", "less", "expired"}]
    BY <2>1 DEF AdminBan, AccIInv, AccTypeOK
  <2> QED
    BY <2>1, <2>2, DeletionKeeps DEF AdminBan
<1>8. CASE \E p \in AccIds : TokenExpires(p)
  <2>1. UNCHANGED <<accPerson, accSession, accOnboardee, accBan, accHeld>> /\ accTok' \subseteq Living
    BY <1>8 DEF TokenExpires, AccIInv, AccTypeOK
  <2> QED
    BY <2>1 DEF AccIInv, AccTypeOK, HeldOK, InfoOK, AccountsHold, NoStrangerSession,
                OneAccountPerEmail, SleepersAreSignedOut, Living, Linked
<1>9. CASE \E t \in AccTokens : OtpExpires(t)
  BY <1>9, OtpExpiresKeeps
<1>10. CASE \E b \in DOMAIN accBan : BanAges(b)
  <2>1. UNCHANGED <<accPerson, accSession, accOnboardee, accTok, accHeld>>
        /\ accBan' \in [DOMAIN accBan -> {"none", "month", "less", "expired"}]
    BY <1>10 DEF BanAges, AccIInv, AccTypeOK
  <2> QED
    BY <2>1 DEF AccIInv, AccTypeOK, HeldOK, InfoOK, AccountsHold, NoStrangerSession,
                OneAccountPerEmail, SleepersAreSignedOut, Living, Linked
<1>11. CASE CollectAccountGarbage
  <2>1. accBan' \in [DOMAIN accBan -> {"none", "month", "less", "expired"}]
    BY <1>11 DEF CollectAccountGarbage, AccIInv, AccTypeOK
  <2>2. /\ accSession' = [t \in AccTokens |-> accSession'[t]]
        /\ \A t \in AccTokens : accSession'[t] \in {accSession[t], AccNone}
    BY <1>11 DEF CollectAccountGarbage
  <2> QED
    BY <1>11, <2>1, <2>2, FewerSessions DEF CollectAccountGarbage, AccIInv, AccTypeOK
<1>12. CASE AutoDeactivate
  BY <1>12, SleepKeeps
<1>13. CASE UNCHANGED accVars
  BY <1>13 DEF accVars, AccIInv, AccTypeOK, HeldOK, InfoOK, AccountsHold, NoStrangerSession,
               OneAccountPerEmail, SleepersAreSignedOut, Living, Linked
<1> QED
  BY <1>1, <1>2, <1>3, <1>4, <1>5, <1>6, <1>7, <1>8, <1>9, <1>10, <1>11, <1>12, <1>13 DEF AccNext

\* Whoever a row, a token or a held request names has an account, or had one.
THEOREM AccTypeCorrect == AccSpec => []AccTypeOK
<1>1. AccIInv => AccTypeOK
  BY DEF AccIInv
<1> QED
  BY <1>1, AccInitOK, AccStepKeeps, PTL DEF AccSpec

\* However requests of several devices interleave, a session acts for an account
\* of its own mailbox, an address has one account, and nobody who was put to
\* sleep is signed in.
THEOREM AccountsStayWhole == AccSpec => []AccountsHold
<1>1. AccIInv => AccountsHold
  BY DEF AccIInv
<1> QED
  BY <1>1, AccInitOK, AccStepKeeps, PTL DEF AccSpec
====
