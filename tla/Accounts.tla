------------------------------ MODULE Accounts ------------------------------
(* Sign-in, onboarding, bans and the end of accounts: the tables person,      *)
(* duo_session, onboardee, banned_person and banned_person_admin_token, with   *)
(* the transactions of the API's workers and of two cron jobs on them.         *)
(* An incomplete onboardee and none behave alike (finishing fails, the next    *)
(* field is upserted), so accOnboardee holds the addresses with a complete one. *)
(*                                                                             *)
(* A request authenticates in one transaction and acts in a second one, with   *)
(* the SessionInfo of the first.  One request at a time may lie between the    *)
(* two (accHeld) while others run; the others act right after authenticating.  *)
EXTENDS Naturals, FiniteSets

CONSTANTS AccEmails,   \* addresses as they are typed
          AccNorm,     \* normalize_email, as a function on AccEmails
          AccTokens,   \* session tokens
          AccIp,       \* the address each token's requests come from
          AccIds,      \* person.id, a serial: 1..n
          AccSlow,     \* the operations whose requests may be held
          AccBots,     \* the ids with the role `bot`, which only SQL grants
          AccNone, AccGone,   \* NULL, and a row that was deleted
          AccLocal           \* '127.0.0.1'

ASSUME AccAssumption ==
  /\ AccNone \notin AccIds /\ AccNone # AccGone
  /\ {AccNone, AccGone} \cap [email : AccEmails, active : {"yes", "user", "cron"}] = {}
  /\ AccNone \notin [email : AccEmails, pid : AccIds \cup {AccNone}, otp : BOOLEAN, signed : BOOLEAN]

VARIABLES accPerson, accSession, accOnboardee, accBan, accTok, accHeld

accVars == <<accPerson, accSession, accOnboardee, accBan, accTok, accHeld>>

AccIps == {AccIp[t] : t \in AccTokens} \cup {AccLocal}
Living == {p \in AccIds : accPerson[p] \notin {AccNone, AccGone}}
Unused == {p \in AccIds : accPerson[p] = AccNone}
Linked(p) == {t \in AccTokens : accSession[t] # AccNone /\ accSession[t].pid = p}

AccOps == {"resend-otp", "check-otp", "sign-out", "patch-onboardee",
           "finish-onboarding", "deactivate", "delete"}

AccTypeOK ==
  /\ accPerson \in [AccIds -> {AccNone, AccGone}
        \cup [email : AccEmails, active : {"yes", "user", "cron"}]]
  /\ accSession \in [AccTokens -> {AccNone}
        \cup [email : AccEmails, pid : AccIds \cup {AccNone},
              otp : BOOLEAN, signed : BOOLEAN]]
  /\ \A t \in AccTokens : accSession[t] # AccNone =>
        accSession[t].pid \in Living \cup {AccNone}
  /\ accOnboardee \subseteq AccEmails
  /\ accBan \in [AccIps \X {AccNorm[e] : e \in AccEmails} -> {"none", "month", "less", "expired"}]
  /\ accTok \subseteq Living

AccInit ==
  /\ accPerson = [p \in AccIds |-> AccNone]
  /\ accSession = [t \in AccTokens |-> AccNone]
  /\ accOnboardee = {}
  /\ accBan = [b \in AccIps \X {AccNorm[e] : e \in AccEmails} |-> "none"]
  /\ accTok = {}
  /\ accHeld = AccNone

-----------------------------------------------------------------------------
(* Authentication.                                                             *)

Info(t, op) == [op |-> op, token |-> t, email |-> accSession[t].email,
                pid |-> accSession[t].pid]

\* What each route asks of onboarding and sign-in status.
Expects(op, onboarded, signed) ==
  CASE op \in {"resend-otp", "check-otp"}              -> ~signed
    [] op = "sign-out"                                 -> signed
    [] op \in {"patch-onboardee", "finish-onboarding"} -> signed /\ ~onboarded
    [] OTHER                                           -> signed /\ onboarded

Authorised(t, op) ==
  /\ accSession[t] # AccNone
  /\ Expects(op, accSession[t].pid # AccNone, accSession[t].signed)

IsBanned(e, t) == \E b \in DOMAIN accBan :
  accBan[b] \in {"month", "less"} /\ (b[1] = AccIp[t] \/ b[2] = AccNorm[e])

\* The account a new session is linked to: the one with this very address if
\* there is one, else one whose address normalises to the same.
AccountOf(e) ==
  LET same == {p \in Living : AccNorm[accPerson[p].email] = AccNorm[e]}
      own  == {p \in same : accPerson[p].email = e}
  IN  IF same = {} THEN AccNone
      ELSE IF own # {} THEN CHOOSE p \in own : TRUE ELSE CHOOSE p \in same : TRUE

-----------------------------------------------------------------------------
(* The handlers.  i is the SessionInfo they were called with.                  *)

\* Q_INSERT_DUO_SESSION, up to its commit: what it read of person and
\* banned_person.  The new row is held until InsertSession.
RequestOtp(t, e) ==
  /\ accSession[t] = AccNone /\ accHeld = AccNone /\ ~IsBanned(e, t)
  /\ accHeld' = [op |-> "request-otp", token |-> t, email |-> e, pid |-> AccountOf(e)]
  /\ UNCHANGED <<accPerson, accSession, accOnboardee, accBan, accTok>>

\* Its commit: refused by the foreign key if the account has gone meanwhile.
InsertSession(i) ==
  /\ i.pid \in Living \cup {AccNone}
  /\ accSession' = [accSession EXCEPT ![i.token] =
        [email |-> i.email, pid |-> i.pid, otp |-> TRUE, signed |-> FALSE]]
  /\ UNCHANGED <<accPerson, accOnboardee, accBan, accTok>>

ResendOtp(i) ==
  /\ accSession[i.token] # AccNone /\ ~IsBanned(i.email, i.token)
  /\ accSession' = [accSession EXCEPT ![i.token].otp = TRUE]
  /\ UNCHANGED <<accPerson, accOnboardee, accBan, accTok>>

\* The two statements of /check-otp with the right code.  The first one signs
\* the session in and deletes the onboardee; the second one, which asks that
\* the account is no bot, activates the account or starts onboarding.
AccCheckOtp(i) ==
  LET s == accSession[i.token]  bot == s.pid \in AccBots IN
  /\ s # AccNone /\ s.otp
  /\ accSession' = [accSession EXCEPT ![i.token].signed = TRUE]
  /\ accOnboardee' = accOnboardee \ {s.email}
  /\ accPerson' = IF s.pid = AccNone \/ bot THEN accPerson
                  ELSE [accPerson EXCEPT ![s.pid].active = "yes"]
  /\ UNCHANGED <<accBan, accTok>>

SignOut(i) ==
  /\ accSession' = [accSession EXCEPT ![i.token] = AccNone]
  /\ UNCHANGED <<accPerson, accOnboardee, accBan, accTok>>

\* One field of the onboardee, the last that was missing; the row is inserted
\* if there is none.
PatchOnboardee(i) ==
  /\ accOnboardee' = accOnboardee \cup {i.email}
  /\ UNCHANGED <<accPerson, accSession, accBan, accTok>>

\* Mutant of EmailIsFree: the index is missing.
EmailIsFreeAnyway(e) == e \in AccEmails

\* UNIQUE(email) of person.
EmailIsFree(e) == \A p \in Living : accPerson[p].email # e

\* Without a complete onboardee, or with the address taken, the transaction
\* fails and nothing changes.
AccFinishOnboarding(i) ==
  /\ i.email \in accOnboardee /\ EmailIsFree(i.email)
  /\ \E p \in Unused :
        /\ \A q \in Unused : p <= q
        /\ accPerson' = [accPerson EXCEPT ![p] =
              [email |-> i.email, active |-> "yes"]]
        /\ accSession' = [t \in AccTokens |->
              IF accSession[t] # AccNone /\ accSession[t].email = i.email
              THEN [accSession[t] EXCEPT !.pid = p] ELSE accSession[t]]
  /\ accOnboardee' = accOnboardee \ {i.email}
  /\ UNCHANGED <<accBan, accTok>>

PostDeactivate(i) ==
  /\ i.pid \in Living /\ accPerson[i.pid].active = "yes"
  /\ accPerson' = [accPerson EXCEPT ![i.pid].active = "user"]
  /\ UNCHANGED <<accSession, accOnboardee, accBan, accTok>>

\* Q_DELETE_ACCOUNT; sessions and tokens go by ON DELETE CASCADE.
DeletePerson(p) ==
  /\ p \in Living
  /\ accPerson' = [accPerson EXCEPT ![p] = AccGone]
  /\ accSession' = [t \in AccTokens |-> IF t \in Linked(p) THEN AccNone ELSE accSession[t]]
  /\ accTok' = accTok \ {p}

AccDeleteAccount(i) == DeletePerson(i.pid) /\ UNCHANGED <<accOnboardee, accBan>>

Handle(i) ==
  \/ i.op = "request-otp" /\ InsertSession(i)
  \/ i.op = "resend-otp" /\ ResendOtp(i)
  \/ i.op = "check-otp" /\ AccCheckOtp(i)
  \/ i.op = "sign-out" /\ SignOut(i)
  \/ i.op = "patch-onboardee" /\ PatchOnboardee(i)
  \/ i.op = "finish-onboarding" /\ AccFinishOnboarding(i)
  \/ i.op = "deactivate" /\ PostDeactivate(i)
  \/ i.op = "delete" /\ AccDeleteAccount(i)

\* A request that acts at once, one that is held between its transactions, the
\* end of the held one, and its failure (an error answer, nothing written).
\* While a token has a held request its slot is not given to a new session.
Request(t, op) == Authorised(t, op) /\ Handle(Info(t, op)) /\ UNCHANGED accHeld

Hold(t, op) ==
  /\ op \in AccSlow /\ accHeld = AccNone /\ Authorised(t, op)
  /\ accHeld' = Info(t, op)
  /\ UNCHANGED <<accPerson, accSession, accOnboardee, accBan, accTok>>

Resume == accHeld # AccNone /\ Handle(accHeld) /\ accHeld' = AccNone

Fail == /\ accHeld # AccNone /\ accHeld' = AccNone
        /\ UNCHANGED <<accPerson, accSession, accOnboardee, accBan, accTok>>

-----------------------------------------------------------------------------
(* Reports and the links that ban.                                             *)

\* A report gives the moderators a link that bans the reporter and one that
\* bans the accused.
MakeReport(p, q) ==
  /\ p \in Living /\ q \in Living /\ p # q
  /\ accTok' = accTok \cup {p, q}
  /\ UNCHANGED <<accPerson, accSession, accOnboardee, accBan, accHeld>>

BannedRows(p) ==
  LET from == IF Linked(p) = {} THEN {AccLocal} ELSE {AccIp[t] : t \in Linked(p)}
  IN  from \X {AccNorm[accPerson[p].email]}

\* ON CONFLICT DO NOTHING: a row that is there stays as it is.
AdminBan(p) ==
  /\ p \in accTok
  /\ accBan' = [b \in DOMAIN accBan |->
        IF b \in BannedRows(p) /\ accBan[b] = "none" THEN "month" ELSE accBan[b]]
  /\ DeletePerson(p)
  /\ UNCHANGED <<accOnboardee, accHeld>>

-----------------------------------------------------------------------------
(* Time and cron.                                                              *)

TokenExpires(p) ==
  /\ p \in accTok /\ accTok' = accTok \ {p}
  /\ UNCHANGED <<accPerson, accSession, accOnboardee, accBan, accHeld>>

\* The code of a session that has signed in is not used again.
OtpExpires(t) ==
  /\ accSession[t] # AccNone /\ accSession[t].otp /\ ~accSession[t].signed
  /\ accSession' = [accSession EXCEPT ![t].otp = FALSE]
  /\ UNCHANGED <<accPerson, accOnboardee, accBan, accTok, accHeld>>

\* A ban of one month has less than a month left, then none.
BanAges(b) ==
  /\ accBan[b] \in {"month", "less"}
  /\ accBan' = [accBan EXCEPT ![b] = IF @ = "month" THEN "less" ELSE "expired"]
  /\ UNCHANGED <<accPerson, accSession, accOnboardee, accTok, accHeld>>

\* The garbage job's part: expired bans, and onboardees and sessions that are
\* old enough (any of them may be).
CollectAccountGarbage ==
  /\ accBan' = [b \in DOMAIN accBan |-> IF accBan[b] = "expired" THEN "none" ELSE accBan[b]]
  /\ accOnboardee' \in SUBSET accOnboardee
  /\ \E ts \in SUBSET {t \in AccTokens : accSession[t] # AccNone} :
        accSession' = [t \in AccTokens |-> IF t \in ts THEN AccNone ELSE accSession[t]]
  /\ UNCHANGED <<accPerson, accTok, accHeld>>

\* Mutant of AutoDeactivate: the sessions stay.
AutoDeactivateOnly ==
  /\ \E idle \in SUBSET {p \in Living : accPerson[p].active = "yes"} :
        /\ idle # {}
        /\ accPerson' = [p \in AccIds |->
              IF p \in idle THEN [accPerson[p] EXCEPT !.active = "cron"] ELSE accPerson[p]]
  /\ UNCHANGED <<accSession, accOnboardee, accBan, accTok, accHeld>>

\* Q_DEACTIVATE: the active accounts that were last online 30 to 50 days ago
\* (any of them may be) fall asleep and lose their sessions.
AutoDeactivate ==
  /\ \E idle \in SUBSET {p \in Living : accPerson[p].active = "yes"} :
        /\ idle # {}
        /\ accPerson' = [p \in AccIds |->
              IF p \in idle THEN [accPerson[p] EXCEPT !.active = "cron"] ELSE accPerson[p]]
        /\ accSession' = [t \in AccTokens |->
              IF \E p \in idle : t \in Linked(p) THEN AccNone ELSE accSession[t]]
  /\ UNCHANGED <<accOnboardee, accBan, accTok, accHeld>>

AccNext ==
  \/ \E t \in AccTokens, e \in AccEmails : RequestOtp(t, e)
  \/ \E t \in AccTokens, op \in AccOps : Request(t, op) \/ Hold(t, op)
  \/ Resume \/ Fail
  \/ \E p, q \in AccIds : MakeReport(p, q)
  \/ \E p \in AccIds : AdminBan(p) \/ TokenExpires(p)
  \/ \E t \in AccTokens : OtpExpires(t)
  \/ \E b \in DOMAIN accBan : BanAges(b)
  \/ CollectAccountGarbage \/ AutoDeactivate

AccSpec == AccInit /\ [][AccNext]_accVars

-----------------------------------------------------------------------------
(* Properties.                                                                 *)

\* A session acts for an account of its own address only, whichever of two
\* accounts of one mailbox it was linked to, by the request for a code or by
\* another session's onboarding.
NoStrangerSession == \A p \in Living, t \in AccTokens :
  t \in Linked(p) => AccNorm[accSession[t].email] = AccNorm[accPerson[p].email]

\* Two devices that onboard with one address, and a request that was held
\* while the other finished, leave one account of the address.
OneAccountPerEmail == \A p, q \in Living :
  accPerson[p].email = accPerson[q].email => p = q

\* An account that was put to sleep for being idle has no signed-in session
\* until somebody signs in to it, which wakes it up: nobody uses the service
\* invisible without having chosen to.
SleepersAreSignedOut == \A p \in Living \ AccBots : accPerson[p].active = "cron" =>
  \A t \in Linked(p) : ~accSession[t].signed

\* All three: however requests interleave, accounts and sessions belong together.
AccountsHold == NoStrangerSession /\ OneAccountPerEmail /\ SleepersAreSignedOut

\* "Ban ACCUSED user for one month": a ban that has just been carried out is in
\* force for a month, for the address and for every place it was used from.
BanLastsAMonth == [][\A p \in AccIds : AdminBan(p) =>
  \A b \in BannedRows(p) : accBan'[b] = "month"]_accVars
=============================================================================
