----------------------------- MODULE Verification -----------------------------
(***************************************************************************)
(* Selfie verification.  The API stores a selfie and queues a job for it    *)
(* (post_verification_selfie, post_verify); one cron loop reads all queued  *)
(* jobs together with what their owners claim, asks a remote model about    *)
(* each for up to 45 seconds, and writes the result to the job, the person  *)
(* and the photos.  Meanwhile the owner edits the profile, sends further    *)
(* selfies from several devices, photos are scored, and the garbage cron    *)
(* deletes expired jobs and offensive photos.                               *)
(*                                                                         *)
(* All transactions are REPEATABLE READ.  Those that write a `person` row   *)
(* are atomic here, because two of them that overlap on a row cannot both   *)
(* commit; posting a selfie writes no row that two of them share, so it is  *)
(* split into its snapshot and its commit.  Ethnicity is treated like       *)
(* gender by the code, but counts for no level, and is left out.  Of a       *)
(* gender only changes matter, not which it is.                             *)
(***************************************************************************)
EXTENDS Integers, Sequences, FiniteSets, Functions

CONSTANTS
  People,     \* accounts
  PhotoPositions,  \* photo positions
  PhotoUuids,      \* photo uuids: secrets.token_hex, never uuidsDrawn twice
  Selfies,    \* selfies, one per md5 hash
  Edits,      \* subset of {"gender", "add", "delete"}: what the owners do
  Offensive,  \* SUBSET PhotoUuids: photos that score above 0.8
  MaxPosts,   \* bound: how many selfies are being posted at a time
  MaxRunnerRaises   \* bound: how often the runner raises, or its process dies

ASSUME VerificationAssumption ==
  /\ Edits \subseteq {"gender", "add", "delete"}
  /\ Offensive \subseteq PhotoUuids
  /\ MaxPosts \in Nat \ {0} /\ MaxRunnerRaises \in Nat

VARIABLES
  photo,    \* table photo: partial function from <<person, position>>
  person,   \* table person: the columns that verification touches
  jobs,     \* table verification_job: partial function; a job is named by its selfie
  hashes,   \* table verification_photo_hash
  posts,    \* transactions of post_verification_selfie between snapshot and commit
  runnerTodo,     \* verify_once's verification_jobs that are still to be done
  current,  \* {}, or the one job that verify() is awaited for
  uuidsDrawn,    \* uuids that were handed out
  matched,  \* history: <<person, uuid>> that a check found to show the person
  runnerRaises    \* history: exceptions so far, up to MaxRunnerRaises

profile == <<photo, person, uuidsDrawn>>
queue == <<jobs, hashes, posts>>
runner == <<runnerTodo, current>>
history == <<matched, runnerRaises>>
verVars == <<profile, queue, runner, history>>

Photo == [uuid : PhotoUuids, verified : BOOLEAN, offensive : BOOLEAN]
Statuses == {"uploading-photo", "queued", "running", "success", "failure"}

VerInit ==
  /\ photo = [s \in {} |-> {}]
  /\ person \in [People -> [age : {FALSE}, genderOk : {FALSE}, level : {1}]]
  /\ jobs = [s \in {} |-> {}] /\ hashes = {} /\ posts = {}
  /\ runnerTodo = {} /\ current = {} /\ uuidsDrawn = {}
  /\ matched = {} /\ runnerRaises = 0

-----------------------------------------------------------------------------
(* The verification level.                                                  *)

PhotosOf(ph, p) == {s \in DOMAIN ph : s[1] = p}

\* Q_UPDATE_VERIFICATION_LEVEL_ASSIGN, evaluated in a snapshot of photo and person.
Level(ph, who, p) ==
  IF \E s \in PhotosOf(ph, p) : ph[s].verified THEN 3
  ELSE IF who[p].age /\ who[p].genderOk THEN 2
  ELSE 1

\* Q_UPDATE_VERIFICATION_LEVEL, as the second statement of a transaction.
Relevel(ph, who, p) == [who EXCEPT ![p].level = Level(ph, who, p)]

-----------------------------------------------------------------------------
(* The owner's profile edits.                                               *)

\* Mutant of NewPhoto: a replaced photo passes its verification on.
NewPhotoKeepsVerified(s, u) ==
  [uuid |-> u, verified |-> s \in DOMAIN photo /\ photo[s].verified,
   offensive |-> s \in DOMAIN photo /\ photo[s].offensive]

\* The row after the upsert: nsfw_score is not among the columns it sets.
NewPhoto(s, u) ==
  [uuid |-> u, verified |-> FALSE,
   offensive |-> s \in DOMAIN photo /\ photo[s].offensive]

AddPhoto(s, u) ==
  /\ "add" \in Edits /\ u \notin uuidsDrawn
  /\ uuidsDrawn' = uuidsDrawn \cup {u}
  /\ photo' = [t \in DOMAIN photo \cup {s} |-> IF t = s THEN NewPhoto(s, u) ELSE photo[t]]
  /\ person' = Relevel(photo', person, s[1])
  /\ UNCHANGED <<queue, runner, history>>

\* By the owner, or by an administrator's link.
DeletePhoto(s) ==
  /\ "delete" \in Edits /\ s \in DOMAIN photo
  /\ photo' = Restrict(photo, DOMAIN photo \ {s})
  /\ person' = Relevel(photo', person, s[1])
  /\ UNCHANGED <<uuidsDrawn, queue, runner, history>>

\* Mutant of ChangeGender: the level is not brought up to date.
ChangeGenderOnly(p) ==
  /\ "gender" \in Edits
  /\ person' = [person EXCEPT ![p].genderOk = FALSE]
  /\ UNCHANGED <<photo, uuidsDrawn, queue, runner, history>>

ChangeGender(p) ==
  /\ "gender" \in Edits
  /\ person' = Relevel(photo, [person EXCEPT ![p].genderOk = FALSE], p)
  /\ UNCHANGED <<photo, uuidsDrawn, queue, runner, history>>

-----------------------------------------------------------------------------
(* Selfies.                                                                 *)

JobsOf(p) == {j \in DOMAIN jobs : jobs[j].person = p}

BeginSelfie(p, s) ==
  /\ \A t \in posts : <<t.person, t.selfie>> # <<p, s>>
  /\ Cardinality(posts) < MaxPosts
  /\ posts' = posts \cup {[person |-> p, selfie |-> s, known |-> s \in hashes,
                           own |-> Restrict(jobs, JobsOf(p))]}
  /\ UNCHANGED <<profile, jobs, hashes, runner, history>>

\* Another transaction has inserted the same hash, or has changed or deleted a
\* job that this one must change, since the snapshot.
Conflict(t) ==
  \/ t.selfie \in hashes /\ ~t.known
  \/ \E j \in DOMAIN t.own : ~(j \in DOMAIN jobs /\ jobs[j] = t.own[j])

SelfieConflicts(t) ==
  /\ Conflict(t)
  /\ posts' = posts \ {t}
  /\ UNCHANGED <<profile, jobs, hashes, runner, history>>

\* Mutant of NewSelfie: the hash is not recorded.
NewSelfieUnrecorded(t) ==
  /\ ~Conflict(t) /\ ~t.known
  /\ jobs' = [j \in (DOMAIN jobs \ DOMAIN t.own) \cup {t.selfie} |->
                IF j = t.selfie THEN [person |-> t.person, status |-> "uploading-photo"]
                ELSE jobs[j]]
  /\ posts' = posts \ {t}
  /\ UNCHANGED <<profile, hashes, runner, history>>

\* A new hash replaces the jobs in the snapshot by a new one.
NewSelfie(t) ==
  /\ ~Conflict(t) /\ ~t.known
  /\ hashes' = hashes \cup {t.selfie}
  /\ jobs' = [j \in (DOMAIN jobs \ DOMAIN t.own) \cup {t.selfie} |->
                IF j = t.selfie THEN [person |-> t.person, status |-> "uploading-photo"]
                ELSE jobs[j]]
  /\ posts' = posts \ {t}
  /\ UNCHANGED <<profile, runner, history>>

\* A hash that was seen before fails the jobs, whatever they are doing.
ReusedSelfie(t) ==
  /\ ~Conflict(t) /\ t.known
  /\ jobs' = [j \in DOMAIN jobs |->
                IF j \in DOMAIN t.own THEN [jobs[j] EXCEPT !.status = "failure"]
                ELSE jobs[j]]
  /\ posts' = posts \ {t}
  /\ UNCHANGED <<profile, hashes, runner, history>>

PostVerify(p) ==
  LET uploaded == {j \in JobsOf(p) : jobs[j].status = "uploading-photo"} IN
  /\ uploaded # {}
  /\ jobs' = [j \in DOMAIN jobs |->
                IF j \in uploaded THEN [jobs[j] EXCEPT !.status = "queued"] ELSE jobs[j]]
  /\ UNCHANGED <<profile, hashes, posts, runner, history>>

-----------------------------------------------------------------------------
(* The verification job runner.                                             *)

Claim(j) ==
  LET p == jobs[j].person
  IN [job |-> j, person |-> p,
      uuids |-> {photo[s].uuid : s \in PhotosOf(photo, p)}]

ReadQueue ==
  /\ runnerTodo = {} /\ current = {}
  /\ runnerTodo' = {Claim(j) : j \in {k \in DOMAIN jobs : jobs[k].status = "queued"}}
  /\ runnerTodo' # {}
  /\ UNCHANGED <<profile, queue, current, history>>

\* An UPDATE by id, without effect on a job that is gone.
WithStatus(j, status) ==
  [k \in DOMAIN jobs |->
     IF k = j THEN [jobs[k] EXCEPT !.status = status] ELSE jobs[k]]

BeginVerify(c) ==
  /\ current = {} /\ c \in runnerTodo
  /\ current' = {c} /\ runnerTodo' = runnerTodo \ {c}
  /\ jobs' = WithStatus(c.job, "running")
  /\ UNCHANGED <<profile, hashes, posts, history>>

\* Mutant of VerifiedPhotos: the mark is only ever added.
VerifiedPhotosAdded(p, found) ==
  [s \in DOMAIN photo |->
     IF s[1] = p /\ photo[s].uuid \in found THEN [photo[s] EXCEPT !.verified = TRUE]
     ELSE photo[s]]

VerifiedPhotos(p, found) ==
  [s \in DOMAIN photo |->
     IF s[1] = p THEN [photo[s] EXCEPT !.verified = photo[s].uuid \in found]
     ELSE photo[s]]

\* Mutant of ApplySuccess: a job that is gone is treated like one that is there.
ApplySuccessAnyway(c, found) ==
  /\ photo' = VerifiedPhotos(c.person, found)
  /\ person' = [person EXCEPT ![c.person] =
                  [age |-> TRUE, genderOk |-> TRUE, level |-> IF found # {} THEN 3 ELSE 2]]

\* The rest of Q_UPDATE_VERIFICATION_STATUS; the level comes from the result,
\* not from the photos as they are now, and the gender is marked whatever it is
\* by now.
ApplySuccess(c, found) ==
  IF c.job \in DOMAIN jobs
  THEN /\ photo' = VerifiedPhotos(c.person, found)
       /\ person' = [person EXCEPT ![c.person] =
                       [age |-> TRUE, genderOk |-> TRUE, level |-> IF found # {} THEN 3 ELSE 2]]
  ELSE UNCHANGED <<photo, person>>

\* verify() succeeds and finds the person in some of the claimed photos.
JobSucceeds(c, found) ==
  /\ current = {c} /\ found \subseteq c.uuids
  /\ current' = {}
  /\ jobs' = WithStatus(c.job, "success")
  /\ ApplySuccess(c, found)
  /\ matched' = matched \cup ({c.person} \X found)
  /\ UNCHANGED <<uuidsDrawn, hashes, posts, runnerTodo, runnerRaises>>

\* Mutant of JobFails: the outcome is not written down.
JobFailsSilently(c) ==
  /\ current = {c} /\ current' = {}
  /\ UNCHANGED <<profile, queue, runnerTodo, history>>

JobFails(c) ==
  /\ current = {c}
  /\ current' = {}
  /\ jobs' = WithStatus(c.job, "failure")
  /\ UNCHANGED <<profile, hashes, posts, runnerTodo, history>>

\* An exception ends verify_once, print_stacktrace prints it, and the jobs that
\* were read are forgotten; so they are when the cron process dies.
RunnerRaises ==
  /\ runnerTodo # {} \/ current # {}
  /\ runnerRaises < MaxRunnerRaises /\ runnerRaises' = runnerRaises + 1
  /\ runnerTodo' = {} /\ current' = {}
  /\ UNCHANGED <<profile, queue, matched>>

Runner ==
  \/ ReadQueue
  \/ \E c \in runnerTodo : BeginVerify(c)
  \/ \E c \in current : JobFails(c) \/ \E found \in SUBSET c.uuids : JobSucceeds(c, found)

-----------------------------------------------------------------------------
(* The other cron loops.                                                    *)

\* Q_SET_NSFW_SCORE, for a photo that has such a score.
ScorePhoto(s) ==
  /\ s \in DOMAIN photo /\ photo[s].uuid \in Offensive /\ ~photo[s].offensive
  /\ photo' = [photo EXCEPT ![s].offensive = TRUE]
  /\ UNCHANGED <<person, uuidsDrawn, queue, runner, history>>

\* Q_DELETE_GARBAGE_RECORDS is one statement: the level in q10 is evaluated in
\* the snapshot in which the photos that q7 deletes are still there.
DeleteExpiredJobs(expired) ==
  LET bad == {s \in DOMAIN photo : photo[s].offensive}
      owners == {s[1] : s \in bad}
  IN /\ expired \subseteq DOMAIN jobs
     /\ bad # {} \/ expired # {}
     /\ photo' = Restrict(photo, DOMAIN photo \ bad)
     /\ person' = [p \in People |-> IF p \in owners
                                    THEN [person[p] EXCEPT !.level = Level(photo, person, p)]
                                    ELSE person[p]]
     /\ jobs' = Restrict(jobs, DOMAIN jobs \ expired)
     /\ UNCHANGED <<uuidsDrawn, hashes, posts, runner, history>>

VerNext ==
  \/ \E s \in People \X PhotoPositions :
       DeletePhoto(s) \/ ScorePhoto(s) \/ \E u \in PhotoUuids : AddPhoto(s, u)
  \/ \E p \in People :
       \/ PostVerify(p) \/ ChangeGender(p)
       \/ \E s \in Selfies : BeginSelfie(p, s)
  \/ \E t \in posts : SelfieConflicts(t) \/ NewSelfie(t) \/ ReusedSelfie(t)
  \/ Runner \/ RunnerRaises
  \/ \E expired \in SUBSET Selfies : DeleteExpiredJobs(expired)

VerSpec == VerInit /\ [][VerNext]_verVars

\* verify_forever polls once per second, and verify() has a timeout.
VerFairSpec == VerSpec /\ WF_verVars(Runner)

-----------------------------------------------------------------------------
(* Properties.                                                              *)

\* Every variable keeps its type, and photo uuids are unique.
VerTypeOK ==
  /\ DOMAIN photo \subseteq People \X PhotoPositions
  /\ \A s \in DOMAIN photo : photo[s] \in Photo
  /\ \A s, t \in DOMAIN photo : photo[s].uuid = photo[t].uuid => s = t
  /\ person \in [People -> [age : BOOLEAN, genderOk : BOOLEAN, level : 1..3]]
  /\ DOMAIN jobs \subseteq hashes /\ hashes \subseteq Selfies
  /\ \A j \in DOMAIN jobs : jobs[j] \in [person : People, status : Statuses]
  /\ Cardinality(current) <= 1 /\ uuidsDrawn \subseteq PhotoUuids
  /\ runnerRaises \in 0..MaxRunnerRaises

\* A photo carries the verified mark only if a check compared that very image
\* with a selfie of its owner, however photos were replaced, moved under the
\* same position or deleted while the check ran.
VerifiedPhotoWasCompared ==
  \A s \in DOMAIN photo : photo[s].verified => <<s[1], photo[s].uuid>> \in matched

\* The level never lags behind the photos: an owner of a verified photo has the
\* level `Photos` (a partner who requires it is not turned away).
VerifiedPhotoGivesLevel ==
  \A s \in DOMAIN photo : photo[s].verified => person[s[1]].level = 3

\* The level `Basics only` stands for a verified age and a gender that has not
\* been changed since it was marked, `Photos` for a verified age.
LevelHasBasics ==
  \A p \in People : /\ person[p].level = 2 => person[p].age /\ person[p].genderOk
                    /\ person[p].level = 3 => person[p].age

\* All three: no mark and no level outlives what it stands for, but for the
\* level of a last verified photo that is gone (LevelThreeHasPhoto).
MarksAreEarned ==
  VerifiedPhotoWasCompared /\ VerifiedPhotoGivesLevel /\ LevelHasBasics

\* Only a job that still exists, and is reported to its owner as a success, can
\* raise a level: not the late result of a selfie that was replaced meanwhile,
\* and not an edit of the profile.
LevelRisesOnSuccess ==
  [][\A p \in People : person'[p].level > person[p].level =>
       \E j \in DOMAIN jobs' : /\ jobs'[j] = [person |-> p, status |-> "success"]
                               /\ \E c \in current : c.job = j]_verVars

\* A job that was queued ends, or is replaced, unless the runner raises: a job
\* that is running then stays so until it expires.
QueuedJobEnds(j) ==
  (j \in DOMAIN jobs /\ jobs[j].status \in {"queued", "running"}) ~>
    (runnerRaises > 0 \/ (j \in DOMAIN jobs => jobs[j].status \in {"success", "failure"}))

\* The level `Photos` means that at least one photo is verified: removing the
\* last one costs the level (test/functionality1/profile-info.sh:393-398).
LevelThreeHasPhoto ==
  \A p \in People : person[p].level = 3 =>
    \E s \in PhotosOf(photo, p) : photo[s].verified

=============================================================================
