---------------------------- MODULE PhotosProofs ----------------------------
(***************************************************************************)
(* Machine-checked proofs about PhotoStore and Verification, for any number *)
(* of accounts, positions, pictures and selfies, any chunk size, all        *)
(* requests and all edits; and that the specification that the run Photos   *)
(* checks inherits them.                                                    *)
(***************************************************************************)
EXTENDS MCPhotos, FiniteSetTheorems, TLAPS

-----------------------------------------------------------------------------
(* PhotoStore.                                                              *)

\* The inductive invariant.  That a picture in use is not to be deleted rests on
\* its having one row only (or dropping one row would condemn the other) and on
\* uuids being drawn once; what the cleaner holds was recorded; what was drawn is
\* accounted for.
Recorded ==
  /\ UuidsOf(rows) \subseteq drawn /\ undeleted \subseteq drawn /\ cleaned \subseteq drawn
  /\ UuidsOf(rows) \cap (undeleted \cup cleaned) = {}
  /\ todo \cup chunk \subseteq undeleted \cup cleaned
  /\ drawn \subseteq UuidsOf(rows) \cup undeleted \cup cleaned \cup lost

StoreInv == TypeOK /\ Recorded /\ OneRowPerPicture

-----------------------------------------------------------------------------
(* Steps on the rows.                                                       *)

\* Replacing rows by at most one new row whose uuid was just drawn.
LEMMA ReplaceStep ==
  ASSUME StoreInv, NEW old \in SUBSET rows, NEW new \in SUBSET Row,
         rows' = (rows \ old) \cup new,
         undeleted' = undeleted \cup UuidsOf(old),
         UuidsOf(new) \cap drawn = {}, \A r, s \in new : r = s,
         drawn' = drawn \cup UuidsOf(new),
         UNCHANGED <<lost, cleaned, todo, chunk>>
  PROVE  Recorded' /\ OneRowPerPicture'
<1> USE DEF StoreInv, Recorded, OneRowPerPicture, UuidsOf
<1>1. OneRowPerPicture'
  OBVIOUS
<1>2. \A r \in rows' : r.uuid \notin undeleted' \cup cleaned'
  OBVIOUS
<1>3. UuidsOf(rows)' \subseteq drawn' /\ undeleted' \subseteq drawn' /\ cleaned' \subseteq drawn'
  OBVIOUS
<1>4. (todo \cup chunk \subseteq undeleted \cup cleaned)'
  OBVIOUS
<1>5. drawn' \subseteq UuidsOf(rows)' \cup undeleted' \cup cleaned' \cup lost'
  <2>1. UuidsOf(rows) \subseteq UuidsOf(rows') \cup UuidsOf(old)
    OBVIOUS
  <2>2. UuidsOf(new) \subseteq UuidsOf(rows')
    OBVIOUS
  <2> QED
    BY <2>1, <2>2
<1> QED
  BY <1>1, <1>2, <1>3, <1>4, <1>5

\* Dropping rows without recording them, as the cascade does.
LEMMA DropStep ==
  ASSUME StoreInv, rows' \subseteq rows, lost' = lost \cup UuidsOf(rows \ rows'),
         UNCHANGED <<undeleted, drawn, cleaned, todo, chunk>>
  PROVE  Recorded' /\ OneRowPerPicture'
  BY DEF StoreInv, Recorded, OneRowPerPicture, UuidsOf

-----------------------------------------------------------------------------
LEMMA InitStoreInv == Init => StoreInv
<1>1. Cardinality({}) = 0
  BY FS_EmptySet
<1> QED
  BY <1>1, PhotoStoreAssumption
     DEF PhotoStoreAssumption, Init, StoreInv, TypeOK, Recorded, OneRowPerPicture, UuidsOf

LEMMA NextStoreInv == StoreInv /\ [Next]_vars => StoreInv'
<1> SUFFICES ASSUME StoreInv, [Next]_vars PROVE StoreInv'
  OBVIOUS
<1> USE PhotoStoreAssumption DEF PhotoStoreAssumption, database, handlers, cleaner
<1>a. TypeOK /\ Recorded /\ OneRowPerPicture
  BY DEF StoreInv
<1>1. ASSUME NEW e \in Emails, CheckOtp(e) PROVE StoreInv'
  <2>0. UuidsOf(RowsOf("onboardee", e)) \subseteq Uuids
    BY <1>a DEF RowsOf, UuidsOf, TypeOK, Row
  <2>1. TypeOK'
    BY <1>1, <2>0, <1>a DEF CheckOtp, TypeOK
  <2>2. rows' \subseteq rows /\ rows \ rows' = RowsOf("onboardee", e)
    BY <1>1 DEF CheckOtp, RowsOf
  <2> QED
    BY <1>1, <2>1, <2>2, DropStep DEF CheckOtp, StoreInv
<1>2. ASSUME NEW e \in Emails, NEW p \in Positions, NEW u \in Uuids, PatchOnboardeePhoto(e, p, u)
      PROVE  StoreInv'
  <2> DEFINE new == {[kind |-> "onboardee", owner |-> e, pos |-> p, uuid |-> u]}
  <2>1. /\ new \subseteq Row /\ UuidsOf(new) = {u} /\ \A r, s \in new : r = s
        /\ At("onboardee", e, p) \subseteq rows
    BY DEF Row, Kinds, UuidsOf, At, RowsOf
  <2>2. /\ u \notin drawn /\ drawn' = drawn \cup {u} /\ puts' = puts \cup {u}
        /\ rows' = (rows \ At("onboardee", e, p)) \cup new
        /\ undeleted' = undeleted \cup UuidsOf(At("onboardee", e, p))
        /\ UNCHANGED <<onboardees, people, lost, store, todo, chunk, cleaned, raises>>
    BY <1>2 DEF PatchOnboardeePhoto, StartPut, Replace
  <2> HIDE DEF new
  <2>3. UuidsOf(At("onboardee", e, p)) \subseteq Uuids
    BY <2>1, <1>a DEF TypeOK, Row, UuidsOf
  <2>4. TypeOK'
    BY <2>1, <2>2, <2>3, <1>a DEF TypeOK
  <2> QED
    BY <2>1, <2>2, <2>4, ReplaceStep DEF StoreInv
<1>3. ASSUME NEW e \in Emails, NEW p \in Positions,
             DeleteOnboardeePhoto(e, p) \/ DeleteProfilePhoto(e, p)
      PROVE  StoreInv'
  <2>1. PICK old \in SUBSET rows :
          /\ rows' = (rows \ old) \cup {} /\ undeleted' = undeleted \cup UuidsOf(old)
          /\ UNCHANGED <<onboardees, people, lost, handlers, store, cleaner>>
    BY <1>3 DEF DeleteOnboardeePhoto, DeleteProfilePhoto, Replace, At, RowsOf
  <2>2. UuidsOf(old) \subseteq Uuids /\ UuidsOf({}) = {}
    BY <1>a DEF TypeOK, Row, UuidsOf
  <2>3. TypeOK'
    BY <2>1, <2>2, <1>a DEF TypeOK
  <2> QED
    BY <2>1, <2>2, <2>3, ReplaceStep DEF StoreInv
<1>4. ASSUME NEW e \in Emails, FinishOnboarding(e) PROVE StoreInv'
  <2>1. /\ rows' = Promoted(e) /\ people' = people \cup {e} /\ onboardees' = onboardees \ {e}
        /\ UNCHANGED <<undeleted, lost, handlers, store, cleaner>>
    BY <1>4 DEF FinishOnboarding
  <2>2. ASSUME NEW r \in rows'
        PROVE  \E s \in rows : /\ r.uuid = s.uuid
                               /\ \/ r = s
                                  \/ s \in RowsOf("onboardee", e) /\ r = [s EXCEPT !.kind = "photo"]
    <3>1. CASE r \in rows
      BY <3>1
    <3>2. CASE r \notin rows
      <4>1. PICK s \in RowsOf("onboardee", e) : r = [s EXCEPT !.kind = "photo"]
        BY <2>1, <3>2 DEF Promoted
      <4>2. s \in rows /\ s \in Row
        BY <1>a DEF RowsOf, TypeOK
      <4>3. r.uuid = s.uuid
        BY <4>1, <4>2 DEF Row
      <4> QED
        BY <4>1, <4>2, <4>3
    <3> QED
      BY <3>1, <3>2
  <2>3. rows' \subseteq Row
    BY <2>1, <1>a DEF Promoted, RowsOf, TypeOK, Row, Kinds
  <2>4. TypeOK'
    BY <2>1, <2>3, <1>a DEF TypeOK
  <2>5. Recorded'
    <3>1. ASSUME NEW s \in rows PROVE \E r \in rows' : r.uuid = s.uuid
      <4>1. CASE s \in RowsOf("onboardee", e)
        <5>1. [s EXCEPT !.kind = "photo"] \in rows'
          BY <2>1, <4>1 DEF Promoted
        <5>2. [s EXCEPT !.kind = "photo"].uuid = s.uuid
          BY <1>a DEF TypeOK, Row
        <5> QED
          BY <5>1, <5>2
      <4>2. CASE s \notin RowsOf("onboardee", e)
        BY <2>1, <4>2 DEF Promoted
      <4> QED
        BY <4>1, <4>2
    <3>2. UuidsOf(rows) = UuidsOf(rows')
      BY <2>2, <3>1 DEF UuidsOf
    <3>3. UuidsOf(rows)' = UuidsOf(rows')
      BY DEF UuidsOf
    <3> QED
      BY <2>1, <3>2, <3>3, <1>a DEF Recorded
  <2>6. OneRowPerPicture'
    <3> SUFFICES ASSUME NEW r \in rows', NEW t \in rows', r.uuid = t.uuid PROVE r = t
      BY DEF OneRowPerPicture
    <3>1. \A x \in rows' : x \notin RowsOf("onboardee", e)
      BY <2>1, <1>a DEF Promoted, RowsOf, TypeOK, Row
    <3>2. PICK a \in rows : /\ r.uuid = a.uuid
                            /\ \/ r = a
                               \/ a \in RowsOf("onboardee", e) /\ r = [a EXCEPT !.kind = "photo"]
      BY <2>2
    <3>3. PICK b \in rows : /\ t.uuid = b.uuid
                            /\ \/ t = b
                               \/ b \in RowsOf("onboardee", e) /\ t = [b EXCEPT !.kind = "photo"]
      BY <2>2
    <3>4. a = b
      BY <3>2, <3>3, <1>a DEF OneRowPerPicture
    <3> QED
      BY <3>1, <3>2, <3>3, <3>4
  <2> QED
    BY <2>4, <2>5, <2>6 DEF StoreInv
<1>5. ASSUME NEW e \in Emails, NEW p \in Positions, NEW u \in Uuids, PatchProfilePhoto(e, p, u)
      PROVE  StoreInv'
  <2> DEFINE new == {[kind |-> "photo", owner |-> e, pos |-> p, uuid |-> u]}
  <2>1. /\ new \subseteq Row /\ UuidsOf(new) = {u} /\ \A r, s \in new : r = s
        /\ At("photo", e, p) \subseteq rows
    BY DEF Row, Kinds, UuidsOf, At, RowsOf
  <2>2. /\ u \notin drawn /\ drawn' = drawn \cup {u} /\ puts' = puts \cup {u}
        /\ rows' = (rows \ At("photo", e, p)) \cup new
        /\ undeleted' = undeleted \cup UuidsOf(At("photo", e, p))
        /\ UNCHANGED <<onboardees, people, lost, store, todo, chunk, cleaned, raises>>
    BY <1>5 DEF PatchProfilePhoto, StartPut, Replace
  <2> HIDE DEF new
  <2>3. UuidsOf(At("photo", e, p)) \subseteq Uuids
    BY <2>1, <1>a DEF TypeOK, Row, UuidsOf
  <2>4. TypeOK'
    BY <2>1, <2>2, <2>3, <1>a DEF TypeOK
  <2> QED
    BY <2>1, <2>2, <2>4, ReplaceStep DEF StoreInv
<1>6. ASSUME NEW e \in Emails, NEW u \in Uuids, NEW old \in SUBSET RowsOf("selfie", e),
             PostSelfie(e, u, old)
      PROVE  StoreInv'
  <2>1. PICK p \in Positions :
          /\ u \notin drawn /\ drawn' = drawn \cup {u} /\ puts' = puts \cup {u}
          /\ rows' = (rows \ old) \cup {[kind |-> "selfie", owner |-> e, pos |-> p, uuid |-> u]}
          /\ undeleted' = undeleted \cup UuidsOf(old)
          /\ UNCHANGED <<onboardees, people, lost, store, todo, chunk, cleaned, raises>>
    BY <1>6 DEF PostSelfie, StartPut, Replace
  <2> DEFINE new == {[kind |-> "selfie", owner |-> e, pos |-> p, uuid |-> u]}
  <2>2. new \subseteq Row /\ UuidsOf(new) = {u} /\ \A r, s \in new : r = s
    BY DEF Row, Kinds, UuidsOf
  <2>3. rows' = (rows \ old) \cup new
    BY <2>1
  <2> HIDE DEF new
  <2>4. old \subseteq rows /\ UuidsOf(old) \subseteq Uuids
    BY <1>a DEF TypeOK, Row, UuidsOf, RowsOf
  <2>5. TypeOK'
    BY <2>1, <2>2, <2>3, <2>4, <1>a DEF TypeOK
  <2> QED
    BY <2>1, <2>2, <2>3, <2>4, <2>5, ReplaceStep DEF StoreInv
<1>7. ASSUME NEW e \in Emails, NEW u \in Uuids, PostReusedSelfie(e, u) \/ PutUnsaved(e, u)
      PROVE  StoreInv'
  BY <1>7, <1>a DEF PostReusedSelfie, PutUnsaved, StartPut, TypeOK, Recorded, OneRowPerPicture, UuidsOf, StoreInv
<1>8. ASSUME NEW e \in Emails, DeleteAccount(e) PROVE StoreInv'
  <2>1. /\ rows' = (rows \ OwnedBy(e)) \cup {} /\ undeleted' = undeleted \cup UuidsOf(OwnedBy(e))
        /\ people' = people \ {e} /\ UNCHANGED <<onboardees, lost, handlers, store, cleaner>>
    BY <1>8 DEF DeleteAccount, OwnedBy
  <2>2. OwnedBy(e) \subseteq rows /\ UuidsOf(OwnedBy(e)) \subseteq Uuids /\ UuidsOf({}) = {}
    BY <1>a DEF OwnedBy, RowsOf, TypeOK, Row, UuidsOf
  <2>3. TypeOK'
    BY <2>1, <2>2, <1>a DEF TypeOK
  <2> QED
    BY <2>1, <2>2, <2>3, ReplaceStep DEF StoreInv
<1>9. ASSUME NEW u \in Uuids, PutObject(u) \/ PutEnds(u) PROVE StoreInv'
  BY <1>9, <1>a DEF PutObject, PutEnds, TypeOK, Recorded, OneRowPerPicture, UuidsOf, StoreInv
<1>10. ASSUME NEW expired \in SUBSET onboardees, NEW bad \in SUBSET rows,
              DeleteGarbage(expired, bad)
       PROVE  StoreInv'
  <2>1. PICK old \in SUBSET rows :
          /\ rows' = (rows \ old) \cup {} /\ undeleted' = undeleted \cup UuidsOf(old)
          /\ onboardees' = onboardees \ expired
          /\ UNCHANGED <<people, lost, handlers, store, cleaner>>
    BY <1>10 DEF DeleteGarbage, Replace
  <2>2. UuidsOf(old) \subseteq Uuids /\ UuidsOf({}) = {}
    BY <1>a DEF TypeOK, Row, UuidsOf
  <2>3. TypeOK'
    BY <2>1, <2>2, <1>a DEF TypeOK
  <2> QED
    BY <2>1, <2>2, <2>3, ReplaceStep DEF StoreInv
<1>11. CASE ReadUndeleted
  BY <1>11, <1>a DEF ReadUndeleted, TypeOK, Recorded, OneRowPerPicture, UuidsOf, StoreInv
<1>12. CASE MarkDeleted
  <2>1. Cardinality({}) = 0
    BY FS_EmptySet
  <2> QED
    BY <1>12, <2>1, <1>a DEF MarkDeleted, TypeOK, Recorded, OneRowPerPicture, UuidsOf, StoreInv
<1>13. ASSUME NEW C \in Chunks, DeleteObjects(C) PROVE StoreInv'
  BY <1>13, <1>a DEF DeleteObjects, Chunks, TypeOK, Recorded, OneRowPerPicture, UuidsOf, StoreInv
<1>14. ASSUME NEW C \in Chunks, NEW gone \in SUBSET C, DeleteObjectsErrs(C, gone) PROVE StoreInv'
  BY <1>14, <1>a DEF DeleteObjectsErrs, Chunks, TypeOK, Recorded, OneRowPerPicture, UuidsOf, StoreInv
<1>15. CASE CleanerRaises
  <2>1. Cardinality({}) = 0
    BY FS_EmptySet
  <2> QED
    BY <1>15, <2>1, <1>a DEF CleanerRaises, TypeOK, Recorded, OneRowPerPicture, UuidsOf, StoreInv
<1>16. CASE UNCHANGED vars
  BY <1>16, <1>a DEF vars, TypeOK, Recorded, OneRowPerPicture, UuidsOf, StoreInv
<1> QED
  BY <1>1, <1>2, <1>3, <1>4, <1>5, <1>6, <1>7, <1>8, <1>9, <1>10, <1>11, <1>12,
     <1>13, <1>14, <1>15, <1>16 DEF Next, CleanUp

LEMMA StoreInvariant == Spec => []StoreInv
  BY InitStoreInv, NextStoreInv, PTL DEF Spec

\* A picture has at most one row, however sign-ins, edits, selfies, account
\* deletions and garbage collections interleave: undeleted_photo's primary key is
\* never violated by a second record of the same uuid.
THEOREM PicturesHaveOneRow == Spec => []OneRowPerPicture
<1>1. StoreInv => OneRowPerPicture
  BY DEF StoreInv
<1> QED
  BY StoreInvariant, <1>1, PTL

\* The cleaner never deletes the objects of a picture that a member, an onboardee
\* or a verification job still refers to.
THEOREM CleanerSparesUsedPhotos == Spec => []UsedPhotosAreSafe
<1>1. StoreInv => UsedPhotosAreSafe
  BY DEF StoreInv, Recorded, UsedPhotosAreSafe
<1> QED
  BY StoreInvariant, <1>1, PTL

\* However requests interleave with the cleaner and its failures, every stored
\* object is known to the database, was put too late, or was lost in one of the
\* three ways that the model marks: with a second onboarding, as a selfie sent
\* again, or by a COMMIT that failed unnoticed.
THEOREM EveryLossIsKnown == Spec => []LossesAreKnown
<1>1. StoreInv => LossesAreKnown
  BY DEF StoreInv, TypeOK, Recorded, LossesAreKnown
<1> QED
  BY StoreInvariant, <1>1, PTL

-----------------------------------------------------------------------------
(* Verification.                                                            *)

\* VerTypeOK is not inductive: the cardinality of current hides that it is a
\* singleton, a photo's uuid must be one that was drawn (or a new photo could
\* share it), and what transactions and the runner hold must be typed too.
VerTypes ==
  /\ DOMAIN photo \subseteq People \X PhotoPositions
  /\ \A s \in DOMAIN photo : photo[s] \in Photo /\ photo[s].uuid \in uuidsDrawn
  /\ \A s, t \in DOMAIN photo : photo[s].uuid = photo[t].uuid => s = t
  /\ person \in [People -> [age : BOOLEAN, genderOk : BOOLEAN, level : 1..3]]
  /\ DOMAIN jobs \subseteq hashes /\ hashes \subseteq Selfies
  /\ \A j \in DOMAIN jobs : jobs[j] \in [person : People, status : Statuses]
  /\ uuidsDrawn \subseteq PhotoUuids
  /\ runnerRaises \in 0..MaxRunnerRaises

\* The transactions and the runner.  A job is named by a selfie whose hash is
\* never forgotten: the job that a claim was made from, while it exists, is still
\* the same person's.
VerActors ==
  /\ current = {} \/ \E c : current = {c}
  /\ \A t \in posts : t.person \in People /\ t.selfie \in Selfies
  /\ \A c \in runnerTodo \cup current :
       /\ c.person \in People /\ c.job \in hashes
       /\ c.job \in DOMAIN jobs => jobs[c.job].person = c.person

VerTypeInv == VerTypes /\ VerActors

-----------------------------------------------------------------------------
(* The level.                                                               *)

\* The level is 1, 2 or 3, and what each value says.
LEMMA LevelMeans ==
  ASSUME NEW ph, NEW who, NEW p
  PROVE  /\ Level(ph, who, p) \in 1..3
         /\ Level(ph, who, p) = 3 <=> \E s \in DOMAIN ph : s[1] = p /\ ph[s].verified
         /\ Level(ph, who, p) = 2 => who[p].age /\ who[p].genderOk
         /\ who[p].age /\ who[p].genderOk => Level(ph, who, p) >= 2
  BY DEF Level, PhotosOf

\* Bringing the level up to date changes nothing else of a person.
LEMMA RelevelKeeps ==
  ASSUME NEW ph, NEW p \in People,
         NEW who \in [People -> [age : BOOLEAN, genderOk : BOOLEAN, level : 1..3]],
         NEW new, new = Relevel(ph, who, p)
  PROVE  /\ new \in [People -> [age : BOOLEAN, genderOk : BOOLEAN, level : 1..3]]
         /\ \A q \in People : new[q].age = who[q].age /\ new[q].genderOk = who[q].genderOk
         /\ \A q \in People \ {p} : new[q] = who[q]
         /\ new[p].level = Level(ph, who, p)
<1>1. Level(ph, who, p) \in 1..3
  BY LevelMeans
<1> HIDE DEF Level
<1> QED
  BY <1>1 DEF Relevel

-----------------------------------------------------------------------------
LEMMA InitVerTypeInv == VerInit => VerTypeInv
<1> SUFFICES ASSUME VerInit PROVE VerTypeInv
  OBVIOUS
<1>1. DOMAIN photo = {} /\ DOMAIN jobs = {}
  BY DEF VerInit
<1>2. person \in [People -> [age : BOOLEAN, genderOk : BOOLEAN, level : 1..3]]
  <2>1. person \in [People -> [age : {FALSE}, genderOk : {FALSE}, level : {1}]]
    BY DEF VerInit
  <2>2. ASSUME NEW r \in [age : {FALSE}, genderOk : {FALSE}, level : {1}]
        PROVE  r \in [age : BOOLEAN, genderOk : BOOLEAN, level : 1..3]
    <3>1. {FALSE} \subseteq BOOLEAN /\ {1} \subseteq 1..3
      OBVIOUS
    <3>2. /\ r.age \in {FALSE} /\ r.genderOk \in {FALSE} /\ r.level \in {1}
          /\ r = [age |-> r.age, genderOk |-> r.genderOk, level |-> r.level]
      OBVIOUS
    <3>3. r.age \in BOOLEAN /\ r.genderOk \in BOOLEAN /\ r.level \in 1..3
      BY <3>1, <3>2, Zenon
    <3> QED
      BY <3>2, <3>3
  <2> QED
    BY <2>1, <2>2
<1>3. 0 \in 0..MaxRunnerRaises
  BY VerificationAssumption DEF VerificationAssumption
<1> QED
  BY <1>1, <1>2, <1>3 DEF VerInit, VerTypeInv, VerTypes, VerActors

\* A step that changes the status of a job keeps what else is known of the jobs.
LEMMA StatusStep ==
  ASSUME VerTypeInv, NEW j, NEW st \in Statuses, jobs' = WithStatus(j, st)
  PROVE  /\ DOMAIN jobs' = DOMAIN jobs
         /\ \A k \in DOMAIN jobs : /\ jobs'[k] \in [person : People, status : Statuses]
                                   /\ jobs'[k].person = jobs[k].person
         /\ j \in DOMAIN jobs => jobs'[j] = [person |-> jobs[j].person, status |-> st]
  BY DEF VerTypeInv, VerTypes, WithStatus

\* The photos after a check: their verified marks only are new.
LEMMA VerifiedStep ==
  ASSUME VerTypeInv, NEW p, NEW found
  PROVE  /\ DOMAIN VerifiedPhotos(p, found) = DOMAIN photo
         /\ \A s \in DOMAIN photo :
              /\ VerifiedPhotos(p, found)[s] \in Photo
              /\ VerifiedPhotos(p, found)[s].uuid = photo[s].uuid
              /\ VerifiedPhotos(p, found)[s].verified =
                   IF s[1] = p THEN photo[s].uuid \in found ELSE photo[s].verified
<1> USE DEF VerTypeInv, VerTypes, VerifiedPhotos, Photo
<1>1. ASSUME NEW s \in DOMAIN photo, s[1] = p
      PROVE  /\ VerifiedPhotos(p, found)[s] \in Photo
             /\ VerifiedPhotos(p, found)[s].uuid = photo[s].uuid
             /\ VerifiedPhotos(p, found)[s].verified = (photo[s].uuid \in found)
  <2> DEFINE b == photo[s].uuid \in found
  <2>1. VerifiedPhotos(p, found)[s] = [photo[s] EXCEPT !.verified = b]
    BY <1>1
  <2>2. b \in BOOLEAN
    OBVIOUS
  <2> HIDE DEF b
  <2>3. /\ VerifiedPhotos(p, found)[s] \in Photo
        /\ VerifiedPhotos(p, found)[s].uuid = photo[s].uuid
        /\ VerifiedPhotos(p, found)[s].verified = b
    BY <2>1, <2>2
  <2> QED
    BY <2>3 DEF b
<1>2. ASSUME NEW s \in DOMAIN photo, s[1] # p
      PROVE  VerifiedPhotos(p, found)[s] = photo[s]
  BY <1>2
<1> QED
  BY <1>1, <1>2

\* A step that leaves jobs, hashes, transactions and the runner alone.
LEMMA ActorsStay ==
  VerActors /\ UNCHANGED <<queue, runner>> => VerActors'
  BY DEF VerActors, queue, runner

\* What a success writes to its person.
LEMMA SuccessRaises ==
  ASSUME VerTypeInv, NEW p \in People, NEW lv \in 2..3, NEW new,
         new = [person EXCEPT ![p] = [age |-> TRUE, genderOk |-> TRUE, level |-> lv]]
  PROVE  /\ new \in [People -> [age : BOOLEAN, genderOk : BOOLEAN, level : 1..3]]
         /\ new[p].age /\ new[p].genderOk /\ new[p].level = lv
         /\ \A q \in People \ {p} : new[q] = person[q]
<1> DEFINE r == [age |-> TRUE, genderOk |-> TRUE, level |-> lv]
<1>1. person \in [People -> [age : BOOLEAN, genderOk : BOOLEAN, level : 1..3]]
  BY DEF VerTypeInv, VerTypes
<1>2. new = [person EXCEPT ![p] = r]
  OBVIOUS
<1>3. /\ r \in [age : BOOLEAN, genderOk : BOOLEAN, level : 1..3]
      /\ r.age /\ r.genderOk /\ r.level = lv
  OBVIOUS
<1> HIDE DEF r
<1> QED
  BY <1>1, <1>2, <1>3

\* Deleting photos, or marking some, never makes two of them share a uuid.
LEMMA PhotosShrink ==
  ASSUME VerTypes, DOMAIN photo' \subseteq DOMAIN photo,
         \A s \in DOMAIN photo' : photo'[s] \in Photo /\ photo'[s].uuid = photo[s].uuid,
         person' \in [People -> [age : BOOLEAN, genderOk : BOOLEAN, level : 1..3]],
         UNCHANGED <<uuidsDrawn, runnerRaises>>,
         DOMAIN jobs' \subseteq hashes', hashes' \subseteq Selfies,
         \A j \in DOMAIN jobs' : jobs'[j] \in [person : People, status : Statuses]
  PROVE  VerTypes'
  BY DEF VerTypes

LEMMA NextVerTypeInv == VerTypeInv /\ [VerNext]_verVars => VerTypeInv'
<1> SUFFICES ASSUME VerTypeInv, [VerNext]_verVars PROVE VerTypeInv'
  OBVIOUS
<1> USE DEF profile, queue, runner, history
<1>a. VerTypes /\ VerActors
  BY DEF VerTypeInv
<1>b. /\ person \in [People -> [age : BOOLEAN, genderOk : BOOLEAN, level : 1..3]]
      /\ DOMAIN photo \subseteq People \X PhotoPositions
      /\ DOMAIN jobs \subseteq hashes /\ hashes \subseteq Selfies
      /\ \A j \in DOMAIN jobs : jobs[j] \in [person : People, status : Statuses]
      /\ \A s \in DOMAIN photo : photo[s] \in Photo
  BY <1>a DEF VerTypes
<1>1. ASSUME NEW p \in People, NEW i \in PhotoPositions, NEW u \in PhotoUuids,
             AddPhoto(<<p, i>>, u)
      PROVE  VerTypeInv'
  <2> DEFINE s == <<p, i>>
  <2>0. s \in People \X PhotoPositions /\ s[1] = p
    OBVIOUS
  <2>1. /\ u \notin uuidsDrawn /\ uuidsDrawn' = uuidsDrawn \cup {u}
        /\ photo' = [t \in DOMAIN photo \cup {s} |-> IF t = s THEN NewPhoto(s, u) ELSE photo[t]]
        /\ person' = Relevel(photo', person, p)
        /\ UNCHANGED <<queue, runner, history>>
    BY <1>1, <2>0 DEF AddPhoto
  <2> HIDE DEF s
  <2>2. NewPhoto(s, u) \in Photo /\ NewPhoto(s, u).uuid = u
    <3> DEFINE o == s \in DOMAIN photo /\ photo[s].offensive
    <3>1. o \in BOOLEAN
      BY <1>b DEF Photo
    <3>2. NewPhoto(s, u) = [uuid |-> u, verified |-> FALSE, offensive |-> o]
      BY DEF NewPhoto
    <3> HIDE DEF o
    <3> QED
      BY <3>1, <3>2 DEF Photo
  <2>3. person' \in [People -> [age : BOOLEAN, genderOk : BOOLEAN, level : 1..3]]
    BY <1>b, <2>1, RelevelKeeps
  <2>4. /\ DOMAIN photo' = DOMAIN photo \cup {s}
        /\ photo'[s].uuid = u /\ photo'[s] \in Photo
        /\ \A t \in DOMAIN photo \ {s} : photo'[t] = photo[t]
    BY <2>1, <2>2
  <2>5. \A t \in DOMAIN photo : photo[t].uuid \in uuidsDrawn /\ photo[t].uuid # u
    BY <1>a, <2>1 DEF VerTypes
  <2>6. /\ \A t \in DOMAIN photo' : photo'[t] \in Photo /\ photo'[t].uuid \in uuidsDrawn'
        /\ DOMAIN photo' \subseteq People \X PhotoPositions
    BY <1>b, <2>0, <2>1, <2>4, <2>5
  <2>7. \A t, v \in DOMAIN photo' : photo'[t].uuid = photo'[v].uuid => t = v
    BY <1>a, <2>4, <2>5 DEF VerTypes
  <2>8. VerTypes'
    BY <1>a, <2>1, <2>3, <2>6, <2>7 DEF VerTypes
  <2> QED
    BY <1>a, <2>1, <2>8, ActorsStay DEF VerTypeInv
<1>2. ASSUME NEW p \in People, NEW i \in PhotoPositions, DeletePhoto(<<p, i>>)
      PROVE  VerTypeInv'
  <2>1. /\ photo' = Restrict(photo, DOMAIN photo \ {<<p, i>>})
        /\ person' = Relevel(photo', person, p)
        /\ UNCHANGED <<uuidsDrawn, queue, runner, history>>
    BY <1>2 DEF DeletePhoto
  <2>2. DOMAIN photo' \subseteq DOMAIN photo /\ \A s \in DOMAIN photo' : photo'[s] = photo[s]
    BY <2>1 DEF Restrict
  <2>3. person' \in [People -> [age : BOOLEAN, genderOk : BOOLEAN, level : 1..3]]
    BY <1>b, <2>1, RelevelKeeps
  <2>4. VerTypes'
    BY <1>a, <1>b, <2>1, <2>2, <2>3, PhotosShrink
  <2> QED
    BY <1>a, <2>1, <2>4, ActorsStay DEF VerTypeInv
<1>3. ASSUME NEW p \in People, ChangeGender(p) PROVE VerTypeInv'
  <2>1. PICK who \in [People -> [age : BOOLEAN, genderOk : BOOLEAN, level : 1..3]] :
          person' = Relevel(photo, who, p)
    BY <1>3, <1>b DEF ChangeGender
  <2>2. person' \in [People -> [age : BOOLEAN, genderOk : BOOLEAN, level : 1..3]]
    BY <2>1, RelevelKeeps
  <2>3. UNCHANGED <<photo, uuidsDrawn, queue, runner, history>>
    BY <1>3 DEF ChangeGender
  <2>4. VerTypes'
    BY <1>a, <1>b, <2>2, <2>3, PhotosShrink
  <2> QED
    BY <1>a, <2>3, <2>4, ActorsStay DEF VerTypeInv
<1>4. ASSUME NEW p \in People, NEW s \in Selfies, BeginSelfie(p, s) PROVE VerTypeInv'
  <2>1. PICK t : t.person = p /\ t.selfie = s /\ posts' = posts \cup {t}
    BY <1>4 DEF BeginSelfie
  <2>2. UNCHANGED <<profile, jobs, hashes, runner, history>>
    BY <1>4 DEF BeginSelfie
  <2>3. VerTypes'
    BY <1>a, <2>2 DEF VerTypes
  <2> QED
    BY <1>a, <2>1, <2>2, <2>3 DEF VerTypeInv, VerActors
<1>5. ASSUME NEW t \in posts, SelfieConflicts(t) PROVE VerTypeInv'
  BY <1>5, <1>a DEF SelfieConflicts, VerTypeInv, VerTypes, VerActors
<1>6. ASSUME NEW t \in posts, NewSelfie(t) PROVE VerTypeInv'
  <2>1. /\ t.person \in People /\ t.selfie \in Selfies \ hashes
        /\ hashes' = hashes \cup {t.selfie} /\ posts' \subseteq posts
        /\ UNCHANGED <<profile, runner, history>>
    BY <1>6, <1>a DEF NewSelfie, Conflict, VerActors
  <2>2. /\ DOMAIN jobs' \subseteq DOMAIN jobs \cup {t.selfie}
        /\ \A j \in DOMAIN jobs' :
             jobs'[j] = IF j = t.selfie THEN [person |-> t.person, status |-> "uploading-photo"]
                        ELSE jobs[j]
    BY <1>6 DEF NewSelfie
  <2>3. VerTypes'
    BY <1>a, <2>1, <2>2 DEF VerTypes, Statuses
  <2>4. \A c \in runnerTodo \cup current : c.job # t.selfie
    BY <1>a, <2>1 DEF VerActors
  <2> QED
    BY <1>a, <2>1, <2>2, <2>3, <2>4 DEF VerTypeInv, VerActors
<1>7. ASSUME NEW t \in posts, ReusedSelfie(t) PROVE VerTypeInv'
  <2>1. /\ DOMAIN jobs' = DOMAIN jobs /\ posts' \subseteq posts
        /\ \A j \in DOMAIN jobs : /\ jobs'[j] \in [person : People, status : Statuses]
                                  /\ jobs'[j].person = jobs[j].person
        /\ UNCHANGED <<profile, hashes, runner, history>>
    BY <1>7, <1>b DEF ReusedSelfie, Statuses
  <2> QED
    BY <1>a, <2>1 DEF VerTypeInv, VerTypes, VerActors
<1>8. ASSUME NEW p \in People, PostVerify(p) PROVE VerTypeInv'
  <2>1. /\ DOMAIN jobs' = DOMAIN jobs
        /\ \A j \in DOMAIN jobs : /\ jobs'[j] \in [person : People, status : Statuses]
                                  /\ jobs'[j].person = jobs[j].person
        /\ UNCHANGED <<profile, hashes, posts, runner, history>>
    BY <1>8, <1>b DEF PostVerify, Statuses
  <2> QED
    BY <1>a, <2>1 DEF VerTypeInv, VerTypes, VerActors
<1>9. CASE ReadQueue
  <2>1. /\ current = {} /\ UNCHANGED <<profile, queue, current, history>>
        /\ \A c \in runnerTodo' : c.job \in DOMAIN jobs /\ c.person = jobs[c.job].person
    BY <1>9 DEF ReadQueue, Claim
  <2> QED
    BY <1>a, <2>1 DEF VerTypeInv, VerTypes, VerActors
<1>10. ASSUME NEW c \in runnerTodo, BeginVerify(c) PROVE VerTypeInv'
  <2>1. /\ current' = {c} /\ runnerTodo' \subseteq runnerTodo
        /\ jobs' = WithStatus(c.job, "running")
        /\ UNCHANGED <<profile, hashes, posts, history>>
    BY <1>10 DEF BeginVerify
  <2>2. /\ DOMAIN jobs' = DOMAIN jobs
        /\ \A j \in DOMAIN jobs : /\ jobs'[j] \in [person : People, status : Statuses]
                                  /\ jobs'[j].person = jobs[j].person
    <3>1. "running" \in Statuses
      BY DEF Statuses
    <3> QED
      BY <2>1, <3>1, StatusStep
  <2> QED
    BY <1>a, <2>1, <2>2 DEF VerTypeInv, VerTypes, VerActors
<1>11. ASSUME NEW c \in current, JobFails(c) PROVE VerTypeInv'
  <2>1. /\ current' = {} /\ jobs' = WithStatus(c.job, "failure")
        /\ UNCHANGED <<profile, hashes, posts, runnerTodo, history>>
    BY <1>11 DEF JobFails
  <2>2. /\ DOMAIN jobs' = DOMAIN jobs
        /\ \A j \in DOMAIN jobs : /\ jobs'[j] \in [person : People, status : Statuses]
                                  /\ jobs'[j].person = jobs[j].person
    <3>1. "failure" \in Statuses
      BY DEF Statuses
    <3> QED
      BY <2>1, <3>1, StatusStep
  <2> QED
    BY <1>a, <2>1, <2>2 DEF VerTypeInv, VerTypes, VerActors
<1>12. ASSUME NEW c \in current, NEW found \in SUBSET c.uuids, JobSucceeds(c, found)
       PROVE  VerTypeInv'
  <2>1. /\ current' = {} /\ jobs' = WithStatus(c.job, "success")
        /\ UNCHANGED <<uuidsDrawn, hashes, posts, runnerTodo, runnerRaises>>
    BY <1>12 DEF JobSucceeds
  <2>2. /\ DOMAIN photo' = DOMAIN photo
        /\ \A s \in DOMAIN photo' : photo'[s] \in Photo /\ photo'[s].uuid = photo[s].uuid
    BY <1>12, <1>a, <1>b, VerifiedStep DEF JobSucceeds, ApplySuccess, VerTypeInv
  <2>3. person' \in [People -> [age : BOOLEAN, genderOk : BOOLEAN, level : 1..3]]
    <3>1. c.person \in People
      BY <1>a DEF VerActors
    <3>2. CASE c.job \in DOMAIN jobs
      <4> DEFINE lv == IF found # {} THEN 3 ELSE 2
      <4>1. /\ person' = [person EXCEPT ![c.person] =
                            [age |-> TRUE, genderOk |-> TRUE, level |-> lv]]
            /\ lv \in 2..3
        BY <1>12, <3>2 DEF JobSucceeds, ApplySuccess
      <4> HIDE DEF lv
      <4> QED
        BY <3>1, <4>1, SuccessRaises
    <3>3. CASE c.job \notin DOMAIN jobs
      BY <1>12, <1>b, <3>3 DEF JobSucceeds, ApplySuccess
    <3> QED
      BY <3>2, <3>3
  <2>4. /\ DOMAIN jobs' = DOMAIN jobs
        /\ \A j \in DOMAIN jobs : /\ jobs'[j] \in [person : People, status : Statuses]
                                  /\ jobs'[j].person = jobs[j].person
    <3>1. "success" \in Statuses
      BY DEF Statuses
    <3> QED
      BY <2>1, <3>1, StatusStep
  <2>5. VerTypes'
    BY <1>a, <1>b, <2>1, <2>2, <2>3, <2>4, PhotosShrink
  <2> QED
    BY <1>a, <2>1, <2>4, <2>5 DEF VerTypeInv, VerActors
<1>13. CASE RunnerRaises
  BY <1>13, <1>a, VerificationAssumption
  DEF VerificationAssumption, RunnerRaises, VerTypeInv, VerTypes, VerActors
<1>14. ASSUME NEW p \in People, NEW i \in PhotoPositions, ScorePhoto(<<p, i>>)
       PROVE  VerTypeInv'
  <2>1. /\ photo' = [photo EXCEPT ![<<p, i>>].offensive = TRUE]
        /\ UNCHANGED <<person, uuidsDrawn, queue, runner, history>>
    BY <1>14 DEF ScorePhoto
  <2>2. /\ DOMAIN photo' = DOMAIN photo
        /\ \A s \in DOMAIN photo' : photo'[s] \in Photo /\ photo'[s].uuid = photo[s].uuid
    BY <1>b, <2>1 DEF Photo
  <2>3. VerTypes'
    BY <1>a, <1>b, <2>1, <2>2, PhotosShrink
  <2> QED
    BY <1>a, <2>1, <2>3, ActorsStay DEF VerTypeInv
<1>15. ASSUME NEW expired \in SUBSET Selfies, DeleteExpiredJobs(expired) PROVE VerTypeInv'
  <2>1. PICK bad, owners :
          /\ photo' = Restrict(photo, DOMAIN photo \ bad)
          /\ person' = [p \in People |-> IF p \in owners
                          THEN [person[p] EXCEPT !.level = Level(photo, person, p)] ELSE person[p]]
          /\ jobs' = Restrict(jobs, DOMAIN jobs \ expired)
          /\ UNCHANGED <<uuidsDrawn, hashes, posts, runner, history>>
    BY <1>15 DEF DeleteExpiredJobs
  <2>2. /\ DOMAIN photo' \subseteq DOMAIN photo /\ \A s \in DOMAIN photo' : photo'[s] = photo[s]
        /\ DOMAIN jobs' \subseteq DOMAIN jobs /\ \A j \in DOMAIN jobs' : jobs'[j] = jobs[j]
    BY <2>1 DEF Restrict
  <2>3. person' \in [People -> [age : BOOLEAN, genderOk : BOOLEAN, level : 1..3]]
    <3>1. \A p \in People : Level(photo, person, p) \in 1..3
      BY LevelMeans
    <3> HIDE DEF Level
    <3> QED
      BY <1>b, <2>1, <3>1
  <2>4. VerTypes'
    BY <1>a, <1>b, <2>1, <2>2, <2>3, PhotosShrink
  <2> QED
    BY <1>a, <2>1, <2>2, <2>4 DEF VerTypeInv, VerActors
<1>16. CASE UNCHANGED verVars
  BY <1>16, <1>a DEF verVars, VerTypeInv, VerTypes, VerActors
<1>17. ASSUME NEW s \in People \X PhotoPositions,
              DeletePhoto(s) \/ ScorePhoto(s) \/ \E u \in PhotoUuids : AddPhoto(s, u)
       PROVE  VerTypeInv'
  <2>1. PICK p \in People, i \in PhotoPositions : s = <<p, i>>
    OBVIOUS
  <2> QED
    BY <1>17, <2>1, <1>1, <1>2, <1>14
<1> QED
  BY <1>3, <1>4, <1>5, <1>6, <1>7, <1>8, <1>9, <1>10, <1>11, <1>12, <1>13, <1>15,
     <1>16, <1>17 DEF VerNext, Runner

LEMMA VerTypeInvariant == VerSpec => []VerTypeInv
  BY InitVerTypeInv, NextVerTypeInv, PTL DEF VerSpec

\* Every variable of Verification keeps its type, and photo uuids stay unique,
\* whatever the owners, the job runner and the garbage cron do.
THEOREM VerTypeCorrect == VerSpec => []VerTypeOK
<1>1. ASSUME VerTypeInv PROVE Cardinality(current) <= 1
  <2>1. CASE current = {}
    <3>1. Cardinality({}) = 0
      BY FS_EmptySet
    <3>2. Cardinality(current) = 0
      BY <2>1, <3>1, Zenon
    <3> QED
      BY <3>2
  <2>2. ASSUME NEW c, current = {c} PROVE Cardinality(current) <= 1
    <3>1. Cardinality({c}) = 1
      BY FS_Singleton
    <3>2. Cardinality(current) = 1
      BY <2>2, <3>1, Zenon
    <3> QED
      BY <3>2
  <2> QED
    BY <1>1, <2>1, <2>2 DEF VerTypeInv, VerActors
<1>2. VerTypeInv => VerTypeOK
  BY <1>1 DEF VerTypeInv, VerTypes, VerTypeOK
<1> QED
  BY VerTypeInvariant, <1>2, PTL

-----------------------------------------------------------------------------
(* The marks.                                                               *)

\* A person with a verified age and gender has at least the level `Basics`: an
\* edit cannot raise a level that had lagged behind.
LevelKeepsUp ==
  \A p \in People : person[p].age /\ person[p].genderOk => person[p].level >= 2

MarksInv == MarksAreEarned /\ LevelKeepsUp

LEMMA InitMarksInv == VerInit => MarksInv
<1> SUFFICES ASSUME VerInit PROVE MarksInv
  OBVIOUS
<1>1. DOMAIN photo = {}
  BY DEF VerInit
<1>2. ASSUME NEW p \in People
      PROVE person[p].age = FALSE /\ person[p].genderOk = FALSE /\ person[p].level = 1
  <2>1. person[p] \in [age : {FALSE}, genderOk : {FALSE}, level : {1}]
    BY DEF VerInit
  <2> QED
    BY <2>1
<1>3. VerifiedPhotoWasCompared /\ VerifiedPhotoGivesLevel
  BY <1>1 DEF VerifiedPhotoWasCompared, VerifiedPhotoGivesLevel
<1>4. \A p \in People : ~person[p].age /\ person[p].level = 1
  BY <1>2
<1>5. LevelHasBasics /\ LevelKeepsUp
  BY <1>4 DEF LevelHasBasics, LevelKeepsUp
<1> QED
  BY <1>3, <1>5 DEF MarksInv, MarksAreEarned

\* The invariant as facts about single rows.
LEMMA MarksOf ==
  ASSUME VerTypeInv, MarksInv
  PROVE  /\ \A s \in DOMAIN photo : photo[s].verified =>
              /\ <<s[1], photo[s].uuid>> \in matched
              /\ s[1] \in People /\ person[s[1]].level = 3
         /\ \A p \in People : /\ person[p].level = 2 => person[p].age /\ person[p].genderOk
                              /\ person[p].level = 3 => person[p].age
                              /\ person[p].age /\ person[p].genderOk => person[p].level >= 2
                              /\ person[p].level \in 1..3
  BY DEF MarksInv, MarksAreEarned, VerifiedPhotoWasCompared, VerifiedPhotoGivesLevel,
         LevelHasBasics, LevelKeepsUp, VerTypeInv, VerTypes

\* A transaction that verifies no photo, and brings the level of the one person
\* up to date whose rows it touched, keeps the marks and raises no level.
LEMMA RelevelStep ==
  ASSUME VerTypeInv, MarksInv, VerTypeInv',
         NEW p \in People,
         NEW who \in [People -> [age : BOOLEAN, genderOk : BOOLEAN, level : 1..3]],
         person' = Relevel(photo', who, p),
         \A q \in People \ {p} : who[q] = person[q],
         who[p].age = person[p].age, who[p].genderOk => person[p].genderOk,
         \A s \in DOMAIN photo' : photo'[s].verified =>
           /\ s \in DOMAIN photo /\ photo[s].verified /\ photo'[s].uuid = photo[s].uuid,
         matched' = matched
  PROVE  MarksInv' /\ \A q \in People : person'[q].level <= person[q].level
<1>1. /\ \A q \in People : person'[q].age = who[q].age /\ person'[q].genderOk = who[q].genderOk
      /\ \A q \in People \ {p} : person'[q] = person[q]
      /\ person'[p].level = Level(photo', who, p)
  BY RelevelKeeps
<1>2. /\ person'[p].level \in 1..3
      /\ person'[p].level = 3 <=> \E s \in DOMAIN photo' : s[1] = p /\ photo'[s].verified
      /\ person'[p].level = 2 => who[p].age /\ who[p].genderOk
      /\ who[p].age /\ who[p].genderOk => person'[p].level >= 2
  BY <1>1, LevelMeans
<1>3. person'[p].level = 3 => person[p].level = 3 /\ person[p].age
  BY <1>2, MarksOf, ZenonT(60)
<1>4. person'[p].level <= person[p].level
  BY <1>1, <1>2, <1>3, MarksOf
<1>5. VerifiedPhotoWasCompared' /\ VerifiedPhotoGivesLevel'
  <2>1. ASSUME NEW s \in DOMAIN photo', photo'[s].verified
        PROVE  <<s[1], photo'[s].uuid>> \in matched' /\ person'[s[1]].level = 3
    <3>1. /\ <<s[1], photo'[s].uuid>> \in matched'
          /\ s[1] \in People /\ person[s[1]].level = 3
      BY <2>1, MarksOf
    <3>2. CASE s[1] = p
      BY <2>1, <3>1, <3>2, <1>2
    <3>3. CASE s[1] # p
      BY <3>1, <3>3, <1>1
    <3> QED
      BY <3>1, <3>2, <3>3
  <2> QED
    BY <2>1 DEF VerifiedPhotoWasCompared, VerifiedPhotoGivesLevel
<1>6. LevelHasBasics' /\ LevelKeepsUp'
  BY <1>1, <1>2, <1>3, MarksOf DEF LevelHasBasics, LevelKeepsUp
<1>7. \A q \in People : person'[q].level <= person[q].level
  BY <1>1, <1>4, MarksOf
<1> QED
  BY <1>5, <1>6, <1>7 DEF MarksInv, MarksAreEarned

\* What a step does to the marks and to the levels: they stay earned, and only a
\* success raises a level.
Raised(p) ==
  \E j \in DOMAIN jobs' : /\ jobs'[j] = [person |-> p, status |-> "success"]
                          /\ \E c \in current : c.job = j

Earned == MarksInv' /\ \A p \in People : person'[p].level > person[p].level => Raised(p)

LEMMA NextEarned == VerTypeInv /\ MarksInv /\ VerTypeInv' /\ [VerNext]_verVars => Earned
<1> SUFFICES ASSUME VerTypeInv, MarksInv, VerTypeInv', [VerNext]_verVars PROVE Earned
  OBVIOUS
<1> USE DEF profile, queue, runner, history
<1>a. /\ person \in [People -> [age : BOOLEAN, genderOk : BOOLEAN, level : 1..3]]
      /\ DOMAIN photo \subseteq People \X PhotoPositions
      /\ \A q \in People : person[q].level \in Nat /\ person'[q].level \in Nat
  BY DEF VerTypeInv, VerTypes
<1>b. ASSUME MarksInv', \A q \in People : person'[q].level <= person[q].level PROVE Earned
  BY <1>a, <1>b DEF Earned
<1>c. ASSUME UNCHANGED <<photo, person, matched>> PROVE Earned
  <2>1. MarksInv'
    BY <1>c DEF MarksInv, MarksAreEarned, VerifiedPhotoWasCompared, VerifiedPhotoGivesLevel,
                LevelHasBasics, LevelKeepsUp
  <2> QED
    BY <1>a, <1>b, <1>c, <2>1
<1>1. ASSUME NEW p \in People, NEW i \in PhotoPositions, NEW u \in PhotoUuids,
             AddPhoto(<<p, i>>, u)
      PROVE  Earned
  <2> DEFINE s == <<p, i>>
  <2>1. /\ s[1] = p
        /\ photo' = [t \in DOMAIN photo \cup {s} |-> IF t = s THEN NewPhoto(s, u) ELSE photo[t]]
        /\ person' = Relevel(photo', person, s[1]) /\ matched' = matched
    BY <1>1 DEF AddPhoto
  <2>2. ~NewPhoto(s, u).verified
    BY DEF NewPhoto
  <2> HIDE DEF s
  <2>3. \A t \in DOMAIN photo' : photo'[t].verified =>
          t \in DOMAIN photo /\ photo[t].verified /\ photo'[t].uuid = photo[t].uuid
    BY <2>1, <2>2
  <2>4. person' = Relevel(photo', person, p)
    BY <2>1
  <2> QED
    BY <1>a, <1>b, <2>1, <2>3, <2>4, RelevelStep
<1>2. ASSUME NEW p \in People, NEW i \in PhotoPositions, DeletePhoto(<<p, i>>) PROVE Earned
  <2>1. /\ photo' = Restrict(photo, DOMAIN photo \ {<<p, i>>})
        /\ person' = Relevel(photo', person, p) /\ matched' = matched
    BY <1>2 DEF DeletePhoto
  <2>2. \A t \in DOMAIN photo' : t \in DOMAIN photo /\ photo'[t] = photo[t]
    BY <2>1 DEF Restrict
  <2> QED
    BY <1>a, <1>b, <2>1, <2>2, RelevelStep
<1>3. ASSUME NEW p \in People, ChangeGender(p) PROVE Earned
  <2> DEFINE who == [person EXCEPT ![p].genderOk = FALSE]
  <2>1. /\ photo' = photo /\ person' = Relevel(photo', who, p) /\ matched' = matched
    BY <1>3 DEF ChangeGender
  <2>2. /\ who \in [People -> [age : BOOLEAN, genderOk : BOOLEAN, level : 1..3]]
        /\ \A q \in People \ {p} : who[q] = person[q]
        /\ who[p].age = person[p].age /\ who[p].genderOk = FALSE
    BY <1>a
  <2> HIDE DEF who
  <2> QED
    BY <1>b, <2>1, <2>2, RelevelStep
<1>4. CASE \/ ReadQueue \/ RunnerRaises \/ UNCHANGED verVars
           \/ \E p \in People : PostVerify(p) \/ \E s \in Selfies : BeginSelfie(p, s)
           \/ \E t \in posts : SelfieConflicts(t) \/ NewSelfie(t) \/ ReusedSelfie(t)
           \/ \E c \in runnerTodo : BeginVerify(c)
           \/ \E c \in current : JobFails(c)
  <2>1. UNCHANGED <<photo, person, matched>>
    BY <1>4 DEF ReadQueue, RunnerRaises, verVars, PostVerify, BeginSelfie, SelfieConflicts,
                NewSelfie, ReusedSelfie, BeginVerify, JobFails
  <2> QED
    BY <1>c, <2>1
<1>5. ASSUME NEW c \in current, NEW found \in SUBSET c.uuids, JobSucceeds(c, found)
      PROVE  Earned
  <2>1. /\ current = {c} /\ jobs' = WithStatus(c.job, "success")
        /\ matched' = matched \cup ({c.person} \X found) /\ ApplySuccess(c, found)
    BY <1>5 DEF JobSucceeds
  <2>2. c.person \in People /\ (c.job \in DOMAIN jobs => jobs[c.job].person = c.person)
    BY DEF VerTypeInv, VerActors
  <2>3. CASE c.job \notin DOMAIN jobs
    <3>1. photo' = photo /\ person' = person /\ matched \subseteq matched'
      BY <2>1, <2>3 DEF ApplySuccess
    <3>2. MarksInv'
      BY <3>1 DEF MarksInv, MarksAreEarned, VerifiedPhotoWasCompared,
                  VerifiedPhotoGivesLevel, LevelHasBasics, LevelKeepsUp
    <3> QED
      BY <1>a, <1>b, <3>1, <3>2
  <2>4. CASE c.job \in DOMAIN jobs
    <3> DEFINE lv == IF found # {} THEN 3 ELSE 2
    <3>1. /\ photo' = VerifiedPhotos(c.person, found)
          /\ person' = [person EXCEPT ![c.person] =
                          [age |-> TRUE, genderOk |-> TRUE, level |-> lv]]
          /\ lv \in 2..3 /\ (found # {} => lv = 3)
      BY <2>1, <2>4 DEF ApplySuccess
    <3> HIDE DEF lv
    <3>2. /\ person'[c.person].age /\ person'[c.person].genderOk /\ person'[c.person].level = lv
          /\ \A q \in People \ {c.person} : person'[q] = person[q]
      BY <2>2, <3>1, SuccessRaises
    <3>3. /\ DOMAIN photo' = DOMAIN photo
          /\ \A s \in DOMAIN photo :
               /\ photo'[s].uuid = photo[s].uuid
               /\ photo'[s].verified =
                    IF s[1] = c.person THEN photo[s].uuid \in found ELSE photo[s].verified
      BY <3>1, VerifiedStep
    <3>4. ASSUME NEW s \in DOMAIN photo', photo'[s].verified
          PROVE  <<s[1], photo'[s].uuid>> \in matched' /\ person'[s[1]].level = 3
      <4>1. CASE s[1] = c.person
        BY <2>1, <3>1, <3>2, <3>3, <3>4, <4>1
      <4>2. CASE s[1] # c.person
        BY <2>1, <3>2, <3>3, <3>4, <4>2, MarksOf
      <4> QED
        BY <4>1, <4>2
    <3>5. VerifiedPhotoWasCompared' /\ VerifiedPhotoGivesLevel'
      BY <3>4 DEF VerifiedPhotoWasCompared, VerifiedPhotoGivesLevel
    <3>6. LevelHasBasics' /\ LevelKeepsUp'
      BY <3>1, <3>2, MarksOf DEF LevelHasBasics, LevelKeepsUp
    <3>7. Raised(c.person)
      <4>1. "success" \in Statuses
        BY DEF Statuses
      <4>2. /\ DOMAIN jobs' = DOMAIN jobs
            /\ jobs'[c.job] = [person |-> jobs[c.job].person, status |-> "success"]
        BY <2>1, <2>4, <4>1, StatusStep
      <4> QED
        BY <2>2, <2>4, <4>2 DEF Raised
    <3>8. \A q \in People : person'[q].level > person[q].level => Raised(q)
      BY <1>a, <3>2, <3>7
    <3> QED
      BY <3>5, <3>6, <3>8 DEF Earned, MarksInv, MarksAreEarned
  <2> QED
    BY <2>3, <2>4
<1>6. ASSUME NEW p \in People, NEW i \in PhotoPositions, ScorePhoto(<<p, i>>) PROVE Earned
  <2>1. /\ photo' = [photo EXCEPT ![<<p, i>>].offensive = TRUE]
        /\ person' = person /\ matched' = matched
    BY <1>6 DEF ScorePhoto
  <2>2. /\ DOMAIN photo' = DOMAIN photo
        /\ \A s \in DOMAIN photo : /\ photo'[s].uuid = photo[s].uuid
                                   /\ photo'[s].verified = photo[s].verified
    <3>1. \A s \in DOMAIN photo : photo[s] \in Photo
      BY DEF VerTypeInv, VerTypes
    <3> QED
      BY <2>1, <3>1 DEF Photo
  <2>3. MarksInv'
    BY <2>1, <2>2 DEF MarksInv, MarksAreEarned, VerifiedPhotoWasCompared,
                      VerifiedPhotoGivesLevel, LevelHasBasics, LevelKeepsUp
  <2> QED
    BY <1>a, <1>b, <2>1, <2>3
<1>7. ASSUME NEW expired \in SUBSET Selfies, DeleteExpiredJobs(expired) PROVE Earned
  <2>1. PICK bad, owners :
          /\ photo' = Restrict(photo, DOMAIN photo \ bad)
          /\ person' = [p \in People |-> IF p \in owners
                          THEN [person[p] EXCEPT !.level = Level(photo, person, p)] ELSE person[p]]
          /\ matched' = matched
    BY <1>7 DEF DeleteExpiredJobs
  <2>2. \A t \in DOMAIN photo' : t \in DOMAIN photo /\ photo'[t] = photo[t]
    BY <2>1 DEF Restrict
  <2>3. ASSUME NEW p \in People
        PROVE  /\ person'[p].age = person[p].age /\ person'[p].genderOk = person[p].genderOk
               /\ \/ person'[p].level = person[p].level
                  \/ person'[p].level = Level(photo, person, p)
    <3> HIDE DEF Level
    <3>1. person[p] \in [age : BOOLEAN, genderOk : BOOLEAN, level : 1..3]
      BY <1>a
    <3>2. person'[p] = IF p \in owners
                       THEN [person[p] EXCEPT !.level = Level(photo, person, p)] ELSE person[p]
      BY <2>1
    <3> QED
      BY <3>1, <3>2
  <2>4. ASSUME NEW p \in People
        PROVE  /\ person'[p].level <= person[p].level
               /\ person'[p].level = 2 => person[p].age /\ person[p].genderOk
               /\ person'[p].level = 3 => person[p].age
               /\ person[p].age /\ person[p].genderOk => person'[p].level >= 2
    <3> DEFINE lv == Level(photo, person, p)
    <3>1. /\ lv \in 1..3
          /\ lv = 3 => \E s \in DOMAIN photo : s[1] = p /\ photo[s].verified
          /\ lv = 2 => person[p].age /\ person[p].genderOk
          /\ person[p].age /\ person[p].genderOk => lv >= 2
      BY LevelMeans
    <3>2. person'[p].level = person[p].level \/ person'[p].level = lv
      BY <2>3
    <3> HIDE DEF lv
    <3>3. lv = 3 => person[p].level = 3
      BY <3>1, MarksOf
    <3> QED
      BY <3>1, <3>2, <3>3, MarksOf
  <2>5. ASSUME NEW s \in DOMAIN photo', photo'[s].verified
        PROVE  <<s[1], photo'[s].uuid>> \in matched' /\ person'[s[1]].level = 3
    <3>1. s \in DOMAIN photo /\ photo[s].verified /\ photo'[s] = photo[s] /\ s[1] \in People
      BY <2>2, <2>5, MarksOf
    <3>2. Level(photo, person, s[1]) = 3
      BY <3>1, LevelMeans
    <3> QED
      BY <2>1, <2>3, <3>1, <3>2, MarksOf
  <2>6. MarksInv'
    BY <2>3, <2>4, <2>5 DEF MarksInv, MarksAreEarned, VerifiedPhotoWasCompared,
                            VerifiedPhotoGivesLevel, LevelHasBasics, LevelKeepsUp
  <2> QED
    BY <1>b, <2>4, <2>6
<1>8. ASSUME NEW s \in People \X PhotoPositions,
             DeletePhoto(s) \/ ScorePhoto(s) \/ \E u \in PhotoUuids : AddPhoto(s, u)
      PROVE  Earned
  <2>1. PICK p \in People, i \in PhotoPositions : s = <<p, i>>
    OBVIOUS
  <2> QED
    BY <1>8, <2>1, <1>1, <1>2, <1>6
<1> QED
  BY <1>3, <1>4, <1>5, <1>7, <1>8 DEF VerNext, Runner

LEMMA MarksInvariant == VerSpec => [](VerTypeInv /\ MarksInv)
<1>1. VerTypeInv /\ MarksInv /\ [VerNext]_verVars => (VerTypeInv /\ MarksInv)'
  BY NextVerTypeInv, NextEarned DEF Earned
<1> QED
  BY InitVerTypeInv, InitMarksInv, <1>1, PTL DEF VerSpec

\* No mark and no level outlives what it stands for: a verified photo is the very
\* image that a check compared, its owner has the level `Photos`, and a level
\* rests on a verified age and gender - however edits, late results and the
\* garbage cron interleave.
THEOREM MarksStayEarned == VerSpec => []MarksAreEarned
<1>1. MarksInv => MarksAreEarned
  BY DEF MarksInv
<1> QED
  BY MarksInvariant, <1>1, PTL

\* A level rises only with the success of a job that still exists and whose owner
\* sees it succeed: never by a late result of a replaced selfie or by an edit.
THEOREM OnlySuccessRaises == VerSpec => LevelRisesOnSuccess
<1>1. VerTypeInv /\ MarksInv /\ [VerNext]_verVars =>
        [\A p \in People : person'[p].level > person[p].level =>
           \E j \in DOMAIN jobs' : /\ jobs'[j] = [person |-> p, status |-> "success"]
                                   /\ \E c \in current : c.job = j]_verVars
  BY NextVerTypeInv, NextEarned DEF Earned, Raised
<1> QED
  BY MarksInvariant, <1>1, PTL DEF VerSpec, LevelRisesOnSuccess

-----------------------------------------------------------------------------
(* The composition that TLC runs.                                           *)

\* A behaviour of the run is a behaviour of each of the two components, so that
\* what is proved of them holds in it; among it their types.
THEOREM PicTypeCorrect == PicSpec => []PicTypeOK
<1>1. PicInit => Init /\ VerInit
  BY DEF PicInit
<1>2. [PicNext]_picVars => [Next]_vars /\ [VerNext]_verVars
  BY DEF PicNext, picVars
<1>3. StoreInv => TypeOK
  BY DEF StoreInv
<1>4. PicTypeOK <=> TypeOK /\ VerTypeOK
  BY DEF PicTypeOK
<1>5. PicSpec => Spec /\ VerSpec
  BY <1>1, <1>2, PTL DEF PicSpec, Spec, VerSpec
<1>6. Spec => []TypeOK
  BY <1>3, StoreInvariant, PTL
<1> QED
  BY <1>4, <1>5, <1>6, VerTypeCorrect, PTL

=============================================================================
