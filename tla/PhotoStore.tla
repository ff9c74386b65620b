------------------------------ MODULE PhotoStore ------------------------------
(***************************************************************************)
(* Where pictures live.  A picture has a random uuid; the database refers   *)
(* to it from an onboardee's photo, a member's photo or a verification job, *)
(* and the object store keeps up to four objects under its name.  The API   *)
(* commits the database row first and puts the objects afterwards.  Whoever *)
(* drops a row records its uuid in undeleted_photo, and the photo cleaner   *)
(* of the cron service deletes the objects of those uuids.                  *)
(*                                                                         *)
(* Each request's or loop's transaction is one step: those that overlap on  *)
(* a row, or insert below a row that another one deletes, cannot both       *)
(* commit under REPEATABLE READ.  An email stands for its onboardee and for *)
(* the account that the onboardee becomes.                                  *)
(***************************************************************************)
EXTENDS Integers, FiniteSets

CONSTANTS
  Emails,
  Positions,   \* photo positions
  Uuids,       \* names that secrets.token_hex may draw, each once
  Requests,    \* which requests clients make, a subset of AllRequests
  ChunkSize,   \* uuids per delete_objects call (200)
  MaxRaises    \* bound: how often the cleaner raises, or its process dies

AllRequests == {"onboard", "again", "edit", "selfie", "reuse", "leave", "expire", "unsaved"}

ASSUME PhotoStoreAssumption ==
  /\ Requests \subseteq AllRequests
  /\ ChunkSize \in Nat \ {0} /\ MaxRaises \in Nat

VARIABLES
  onboardees, \* table onboardee
  people,     \* table person
  rows,       \* tables onboardee_photo, photo and verification_job
  undeleted,  \* table undeleted_photo
  puts,       \* uuids whose objects a request handler is putting
  store,      \* uuids with at least one object in the store
  todo,       \* delete_images_from_object_store: uuids still to be deleted
  chunk,      \* and those whose objects are gone, but that are not marked yet
  drawn,      \* uuids drawn so far
  cleaned,    \* history: uuids the cleaner has marked as deleted
  lost,       \* history: uuids that never got a row, or whose row went unrecorded
  raises      \* history: failures of the cleaner, up to MaxRaises

database == <<onboardees, people, rows, undeleted, lost>>
handlers == <<puts, drawn>>
cleaner == <<todo, chunk, cleaned, raises>>
vars == <<database, handlers, store, cleaner>>

Kinds == {"onboardee", "photo", "selfie"}
Row == [kind : Kinds, owner : Emails, pos : Positions, uuid : Uuids]

UuidsOf(R) == {r.uuid : r \in R}
RowsOf(kind, e) == {r \in rows : r.kind = kind /\ r.owner = e}
At(kind, e, p) == {r \in RowsOf(kind, e) : r.pos = p}

Init ==
  /\ onboardees = {} /\ people = {} /\ rows = {} /\ undeleted = {}
  /\ puts = {} /\ store = {} /\ drawn = {}
  /\ todo = {} /\ chunk = {} /\ cleaned = {} /\ lost = {} /\ raises = 0

-----------------------------------------------------------------------------
(* The API.                                                                 *)

\* The rows in `old` go, those in `new` come, and old uuids are to be deleted.
Replace(old, new) ==
  /\ rows' = (rows \ old) \cup new
  /\ undeleted' = undeleted \cup UuidsOf(old)
  /\ UNCHANGED lost

\* A new picture: after its row's transaction its objects are put.
StartPut(u) ==
  /\ u \notin drawn
  /\ drawn' = drawn \cup {u}
  /\ puts' = puts \cup {u}

\* A correct one-time password: an account is signed in; otherwise onboarding
\* starts, or starts again - then the old photos go by ON DELETE CASCADE.
CheckOtp(e) ==
  /\ "onboard" \in Requests
  /\ "again" \in Requests \/ RowsOf("onboardee", e) = {}
  /\ onboardees' = IF e \in people THEN onboardees \ {e} ELSE onboardees \cup {e}
  /\ rows' = rows \ RowsOf("onboardee", e)
  /\ lost' = lost \cup UuidsOf(RowsOf("onboardee", e))
  /\ UNCHANGED <<people, undeleted, handlers, store, cleaner>>

PatchOnboardeePhoto(e, p, u) ==
  /\ e \in onboardees
  /\ StartPut(u)
  /\ Replace(At("onboardee", e, p),
             {[kind |-> "onboardee", owner |-> e, pos |-> p, uuid |-> u]})
  /\ UNCHANGED <<onboardees, people, store, cleaner>>

DeleteOnboardeePhoto(e, p) ==
  /\ At("onboardee", e, p) # {}
  /\ Replace(At("onboardee", e, p), {})
  /\ UNCHANGED <<onboardees, people, handlers, store, cleaner>>

\* Mutant of Promoted: the onboardee is not deleted.
PromotedAndKept(e) ==
  rows \cup {[r EXCEPT !.kind = "photo"] : r \in RowsOf("onboardee", e)}

\* The onboardee's photos become the member's.
Promoted(e) ==
  (rows \ RowsOf("onboardee", e))
    \cup {[r EXCEPT !.kind = "photo"] : r \in RowsOf("onboardee", e)}

\* Mutant of FinishOnboarding: the onboardee's photos count as deleted.
FinishOnboardingDiscards(e) ==
  /\ e \in onboardees /\ e \notin people
  /\ onboardees' = onboardees \ {e} /\ people' = people \cup {e}
  /\ rows' = Promoted(e)
  /\ undeleted' = undeleted \cup UuidsOf(RowsOf("onboardee", e))
  /\ UNCHANGED <<lost, handlers, store, cleaner>>

FinishOnboarding(e) ==
  /\ e \in onboardees /\ e \notin people
  /\ onboardees' = onboardees \ {e} /\ people' = people \cup {e}
  /\ rows' = Promoted(e)
  /\ UNCHANGED <<undeleted, lost, handlers, store, cleaner>>

PatchProfilePhoto(e, p, u) ==
  /\ "edit" \in Requests /\ e \in people
  /\ StartPut(u)
  /\ Replace(At("photo", e, p), {[kind |-> "photo", owner |-> e, pos |-> p, uuid |-> u]})
  /\ UNCHANGED <<onboardees, people, store, cleaner>>

\* By the owner, or by an administrator's link.
DeleteProfilePhoto(e, p) ==
  /\ "edit" \in Requests /\ At("photo", e, p) # {}
  /\ Replace(At("photo", e, p), {})
  /\ UNCHANGED <<onboardees, people, handlers, store, cleaner>>

\* The first time that an image is sent.  A job that another request inserted
\* after this one's snapshot is not in `old`.
PostSelfie(e, u, old) ==
  /\ "selfie" \in Requests /\ e \in people /\ old \subseteq RowsOf("selfie", e)
  /\ StartPut(u)
  /\ \E p \in Positions :
       Replace(old, {[kind |-> "selfie", owner |-> e, pos |-> p, uuid |-> u]})
  /\ UNCHANGED <<onboardees, people, store, cleaner>>

\* An image that was sent before: no row gets the uuid, yet the image is put.
PostReusedSelfie(e, u) ==
  /\ "reuse" \in Requests /\ e \in people
  /\ StartPut(u)
  /\ lost' = lost \cup {u}
  /\ UNCHANGED <<onboardees, people, rows, undeleted, store, cleaner>>

\* COMMIT fails, e.g. with the connection, in patch_onboardee_info,
\* patch_profile_info or post_verification_selfie: api_tx prints the exception,
\* no row is written or dropped, and the handler goes on to put the image.
PutUnsaved(e, u) ==
  /\ "unsaved" \in Requests /\ e \in onboardees \cup people
  /\ StartPut(u)
  /\ lost' = lost \cup {u}
  /\ UNCHANGED <<onboardees, people, rows, undeleted, store, cleaner>>

\* Mutant of OwnedBy: the selfie is left out.
OwnedButSelfie(e) == RowsOf("photo", e)

\* What an account takes along.
OwnedBy(e) == RowsOf("photo", e) \cup RowsOf("selfie", e)

\* By the member, or by an administrator's ban; the selfie goes by CASCADE.
DeleteAccount(e) ==
  /\ "leave" \in Requests /\ e \in people
  /\ people' = people \ {e}
  /\ rows' = rows \ (RowsOf("photo", e) \cup RowsOf("selfie", e))
  /\ undeleted' = undeleted \cup UuidsOf(OwnedBy(e))
  /\ UNCHANGED <<onboardees, lost, handlers, store, cleaner>>

\* One object has been put.
PutObject(u) ==
  /\ u \in puts /\ u \notin store
  /\ store' = store \cup {u}
  /\ UNCHANGED <<database, handlers, cleaner>>

\* All were put, a put failed (the handler answers 500), or the process died.
PutEnds(u) ==
  /\ u \in puts
  /\ puts' = puts \ {u}
  /\ UNCHANGED <<database, drawn, store, cleaner>>

-----------------------------------------------------------------------------
(* The cron service.                                                        *)

\* Expired onboardees and jobs, and photos found offensive, in one statement.
DeleteGarbage(expired, bad) ==
  /\ "expire" \in Requests
  /\ expired \subseteq onboardees
  /\ bad \subseteq {r \in rows : r.kind # "onboardee"}
  /\ onboardees' = onboardees \ expired
  /\ Replace(bad \cup {r \in rows : r.kind = "onboardee" /\ r.owner \in expired}, {})
  /\ UNCHANGED <<people, handlers, store, cleaner>>

ReadUndeleted ==
  /\ todo = {} /\ chunk = {} /\ undeleted # {}
  /\ todo' = undeleted
  /\ UNCHANGED <<database, handlers, store, chunk, cleaned, raises>>

\* Mutant of Chunks: everything at once.
AllAtOnce == {todo} \ {{}}

\* A slice of the list; only the last may be shorter than ChunkSize.
Chunks ==
  {C \in SUBSET todo : /\ C # {} /\ Cardinality(C) <= ChunkSize
                       /\ C = todo \/ Cardinality(C) = ChunkSize}

\* delete_objects succeeds, also for objects that are not there.
DeleteObjects(C) ==
  /\ chunk = {}
  /\ store' = store \ C
  /\ chunk' = C /\ todo' = todo \ C
  /\ UNCHANGED <<database, handlers, cleaned, raises>>

\* The response lists errors: some objects are gone, the chunk is not marked.
DeleteObjectsErrs(C, gone) ==
  /\ chunk = {} /\ gone \subseteq C
  /\ store' = store \ gone
  /\ todo' = todo \ C
  /\ UNCHANGED <<database, handlers, chunk, cleaned, raises>>

\* Mutant of MarkDeleted: the list is not shortened.
MarkNothing ==
  /\ chunk # {} /\ chunk' = {}
  /\ cleaned' = cleaned \cup chunk
  /\ UNCHANGED <<database, handlers, store, todo, raises>>

MarkDeleted ==
  /\ chunk # {} /\ chunk' = {}
  /\ undeleted' = undeleted \ chunk
  /\ cleaned' = cleaned \cup chunk
  /\ UNCHANGED <<onboardees, people, rows, lost, handlers, store, todo, raises>>

CleanerRaises ==
  /\ todo \cup chunk # {} /\ raises < MaxRaises
  /\ todo' = {} /\ chunk' = {} /\ raises' = raises + 1
  /\ UNCHANGED <<database, handlers, store, cleaned>>

CleanUp ==
  \/ ReadUndeleted \/ MarkDeleted
  \/ \E C \in Chunks : DeleteObjects(C) \/ \E gone \in SUBSET C : DeleteObjectsErrs(C, gone)

Next ==
  \/ \E e \in Emails :
       \/ CheckOtp(e) \/ FinishOnboarding(e) \/ DeleteAccount(e)
       \/ \E p \in Positions : DeleteOnboardeePhoto(e, p) \/ DeleteProfilePhoto(e, p)
       \/ \E u \in Uuids :
            \/ \E p \in Positions : PatchOnboardeePhoto(e, p, u) \/ PatchProfilePhoto(e, p, u)
            \/ \E old \in SUBSET RowsOf("selfie", e) : PostSelfie(e, u, old)
            \/ PostReusedSelfie(e, u) \/ PutUnsaved(e, u)
  \/ \E u \in Uuids : PutObject(u) \/ PutEnds(u)
  \/ \E expired \in SUBSET onboardees, bad \in SUBSET rows : DeleteGarbage(expired, bad)
  \/ CleanUp \/ CleanerRaises

Spec == Init /\ [][Next]_vars

\* clean_photos_forever polls once per minute, and the object store does not
\* refuse the same object for ever.
FairSpec ==
  /\ Spec /\ WF_vars(CleanUp)
  /\ \A u \in Uuids : SF_vars(\E C \in Chunks : u \in C /\ DeleteObjects(C))

-----------------------------------------------------------------------------
(* Properties.                                                              *)

\* Every variable keeps its type; a request to the object store never names
\* more than ChunkSize pictures (its limit is 1000 keys).
TypeOK ==
  /\ onboardees \subseteq Emails /\ people \subseteq Emails
  /\ rows \subseteq Row /\ undeleted \subseteq Uuids
  /\ puts \subseteq drawn /\ store \subseteq drawn /\ drawn \subseteq Uuids
  /\ todo \subseteq Uuids /\ chunk \subseteq Uuids /\ Cardinality(chunk) <= ChunkSize
  /\ cleaned \subseteq Uuids /\ lost \subseteq Uuids /\ raises \in 0..MaxRaises

\* The cleaner never holds, nor will be given, a picture that is in use: no
\* member loses a photo to a list that was read a moment ago.
UsedPhotosAreSafe ==
  UuidsOf(rows) \cap (undeleted \cup todo \cup chunk \cup cleaned) = {}

\* A picture has one row at most, so that no transaction records its uuid twice:
\* undeleted_photo has a primary key, and its inserts no ON CONFLICT.
OneRowPerPicture ==
  \A r, s \in rows : r.uuid = s.uuid => r = s

\* There are four ways to lose a picture and no fifth: onboarding is started
\* anew, a selfie is sent again, the COMMIT of its row failed unnoticed, and its
\* objects are put after they were cleaned up.  Every other object is known to
\* the database, whatever was replaced, promoted or deleted meanwhile.
LossesAreKnown ==
  store \subseteq UuidsOf(rows) \cup undeleted \cup cleaned \cup lost

\* Every recorded picture is eventually deleted and crossed off, whatever the
\* cleaner was doing when it was recorded, raised or was refused.
RecordIsCleaned(u) == u \in undeleted ~> u \notin undeleted

\* The database knows every picture in the object store: it may list pictures
\* that do not exist, but none exists without it (person/__init__.py:511-517).
NothingLeaks ==
  store \subseteq UuidsOf(rows) \cup undeleted

=============================================================================
