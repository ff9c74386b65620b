------------------------------ MODULE Profile ------------------------------
(* A member's profile: photos, the recording and the text of the bio, what the *)
(* feed tells of them (the last event of the row in person), the flag that the *)
(* search filters on, which a trigger derives from the photos, and the         *)
(* settings that only paying members may change.                               *)
(*                                                                             *)
(* Transactions are REPEATABLE READ: of two that write the member's row one    *)
(* fails, so each is one step.  The administrator's deletion of a photo is     *)
(* READ COMMITTED: it waits for the row and goes on with what it had read.     *)
(* Uploads and deletions, the administrator's too, are therefore two steps,    *)
(* the statement and the commit, between which they hold the row.              *)
EXTENDS Naturals, FiniteSets

CONSTANTS ProPositions, ProPics, ProSounds, ProWords,
          ProSettings,  \* the settings that need gold
          ProNone

ASSUME ProAssumption ==
  IsFiniteSet(ProPositions) /\ ProNone \notin ProPics \cup ProSounds

VARIABLES proPhoto,   \* the photo at each position
          proFlag,    \* person.has_profile_picture_id
          proSound,   \* the recording
          proBio,     \* the words of person.about
          proEvent,   \* last_event_name and last_event_data
          proUpload,  \* the uncommitted upload, if it holds the member's row
          proDeletion,\* the uncommitted deletion, if it holds the member's row
          proWaiting, \* the deletions that wait for the row: the photo, the flag
          proRaced,   \* ghost: the flag was last set by a deletion that waited, to
                      \* what had ceased to be true meanwhile
          proGold,    \* person.has_gold
          proOn,      \* settings that differ from their default
          proAsked,   \* settings of requests that have seen that there is gold
          proLate     \* ghost: settings changed although gold had ended meanwhile

photoVars == <<proPhoto, proFlag, proUpload, proDeletion, proWaiting, proRaced>>
bioVars == <<proSound, proBio>>
goldVars == <<proGold, proOn, proAsked, proLate>>
proVars == <<photoVars, bioVars, proEvent, goldVars>>

JoinedEvent == [name |-> "joined", of |-> {}]
Added(name, what) == [name |-> name, of |-> what]
PhotosOf(ph) == {ph[p] : p \in ProPositions} \ {ProNone}
Photos == PhotosOf(proPhoto)
NobodyHolds == proUpload = ProNone /\ proDeletion = ProNone
RowIsFree == NobodyHolds /\ proWaiting = {}

Events ==
  {JoinedEvent}
    \cup {Added("photo", {x}) : x \in ProPics} \cup {Added("sound", {x}) : x \in ProSounds}
    \cup {Added("bio", ws) : ws \in (SUBSET ProWords) \ {{}}}
Deletions == [gone : SUBSET ProPics, flag : BOOLEAN, event : Events, waited : BOOLEAN]

ProTypeOK ==
  /\ proPhoto \in [ProPositions -> ProPics \cup {ProNone}]
  /\ proFlag \in BOOLEAN /\ proRaced \in BOOLEAN /\ proGold \in BOOLEAN
  /\ proSound \in ProSounds \cup {ProNone} /\ proBio \subseteq ProWords
  /\ proEvent \in Events
  /\ proUpload \in [at : ProPositions, pic : ProPics] \cup {ProNone}
  /\ proDeletion = ProNone \/ proDeletion \in Deletions
  /\ proWaiting \subseteq [pic : ProPics, flag : BOOLEAN]
  /\ proOn \cup proAsked \cup proLate \subseteq ProSettings

ProInit ==
  /\ proPhoto = [p \in ProPositions |-> ProNone] /\ proFlag = FALSE
  /\ proSound = ProNone /\ proBio = {} /\ proEvent = JoinedEvent
  /\ proUpload = ProNone /\ proDeletion = ProNone /\ proWaiting = {} /\ proRaced = FALSE
  /\ proGold = FALSE /\ proOn = {} /\ proAsked = {} /\ proLate = {}

-----------------------------------------------------------------------------
(* Photos.                                                                    *)

\* The statement of patch_profile_info for a photo; its uuid is a new one.
StartUpload(p, x) ==
  /\ RowIsFree /\ x \notin Photos
  /\ proUpload' = [at |-> p, pic |-> x]
  /\ UNCHANGED <<proPhoto, proFlag, proDeletion, proWaiting, proRaced, bioVars, proEvent,
                 goldVars>>

\* Replacing a photo fires no trigger; after an insertion it counts the photos.
CommitUpload == LET u == proUpload  ph == [proPhoto EXCEPT ![u.at] = u.pic] IN
  /\ u # ProNone /\ proUpload' = ProNone
  /\ proPhoto' = ph /\ proEvent' = Added("photo", {u.pic})
  /\ IF proPhoto[u.at] = ProNone
     THEN proFlag' = (PhotosOf(ph) # {}) /\ proRaced' = FALSE
     ELSE UNCHANGED <<proFlag, proRaced>>
  /\ UNCHANGED <<proDeletion, proWaiting, bioVars, goldVars>>

AbortUpload ==
  /\ proUpload # ProNone /\ proUpload' = ProNone
  /\ UNCHANGED <<proPhoto, proFlag, proDeletion, proWaiting, proRaced, bioVars, proEvent,
                 goldVars>>

\* Mutant of Forget: the event stays.
ForgetNothing(gone) == proEvent

\* deleted_person_event: the feed forgets an event whose subject is gone.
Forget(gone) == IF proEvent.of \cap gone # {} THEN JoinedEvent ELSE proEvent

Without(xs) == [p \in ProPositions |-> IF proPhoto[p] \in xs THEN ProNone ELSE proPhoto[p]]
LeavesPhoto(xs) == PhotosOf(Without(xs)) # {}

\* A deletion that finds the row free: its trigger counts the photos that are left.
Delete(xs, event) ==
  /\ RowIsFree /\ xs # {} /\ xs \subseteq Photos
  /\ proDeletion' = [gone |-> xs, flag |-> LeavesPhoto(xs), event |-> event, waited |-> FALSE]
  /\ UNCHANGED <<proPhoto, proFlag, proUpload, proWaiting, proRaced, bioVars, proEvent,
                 goldVars>>

\* delete_profile_info: one statement for each position, in one transaction.
DeletePhotos(ps) ==
  LET gone == {proPhoto[p] : p \in ps} \ {ProNone} IN Delete(gone, Forget(gone))

\* Garbage collection of photos that are not safe for work: any event goes.
DeleteUnsafe(xs) == Delete(xs, JoinedEvent)

\* Q_ADMIN_DELETE_PHOTO with the row free.
AdminDeletes(x) == Delete({x}, Forget({x}))

CommitDeletion == LET d == proDeletion IN
  /\ d # ProNone /\ proDeletion' = ProNone
  /\ proPhoto' = Without(d.gone) /\ proFlag' = d.flag /\ proEvent' = d.event
  /\ proRaced' = (d.waited /\ d.flag # LeavesPhoto(d.gone))
  /\ UNCHANGED <<proUpload, proWaiting, bioVars, goldVars>>

AbortDeletion ==
  /\ proDeletion # ProNone /\ proDeletion' = ProNone
  /\ UNCHANGED <<proPhoto, proFlag, proUpload, proWaiting, proRaced, bioVars, proEvent,
                 goldVars>>

\* Q_ADMIN_DELETE_PHOTO while another transaction holds the row.  If the photo's own
\* row is taken as well, it waits for that and finds the photo gone or free.  If the
\* event is to be forgotten, that update waits, and what follows sees what there is
\* then.  Otherwise the trigger counts the photos, still seeing those that others are
\* deleting and not yet the one being uploaded, and only its update waits.
AdminWaits(x) ==
  /\ ~NobodyHolds
  /\ x \in Photos /\ x \notin proEvent.of /\ \A d \in proWaiting : d.pic # x
  /\ proUpload # ProNone => proPhoto[proUpload.at] # x
  /\ proDeletion # ProNone => x \notin proDeletion.gone
  /\ proWaiting' = proWaiting \cup {[pic |-> x, flag |-> LeavesPhoto({x})]}
  /\ UNCHANGED <<proPhoto, proFlag, proUpload, proDeletion, proRaced, bioVars, proEvent,
                 goldVars>>

\* One of those that wait gets the row.
AdminGoesOn(d) ==
  /\ NobodyHolds /\ proWaiting' = proWaiting \ {d}
  /\ proDeletion' = [gone |-> {d.pic}, flag |-> d.flag, event |-> proEvent, waited |-> TRUE]
  /\ UNCHANGED <<proPhoto, proFlag, proUpload, proRaced, bioVars, proEvent, goldVars>>

\* photo_assignments; positions that collide are refused.
Rearrange(f) ==
  /\ RowIsFree
  /\ \A p, q \in ProPositions : p # q => f[p] # f[q]
  /\ proPhoto' = [p \in ProPositions |-> proPhoto[CHOOSE q \in ProPositions : f[q] = p]]
  /\ UNCHANGED <<proFlag, proUpload, proDeletion, proWaiting, proRaced, bioVars, proEvent,
                 goldVars>>

-----------------------------------------------------------------------------
(* The bio.                                                                    *)

PatchSound(x) ==
  /\ RowIsFree /\ x # proSound
  /\ proSound' = x /\ proEvent' = Added("sound", {x})
  /\ UNCHANGED <<photoVars, proBio, goldVars>>

DeleteSound ==
  /\ RowIsFree /\ proSound # ProNone
  /\ proSound' = ProNone /\ proEvent' = Forget({proSound})
  /\ UNCHANGED <<photoVars, proBio, goldVars>>

\* _patch_profile_info_about: the event tells what was added.
PatchAbout(ws) ==
  /\ RowIsFree
  /\ proBio' = ws
  /\ proEvent' = IF ws \subseteq proBio THEN JoinedEvent ELSE Added("bio", ws \ proBio)
  /\ UNCHANGED <<photoVars, proSound, goldVars>>

-----------------------------------------------------------------------------
(* Gold.                                                                       *)

\* _has_gold, a transaction of its own.
AskForGold(f) ==
  /\ proGold /\ f \notin proAsked /\ proAsked' = proAsked \cup {f}
  /\ UNCHANGED <<photoVars, bioVars, proEvent, proGold, proOn, proLate>>

PatchSetting(f, on) ==
  /\ RowIsFree /\ f \in proAsked /\ proAsked' = proAsked \ {f}
  /\ proOn' = IF on THEN proOn \cup {f} ELSE proOn \ {f}
  /\ proLate' = IF on /\ ~proGold THEN proLate \cup {f} ELSE proLate \ {f}
  /\ UNCHANGED <<photoVars, bioVars, proEvent, proGold>>

\* post_revenuecat: purchases and renewals, expirations, transfers.
GetGold ==
  /\ RowIsFree /\ proGold' = TRUE
  /\ UNCHANGED <<photoVars, bioVars, proEvent, proOn, proAsked, proLate>>

LoseGold ==
  /\ RowIsFree /\ proGold' = FALSE /\ proOn' = {} /\ proLate' = {}
  /\ UNCHANGED <<photoVars, bioVars, proEvent, proAsked>>

-----------------------------------------------------------------------------
(* What the feed makes of the last event, depending on whether the member was  *)
(* online just now: its name and its data come from separate CASEs.            *)

\* `recently-online-with-...` is the kind of what it is with.
FeedName(recent) ==
  IF recent /\ proEvent.name = "joined" /\ Photos # {} THEN "photo" ELSE proEvent.name

FeedData(recent) ==
  IF recent /\ proEvent.name = "joined" /\ Photos # {}
  THEN {{x} : x \in Photos} ELSE {proEvent.of}

ProNext ==
  \/ \E p \in ProPositions, x \in ProPics : StartUpload(p, x)
  \/ CommitUpload \/ AbortUpload \/ CommitDeletion \/ AbortDeletion
  \/ \E d \in proWaiting : AdminGoesOn(d)
  \/ \E ps \in SUBSET ProPositions : DeletePhotos(ps)
  \/ \E xs \in SUBSET ProPics : DeleteUnsafe(xs)
  \/ \E f \in [ProPositions -> ProPositions] : Rearrange(f)
  \/ \E x \in ProPics : AdminDeletes(x) \/ AdminWaits(x)
  \/ \E x \in ProSounds : PatchSound(x)
  \/ DeleteSound \/ GetGold \/ LoseGold
  \/ \E ws \in SUBSET ProWords : PatchAbout(ws)
  \/ \E f \in ProSettings : AskForGold(f) \/ \E on \in BOOLEAN : PatchSetting(f, on)

ProSpec == ProInit /\ [][ProNext]_proVars

-----------------------------------------------------------------------------
(* Properties.                                                                 *)

\* The feed announces only what can be seen: the photo, the recording or the
\* words that an item names are the member's own and still there, and name and
\* data speak of the same thing.
FeedTellsWhatIs == \A recent \in BOOLEAN : \A data \in FeedData(recent) :
  CASE FeedName(recent) = "photo"  -> data # {} /\ data \subseteq Photos
    [] FeedName(recent) = "sound"  -> data = {proSound} /\ proSound # ProNone
    [] FeedName(recent) = "bio"    -> data # {} /\ data \subseteq proBio
    [] FeedName(recent) = "joined" -> data = {}

\* Whoever has a photo counts as having one in the search, and nobody else,
\* except after an administrator's deletion that waited while an upload or another
\* deletion, the owner's or an administrator's, changed what it had counted.
FlagFollowsPhotos == proFlag = (Photos # {}) \/ proRaced

\* Without gold every setting that needs it is at its default, except for a
\* request that had seen the gold before it ended.
GoldSettingsEnd == proGold \/ proOn \subseteq proLate

\* All three: what others are told of a profile is what it is.
ProfileIsTold == FeedTellsWhatIs /\ FlagFollowsPhotos /\ GoldSettingsEnd
=============================================================================
