------------------------------- MODULE MCPhotos -------------------------------
(* PhotoStore and Verification, which share no step: TLC picks one of them and *)
(* runs it, under its own fairness.                                            *)
EXTENDS MCPhotoStore, MCVerification

CONSTANTS s1, s2

VARIABLE part

PicInit == part \in {"store", "verification"} /\ Init /\ VerInit

PicNext ==
  /\ UNCHANGED part
  /\ \/ part = "store" /\ Next /\ UNCHANGED verVars
     \/ part = "verification" /\ VerNext /\ UNCHANGED vars

picVars == <<part, vars, verVars>>

InStore(A) == part = "store" /\ A /\ UNCHANGED <<part, verVars>>
InVerification(A) == part = "verification" /\ A /\ UNCHANGED <<part, vars>>

\* The fairness of FairSpec and of VerFairSpec.  Only one of CleanUp and Runner
\* is ever enabled in a behaviour.
PicSpec ==
  /\ PicInit /\ [][PicNext]_picVars
  /\ WF_picVars(InStore(CleanUp) \/ InVerification(Runner))
  /\ \A u \in Uuids : SF_picVars(InStore(\E C \in Chunks : u \in C /\ DeleteObjects(C)))

\* The variables of both keep their types.
PicTypeOK == TypeOK /\ VerTypeOK

\* Uuids of PhotoStore are interchangeable, and so are selfies: one stands for
\* all.  Every recorded picture is eventually deleted and crossed off.
EveryRecordIsCleaned == RecordIsCleaned(u1)

\* A job that was queued ends, or is replaced, unless the runner raises.
QueuedJobsEnd == QueuedJobEnds(s1)
=============================================================================
