----------------------------- MODULE MCPhotoStore -----------------------------
(* Values for the constants of PhotoStore, for TLC.                          *)
EXTENDS PhotoStore, TLC

CONSTANTS u1, u2, u3

MCUuids == {u1, u2, u3}

SecondSignIn == {"onboard", "again"}

=============================================================================
