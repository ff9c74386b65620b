---------------------------- MODULE MCVerification ----------------------------
(* Values for the constants of Verification, for TLC.                        *)
EXTENDS Verification

CONSTANTS ann

MCPeople == {ann}
AllEdits == {"gender", "add", "delete"}
OnlyAdd == {"add"}

=============================================================================
