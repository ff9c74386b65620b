------------------------------ MODULE MCBatcher ------------------------------
(* Values for the constants of Batcher, for TLC.                             *)
EXTENDS Batcher

CONSTANTS i1, i2, i3

MCItems == {i1, i2, i3}

\* The callbacks the chat and cron services register: coroutines, or none.
ServiceKinds == i1 :> "async" @@ i2 :> "none" @@ i3 :> "async"

\* Any mixture, as the class allows.
MixedKinds == i1 :> "sync" @@ i2 :> "async" @@ i3 :> "none"

=============================================================================
