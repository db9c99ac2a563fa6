------------------------- MODULE MCPlaygroundChat -------------------------
(* The playground page with a user who uses whatever control is enabled.   *)
EXTENDS PlaygroundChat

BothModes == BOOLEAN
=============================================================================
