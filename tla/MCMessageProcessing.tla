------------------------- MODULE MCMessageProcessing -------------------------
(* Values for the constants of MessageProcessing.                           *)
EXTENDS MessageProcessing

ConfirmOnly == {"confirm"}
=============================================================================
