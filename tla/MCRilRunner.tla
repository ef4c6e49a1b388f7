---------------------------- MODULE MCRilRunner ----------------------------
(* Instances of RilRunner for TLC. *)
EXTENDS RilRunner, TLC

CONSTANTS r1, r2

PowerAndCalls == r1 :> "RADIO_POWER_ON" @@ r2 :> "GET_CURRENT_CALLS"
=============================================================================
