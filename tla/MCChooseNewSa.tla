---------------------------- MODULE MCChooseNewSa ----------------------------
(* ChooseNewSa for TLC, on the whole of a small pool: LAST_ITERATION is one  *)
(* more than J1939_IDLE_ADDR, as 0xFF and 0xFE are in the source.            *)
EXTENDS ChooseNewSa
=============================================================================
