------------------------------ MODULE MCLogging ------------------------------
(* Logging for TLC: BUFFER_SIZE is that of inc/conf.h, and rx_counts wraps   *)
(* within the frames of a behaviour.                                         *)
EXTENDS Logging
=============================================================================
