------------------------------ MODULE MCBumper ------------------------------
(* Bumper for TLC: one clock unit is the FLASH_TIME of inc/bumper.h, half of *)
(* its SIGNAL_TIME.                                                          *)
EXTENDS Bumper

MCSpeedValues == {0, 1, 65535}
MCSignalValues == {0, 1, 2, 3, 14, 15}
=============================================================================
