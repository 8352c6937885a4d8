----------------------------- MODULE MCClaimBus -----------------------------
(* ClaimBus for TLC: two ECUs, and other nodes that win (0) or lose (2)      *)
(* against their NAME 1.                                                     *)
EXTENDS ClaimBus

MCNames == {0, 2}
=============================================================================
