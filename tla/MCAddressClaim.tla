--------------------------- MODULE MCAddressClaim ---------------------------
(* AddressClaim for TLC: a NAME that may be lost to (0), tied with (1) and   *)
(* won against (2); a dynamic range with other addresses on both sides.      *)
EXTENDS AddressClaim

MCNames == {0, 1, 2}
=============================================================================
