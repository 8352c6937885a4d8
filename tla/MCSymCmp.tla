------------------------------- MODULE MCSymCmp -------------------------------
(* Sizes of the source; OUTPUT_SIZE leaves room for two blocks.            *)
EXTENDS SymCmp

(* All zeros, all ones and a byte that rotating changes.                   *)
MCFrameBytes == {ByteOf(0), ByteOf(255), ByteOf(85)}
=============================================================================
