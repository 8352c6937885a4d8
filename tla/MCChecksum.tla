----------------------------- MODULE MCChecksum -----------------------------
(* Checksum for TLC, with the layout of struct MBlock: an empty block, and   *)
(* one whose bytes are all different from their neighbours.                  *)
EXTENDS Checksum, SequencesExt

MCBits(n) == {b \in 0 .. 7 : (n \div 2^b) % 2 = 1}

MCBlocks == {[n \in 0 .. SIZE - 1 |-> {}],
             [n \in 0 .. SIZE - 1 |-> MCBits((37 * n + 11) % 256)]}

(* The differences one flipped bit leads to, byte by byte: the certificate   *)
(* that no flip is cancelled, in any block (ChecksumProofs).                 *)
MCDifferences ==
    FoldLeft(LAMBDA done, k : Append(done, {Fed(d, {}) : d \in Last(done)}),
             <<{Fed({}, {bit}) : bit \in 0 .. 7}>>, [k \in 1 .. FIELD - 1 |-> k])

(* With the field of struct MBlock at its place every one of the differences *)
(* gets across it.                                                           *)
ASSUME MCCertified == Certifies(MCDifferences)
=============================================================================
