------------------------------ MODULE Checksum ------------------------------
(***************************************************************************)
(* crc32 of src/logging.c over the block that contains the field it writes *)
(* to, one byte of the loop at a time.  Beside it the same loop runs over a *)
(* copy of the block in which the environment flips one bit, as a reader   *)
(* would who recomputes the checksum of a damaged record.                  *)
(*                                                                         *)
(* A byte or a word is the set of its bits that are 1; exclusive or is the *)
(* symmetric difference.                                                   *)
(***************************************************************************)
EXTENDS Integers

CONSTANTS
    Blocks,   \* contents of an MBlock: [0 .. SIZE - 1 -> bytes]
    FIELD,    \* the offset of mblock.crc32, four bytes
    SIZE      \* sizeof (mblock)

Byte == SUBSET (0 .. 7)
Word == SUBSET (0 .. 31)

ASSUME ChecksumAssumption ==
    /\ FIELD \in Nat /\ SIZE \in Nat
    /\ FIELD + 4 <= SIZE
    /\ Blocks \subseteq [0 .. SIZE - 1 -> Byte]

VARIABLES
    block,      \* mblock when crc32 is called
    i,          \* bytes the loop has done
    crc,        \* *crc, that is mblock.crc32
    damaged,    \* the same of the damaged copy
    hit,        \* the copy has been damaged
    register    \* ghost: the CRC-32 register, one bit of the message at a time

vars == <<block, i, crc, damaged, hit, register>>

-----------------------------------------------------------------------------
Xor(a, b)   == (a \ b) \cup (b \ a)
Shr(w, n)   == {b - n : b \in {k \in w : k >= n}}
LowByte(w)  == w \cap (0 .. 7)

POLYNOMIAL == {5, 8, 9, 15, 19, 20, 21, 23, 24, 26, 27, 29, 30, 31}  \* 0xEDB88320

(* crc32_for_byte: eight times, the polynomial enters when the bit that    *)
(* leaves is 0, the complement of the usual division.                      *)
ByteShiftUncomplemented(r) ==   \* mutant
    Xor(IF 0 \in r THEN POLYNOMIAL ELSE {}, Shr(r, 1))

ByteShift(r) == Xor(IF 0 \in r THEN {} ELSE POLYNOMIAL, Shr(r, 1))

crc32_for_byte(byte) ==
    LET r[j \in 0 .. 8] == IF j = 0 THEN byte ELSE ByteShift(r[j - 1])
    IN  Xor(r[8], 24 .. 31)

table == [byte \in Byte |-> crc32_for_byte(byte)]

(* The byte at offset n of the block, while *crc is w: the four bytes of   *)
(* the field are the running value itself.                                 *)
ByteAt(w, n) ==
    IF n \in FIELD .. FIELD + 3 THEN LowByte(Shr(w, 8 * (n - FIELD)))
                                ELSE block[n]

UpdatedLosesByte(w, byte) == Xor(table[Xor(LowByte(w), byte)], Shr(w, 16))   \* mutant

(* The body of the loop. *)
Updated(w, byte) == Xor(table[Xor(LowByte(w), byte)], Shr(w, 8))

-----------------------------------------------------------------------------
(* The textbook register: shifted once for each bit of the message, lowest *)
(* bit of a byte first, the polynomial entering when the bits differ.      *)
Fed(reg, byte) ==
    LET r[j \in 0 .. 8] ==
            IF j = 0 THEN reg
            ELSE Xor(IF (0 \in r[j - 1]) # (j - 1 \in byte) THEN POLYNOMIAL ELSE {},
                     Shr(r[j - 1], 1))
    IN  r[8]

TypeOK ==
    /\ block \in Blocks
    /\ i \in 0 .. SIZE
    /\ crc \in Word
    /\ damaged \in Word
    /\ hit \in BOOLEAN
    /\ register \in Word

(* reset_mblock has set the field to 0. *)
Init ==
    /\ block \in Blocks
    /\ i = 0
    /\ crc = {}
    /\ damaged = {}
    /\ hit = FALSE
    /\ register = 0 .. 31

Step ==
    /\ i < SIZE
    /\ crc' = Updated(crc, ByteAt(crc, i))
    /\ register' = Fed(register, ByteAt(crc, i))
    /\ i' = i + 1
    /\ \/ /\ damaged' = Updated(damaged, ByteAt(damaged, i))
          /\ UNCHANGED hit
       \/ /\ ~hit
          /\ i \notin FIELD .. FIELD + 3
          /\ \E bit \in 0 .. 7 :
                 damaged' = Updated(damaged, Xor(ByteAt(damaged, i), {bit}))
          /\ hit' = TRUE
    /\ UNCHANGED block

Next == Step

Spec == Init /\ [][Next]_vars
-----------------------------------------------------------------------------
(* Up to the field crc32 computes CRC-32 of the bytes before it, although  *)
(* it starts from 0 and never complements: its table divides by the        *)
(* complement (crc32_for_byte).                                            *)
MatchesReference == i <= FIELD => crc = (0 .. 31) \ register

(* Reading the field it is writing to costs the checksum a byte of its 32  *)
(* bits, but not what it is for: a flipped bit, before the field or after  *)
(* it, is never cancelled on the way to the end of the block.              *)
DetectsDamage == hit => crc # damaged
-----------------------------------------------------------------------------
(* The bits in which the two checksums differ, and what the difference     *)
(* does to the byte at offset n: the two copies of the block agree in it,  *)
(* unless it belongs to the field.                                         *)
Damage == Xor(crc, damaged)

FieldByte(damage, n) ==
    IF n \in FIELD .. FIELD + 3 THEN LowByte(Shr(damage, 8 * (n - FIELD))) ELSE {}

(* The difference is a register of its own, fed with the bytes in which    *)
(* the copies differ: what becomes of a flipped bit does not depend on     *)
(* what the block holds.                                                   *)
DamageSpreads ==
    \/ /\ hit' = hit
       /\ Damage' = Fed(Damage, FieldByte(Damage, i))
    \/ /\ ~hit /\ hit' /\ i \notin FIELD .. FIELD + 3
       /\ \E bit \in 0 .. 7 : Damage' = Fed({}, {bit})

(* A flip enters the checksum, and no byte outside the field cancels it.   *)
SurvivesOutsideField ==
    i \notin FIELD .. FIELD + 3 /\ (crc # damaged \/ hit' # hit) => crc' # damaged'

(* The difference d after each byte of the field.                          *)
Crossed(d) ==
    LET d1 == Fed(d, FieldByte(d, FIELD))
        d2 == Fed(d1, FieldByte(d1, FIELD + 1))
        d3 == Fed(d2, FieldByte(d2, FIELD + 2))
        d4 == Fed(d3, FieldByte(d3, FIELD + 3))
    IN  <<d1, d2, d3, d4>>

(* A certificate that the field cancels no flipped bit: D[k] has the       *)
(* differences that a flip leads to within k bytes, and they all get       *)
(* across the field.                                                       *)
Certifies(D) ==
    /\ \A bit \in 0 .. 7 : Fed({}, {bit}) \in D[1]
    /\ \A k \in 1 .. FIELD - 1 : \A d \in D[k] : Fed(d, {}) \in D[k + 1]
    /\ \A k \in 1 .. FIELD : \A d \in D[k] : \A m \in 1 .. 4 : Crossed(d)[m] # {}

(* Until a bit is flipped the two copies have the same checksum.            *)
Undamaged == ~hit => crc = damaged

IInv == TypeOK /\ MatchesReference /\ Undamaged
=============================================================================
