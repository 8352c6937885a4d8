---------------------------- MODULE ChecksumProofs ----------------------------
(***************************************************************************)
(* Proofs about crc32, for every content of the block and every place of   *)
(* the field in it.  A byte or a word is a set of bits, so equations       *)
(* between words are proved bit by bit.  The two loops of eight shifts are *)
(* unrolled once (EightSteps) and compared by induction over the eight     *)
(* (UpToEight).  What carries the rest: a step of crc32 is a step of the   *)
(* CRC-32 register between two complements (UpdatedIsFed), and the         *)
(* register is linear (FedLinear), so that the difference of two checksums *)
(* is a register of its own, fed with the differences of the bytes         *)
(* (DifferenceFed).                                                        *)
(***************************************************************************)
EXTENDS Checksum, TLAPS

-----------------------------------------------------------------------------
(* Words as sets of bits. *)

(* The bits of an exclusive or and of a shifted word. *)
LEMMA InXor ==
    ASSUME NEW a, NEW b, NEW x
    PROVE  x \in Xor(a, b) <=> ~(x \in a <=> x \in b)
  BY Zenon DEF Xor

LEMMA InShr ==
    ASSUME NEW w, w \subseteq Nat, NEW n \in Nat, NEW x
    PROVE  x \in Shr(w, n) <=> x \in Nat /\ x + n \in w
<1>1. ASSUME x \in Shr(w, n) PROVE x \in Nat /\ x + n \in w
  <2>1. PICK b \in w : b >= n /\ x = b - n
    BY <1>1, Zenon DEF Shr
  <2>2. b \in Nat
    OBVIOUS
  <2>3. x \in Nat /\ x + n = b
    BY <2>1, <2>2
  <2> QED BY <2>3
<1>2. ASSUME x \in Nat, x + n \in w PROVE x \in Shr(w, n)
  <2>1. x + n >= n /\ (x + n) - n = x
    BY <1>2
  <2>2. x + n \in {k \in w : k >= n}
    BY <1>2, <2>1
  <2> QED BY <2>1, <2>2, Zenon DEF Shr
<1> QED BY <1>1, <1>2

(* Words and bytes are the sets of bits below 32 and 8. *)
LEMMA WordBits ==
    /\ \A w \in Word : w \subseteq Nat
    /\ \A w : w \in Word <=> \A x \in w : x \in Nat /\ x < 32
    /\ \A w : w \in Byte <=> \A x \in w : x \in Nat /\ x < 8
    /\ Byte \subseteq Word
<1>1. \A x : x \in 0 .. 31 <=> x \in Nat /\ x < 32
  BY SMT
<1>2. \A x : x \in 0 .. 7 <=> x \in Nat /\ x < 8
  BY SMT
<1>3. \A x : x \in Nat /\ x < 8 => x < 32
  BY SMT
<1> QED BY <1>1, <1>2, <1>3, Zenon DEF Word, Byte

LEMMA XorWord ==
    ASSUME NEW a \in Word, NEW b \in Word
    PROVE  Xor(a, b) \in Word
  BY Zenon DEF Xor, Word

LEMMA XorByte ==
    ASSUME NEW a \in Byte, NEW b \in Byte
    PROVE  Xor(a, b) \in Byte
  BY Zenon DEF Xor, Byte

LEMMA ShrWord ==
    ASSUME NEW w \in Word, NEW n \in Nat
    PROVE  Shr(w, n) \in Word
<1>1. ASSUME NEW x \in Shr(w, n) PROVE x \in Nat /\ x < 32
  <2>1. x \in Nat /\ x + n \in w
    BY WordBits, InShr
  <2>2. x + n < 32
    BY <2>1, WordBits
  <2> QED BY <2>1, <2>2
<1> QED BY <1>1, WordBits

LEMMA LowByteType ==
    ASSUME NEW w
    PROVE  LowByte(w) \in Byte
  BY Zenon DEF LowByte, Byte

LEMMA PolynomialWord ==
    POLYNOMIAL \in Word /\ {} \in Word /\ 31 \in POLYNOMIAL
  BY DEF POLYNOMIAL, Word

(* One more shift by one. *)
LEMMA ShrOnce ==
    ASSUME NEW w \in Word, NEW n \in Nat
    PROVE  Shr(Shr(w, n), 1) = Shr(w, n + 1)
<1>1. w \subseteq Nat /\ Shr(w, n) \subseteq Nat
  BY ShrWord, WordBits
<1>3. n + 1 \in Nat
  OBVIOUS
<1>2. ASSUME NEW x PROVE x \in Shr(Shr(w, n), 1) <=> x \in Shr(w, n + 1)
  <2>1. x \in Shr(Shr(w, n), 1) <=> x \in Nat /\ x + 1 \in Nat /\ (x + 1) + n \in w
    BY <1>1, InShr
  <2>2. x \in Shr(w, n + 1) <=> x \in Nat /\ x + (n + 1) \in w
    BY <1>1, <1>3, InShr, Zenon
  <2>3. x \in Nat => x + 1 \in Nat /\ (x + 1) + n = x + (n + 1)
    OBVIOUS
  <2> QED BY <2>1, <2>2, <2>3
<1> QED BY <1>2, Zenon

(* A shift distributes over exclusive or. *)
LEMMA ShrXor ==
    ASSUME NEW a \in Word, NEW b \in Word, NEW n \in Nat
    PROVE  Shr(Xor(a, b), n) = Xor(Shr(a, n), Shr(b, n))
<1>1. a \subseteq Nat /\ b \subseteq Nat /\ Xor(a, b) \subseteq Nat
  BY XorWord, WordBits
<1>2. ASSUME NEW x PROVE x \in Shr(Xor(a, b), n) <=> x \in Xor(Shr(a, n), Shr(b, n))
  <2>1. x \in Shr(Xor(a, b), n) <=> x \in Nat /\ x + n \in Xor(a, b)
    BY <1>1, InShr
  <2>2. /\ x \in Shr(a, n) <=> x \in Nat /\ x + n \in a
        /\ x \in Shr(b, n) <=> x \in Nat /\ x + n \in b
    BY <1>1, InShr
  <2>3. /\ x + n \in Xor(a, b) <=> ~(x + n \in a <=> x + n \in b)
        /\ x \in Xor(Shr(a, n), Shr(b, n)) <=> ~(x \in Shr(a, n) <=> x \in Shr(b, n))
    BY InXor
  <2> QED BY <2>1, <2>2, <2>3
<1> QED BY <1>2, Zenon

LEMMA ShrNone ==
    ASSUME NEW w \in Word
    PROVE  Shr(w, 0) = w
<1>1. ASSUME NEW x PROVE x \in Shr(w, 0) <=> x \in w
  <2>1. w \subseteq Nat
    BY WordBits
  <2>2. 0 \in Nat /\ \A y \in Nat : y + 0 = y
    OBVIOUS
  <2>3. x \in Shr(w, 0) <=> x \in Nat /\ x + 0 \in w
    BY <2>1, <2>2, InShr, Zenon
  <2> QED BY <2>1, <2>2, <2>3, Zenon
<1> QED BY <1>1, Zenon

(* Words with exclusive or are a group in which each is its own inverse. *)
LEMMA XorAlgebra ==
    ASSUME NEW a, NEW b, NEW c
    PROVE  /\ Xor(a, b) = Xor(b, a)
           /\ Xor(Xor(a, b), c) = Xor(a, Xor(b, c))
           /\ Xor(a, a) = {}
           /\ Xor(a, {}) = a
           /\ Xor(a, b) = {} <=> a = b
<1>1. Xor(a, b) = Xor(b, a)
  BY Zenon DEF Xor
<1>2. Xor(Xor(a, b), c) = Xor(a, Xor(b, c))
  <2>1. ASSUME NEW x PROVE x \in Xor(Xor(a, b), c) <=> x \in Xor(a, Xor(b, c))
    <3>1. /\ x \in Xor(Xor(a, b), c) <=> ~(x \in Xor(a, b) <=> x \in c)
          /\ x \in Xor(a, Xor(b, c)) <=> ~(x \in a <=> x \in Xor(b, c))
      BY InXor
    <3>2. /\ x \in Xor(a, b) <=> ~(x \in a <=> x \in b)
          /\ x \in Xor(b, c) <=> ~(x \in b <=> x \in c)
      BY InXor
    <3> QED BY <3>1, <3>2
  <2> QED BY <2>1, Zenon
<1>3. Xor(a, a) = {} /\ Xor(a, {}) = a
  BY Zenon DEF Xor
<1>4. Xor(a, b) = {} <=> a = b
  BY Zenon DEF Xor
<1> QED BY <1>1, <1>2, <1>3, <1>4

(* x xor y differs from x' xor y' by what x, x' and y, y' differ by.       *)
LEMMA XorPairs ==
    ASSUME NEW a, NEW b, NEW c, NEW d
    PROVE  Xor(Xor(a, b), Xor(c, d)) = Xor(Xor(a, c), Xor(b, d))
<1>1. ASSUME NEW x
      PROVE  x \in Xor(Xor(a, b), Xor(c, d)) <=> x \in Xor(Xor(a, c), Xor(b, d))
  <2>1. /\ x \in Xor(Xor(a, b), Xor(c, d)) <=> ~(x \in Xor(a, b) <=> x \in Xor(c, d))
        /\ x \in Xor(Xor(a, c), Xor(b, d)) <=> ~(x \in Xor(a, c) <=> x \in Xor(b, d))
    BY InXor
  <2>2. /\ x \in Xor(a, b) <=> ~(x \in a <=> x \in b)
        /\ x \in Xor(c, d) <=> ~(x \in c <=> x \in d)
        /\ x \in Xor(a, c) <=> ~(x \in a <=> x \in c)
        /\ x \in Xor(b, d) <=> ~(x \in b <=> x \in d)
    BY InXor
  <2> QED BY <2>1, <2>2
<1> QED BY <1>1, Zenon

-----------------------------------------------------------------------------
(* The loops of eight steps: a sequence of values that starts at w and    *)
(* goes on by S exists, so the CHOOSE behind a recursive function has one. *)
LEMMA EightSteps ==
    ASSUME NEW W, NEW w \in W, NEW S \in [1 .. 8 -> [W -> W]]
    PROVE  \E r \in [0 .. 8 -> W] :
               \A j \in 0 .. 8 : r[j] = IF j = 0 THEN w ELSE S[j][r[j - 1]]
<1> DEFINE s1 == S[1][w]
           s2 == S[2][s1]
           s3 == S[3][s2]
           s4 == S[4][s3]
           s5 == S[5][s4]
           s6 == S[6][s5]
           s7 == S[7][s6]
           s8 == S[8][s7]
           r  == [j \in 0 .. 8 |->
                     IF j = 0 THEN w ELSE IF j = 1 THEN s1 ELSE IF j = 2 THEN s2
                     ELSE IF j = 3 THEN s3 ELSE IF j = 4 THEN s4 ELSE IF j = 5 THEN s5
                     ELSE IF j = 6 THEN s6 ELSE IF j = 7 THEN s7 ELSE s8]
<1>1. /\ S[1] \in [W -> W] /\ S[2] \in [W -> W] /\ S[3] \in [W -> W]
      /\ S[4] \in [W -> W] /\ S[5] \in [W -> W] /\ S[6] \in [W -> W]
      /\ S[7] \in [W -> W] /\ S[8] \in [W -> W]
  OBVIOUS
<1>2. ASSUME NEW F \in [W -> W], NEW x \in W PROVE F[x] \in W
  BY <1>2
<1>11. s1 \in W
  BY <1>1, <1>2, Zenon
<1>12. s2 \in W
  BY <1>1, <1>2, <1>11, Zenon
<1>13. s3 \in W
  BY <1>1, <1>2, <1>12, Zenon
<1>14. s4 \in W
  BY <1>1, <1>2, <1>13, Zenon
<1>15. s5 \in W
  BY <1>1, <1>2, <1>14, Zenon
<1>16. s6 \in W
  BY <1>1, <1>2, <1>15, Zenon
<1>17. s7 \in W
  BY <1>1, <1>2, <1>16, Zenon
<1>18. s8 \in W
  BY <1>1, <1>2, <1>17, Zenon
<1> HIDE DEF s1, s2, s3, s4, s5, s6, s7, s8
<1>3. r \in [0 .. 8 -> W]
  BY <1>11, <1>12, <1>13, <1>14, <1>15, <1>16, <1>17, <1>18
<1>4. /\ r[0] = w /\ r[1] = s1 /\ r[2] = s2 /\ r[3] = s3 /\ r[4] = s4
      /\ r[5] = s5 /\ r[6] = s6 /\ r[7] = s7 /\ r[8] = s8
  OBVIOUS
<1> HIDE DEF r
<1>5. ASSUME NEW j \in 0 .. 8
      PROVE  r[j] = IF j = 0 THEN w ELSE S[j][r[j - 1]]
  <2>0. CASE j = 0
    BY <1>4, <2>0
  <2>1. CASE j = 1
    <3>1. j # 0 /\ j - 1 = 0
      BY <2>1
    <3>2. r[j] = S[1][w]
      BY <1>4, <2>1, Zenon DEF s1
    <3>3. S[j][r[j - 1]] = S[1][w]
      BY <1>4, <2>1, <3>1, Zenon
    <3> QED BY <3>1, <3>2, <3>3, Zenon
  <2>2. CASE j = 2
    <3>1. j # 0 /\ j - 1 = 1
      BY <2>2
    <3>2. r[j] = S[2][s1]
      BY <1>4, <2>2, Zenon DEF s2
    <3>3. S[j][r[j - 1]] = S[2][s1]
      BY <1>4, <2>2, <3>1, Zenon
    <3> QED BY <3>1, <3>2, <3>3, Zenon
  <2>3. CASE j = 3
    <3>1. j # 0 /\ j - 1 = 2
      BY <2>3
    <3>2. r[j] = S[3][s2]
      BY <1>4, <2>3, Zenon DEF s3
    <3>3. S[j][r[j - 1]] = S[3][s2]
      BY <1>4, <2>3, <3>1, Zenon
    <3> QED BY <3>1, <3>2, <3>3, Zenon
  <2>4. CASE j = 4
    <3>1. j # 0 /\ j - 1 = 3
      BY <2>4
    <3>2. r[j] = S[4][s3]
      BY <1>4, <2>4, Zenon DEF s4
    <3>3. S[j][r[j - 1]] = S[4][s3]
      BY <1>4, <2>4, <3>1, Zenon
    <3> QED BY <3>1, <3>2, <3>3, Zenon
  <2>5. CASE j = 5
    <3>1. j # 0 /\ j - 1 = 4
      BY <2>5
    <3>2. r[j] = S[5][s4]
      BY <1>4, <2>5, Zenon DEF s5
    <3>3. S[j][r[j - 1]] = S[5][s4]
      BY <1>4, <2>5, <3>1, Zenon
    <3> QED BY <3>1, <3>2, <3>3, Zenon
  <2>6. CASE j = 6
    <3>1. j # 0 /\ j - 1 = 5
      BY <2>6
    <3>2. r[j] = S[6][s5]
      BY <1>4, <2>6, Zenon DEF s6
    <3>3. S[j][r[j - 1]] = S[6][s5]
      BY <1>4, <2>6, <3>1, Zenon
    <3> QED BY <3>1, <3>2, <3>3, Zenon
  <2>7. CASE j = 7
    <3>1. j # 0 /\ j - 1 = 6
      BY <2>7
    <3>2. r[j] = S[7][s6]
      BY <1>4, <2>7, Zenon DEF s7
    <3>3. S[j][r[j - 1]] = S[7][s6]
      BY <1>4, <2>7, <3>1, Zenon
    <3> QED BY <3>1, <3>2, <3>3, Zenon
  <2>8. CASE j = 8
    <3>1. j # 0 /\ j - 1 = 7
      BY <2>8
    <3>2. r[j] = S[8][s7]
      BY <1>4, <2>8, Zenon DEF s8
    <3>3. S[j][r[j - 1]] = S[8][s7]
      BY <1>4, <2>8, <3>1, Zenon
    <3> QED BY <3>1, <3>2, <3>3, Zenon
  <2>9. j = 0 \/ j = 1 \/ j = 2 \/ j = 3 \/ j = 4 \/ j = 5 \/ j = 6 \/ j = 7 \/ j = 8
    BY SMT
  <2> QED BY <2>0, <2>1, <2>2, <2>3, <2>4, <2>5, <2>6, <2>7, <2>8, <2>9, Zenon
<1> QED BY <1>3, <1>5, Zenon

(* Induction over the eight steps. *)
LEMMA UpToEight ==
    ASSUME NEW I, 0 \in I, \A j \in 1 .. 8 : j - 1 \in I => j \in I
    PROVE  \A j \in 0 .. 8 : j \in I
<1>1. 1 \in I
  <2>1. 1 \in 1 .. 8 /\ 1 - 1 = 0
    BY SMT
  <2> QED BY <2>1, Zenon
<1>2. 2 \in I
  <2>1. 2 \in 1 .. 8 /\ 2 - 1 = 1
    BY SMT
  <2> QED BY <1>1, <2>1, Zenon
<1>3. 3 \in I
  <2>1. 3 \in 1 .. 8 /\ 3 - 1 = 2
    BY SMT
  <2> QED BY <1>2, <2>1, Zenon
<1>4. 4 \in I
  <2>1. 4 \in 1 .. 8 /\ 4 - 1 = 3
    BY SMT
  <2> QED BY <1>3, <2>1, Zenon
<1>5. 5 \in I
  <2>1. 5 \in 1 .. 8 /\ 5 - 1 = 4
    BY SMT
  <2> QED BY <1>4, <2>1, Zenon
<1>6. 6 \in I
  <2>1. 6 \in 1 .. 8 /\ 6 - 1 = 5
    BY SMT
  <2> QED BY <1>5, <2>1, Zenon
<1>7. 7 \in I
  <2>1. 7 \in 1 .. 8 /\ 7 - 1 = 6
    BY SMT
  <2> QED BY <1>6, <2>1, Zenon
<1>8. 8 \in I
  <2>1. 8 \in 1 .. 8 /\ 8 - 1 = 7
    BY SMT
  <2> QED BY <1>7, <2>1, Zenon
<1>9. \A j \in 0 .. 8 : \/ j = 0 \/ j = 1 \/ j = 2 \/ j = 3 \/ j = 4
                         \/ j = 5 \/ j = 6 \/ j = 7 \/ j = 8
  BY SMT
<1> QED BY <1>1, <1>2, <1>3, <1>4, <1>5, <1>6, <1>7, <1>8, <1>9, Zenon

LEMMA ByteShiftWord ==
    ASSUME NEW w \in Word
    PROVE  ByteShift(w) \in Word
<1>1. Shr(w, 1) \in Word
  BY ShrWord
<1>2. (IF 0 \in w THEN {} ELSE POLYNOMIAL) \in Word
  BY PolynomialWord, Zenon
<1> QED BY <1>1, <1>2, XorWord, Zenon DEF ByteShift

(* The loop of crc32_for_byte. *)
LEMMA TableSteps ==
    ASSUME NEW byte \in Byte
    PROVE  \E r \in [0 .. 8 -> Word] :
               /\ r[0] = byte
               /\ \A j \in 1 .. 8 : r[j] = ByteShift(r[j - 1])
               /\ crc32_for_byte(byte) = Xor(r[8], 24 .. 31)
<1> DEFINE S == [j \in 1 .. 8 |-> [w \in Word |-> ByteShift(w)]]
           R == CHOOSE r : r = [j \in 0 .. 8 |-> IF j = 0 THEN byte ELSE ByteShift(r[j - 1])]
<1>1. S \in [1 .. 8 -> [Word -> Word]]
  BY ByteShiftWord, Zenon
<1>2. byte \in Word
  BY WordBits
<1>3. \A j \in 1 .. 8, w \in Word : S[j][w] = ByteShift(w)
  BY Zenon
<1> HIDE DEF S
<1>4. \E f \in [0 .. 8 -> Word] :
          \A j \in 0 .. 8 : f[j] = IF j = 0 THEN byte ELSE S[j][f[j - 1]]
  BY <1>1, <1>2, EightSteps
<1>5. PICK f \in [0 .. 8 -> Word] :
          \A j \in 0 .. 8 : f[j] = IF j = 0 THEN byte ELSE S[j][f[j - 1]]
  BY <1>4, Zenon
<1>6. ASSUME NEW j \in 0 .. 8
      PROVE  (IF j = 0 THEN byte ELSE S[j][f[j - 1]])
               = (IF j = 0 THEN byte ELSE ByteShift(f[j - 1]))
  <2>1. j # 0 => j \in 1 .. 8 /\ j - 1 \in 0 .. 8
    BY SMT
  <2>2. j # 0 => f[j - 1] \in Word
    BY <2>1, Zenon
  <2> QED BY <1>3, <2>1, <2>2, Zenon
<1>7. f = [j \in 0 .. 8 |-> IF j = 0 THEN byte ELSE ByteShift(f[j - 1])]
  <2>1. f = [j \in 0 .. 8 |-> f[j]]
    BY Zenon
  <2> QED BY <1>5, <1>6, <2>1, Zenon
<1>8. R = [j \in 0 .. 8 |-> IF j = 0 THEN byte ELSE ByteShift(R[j - 1])]
  BY <1>7, Zenon
<1>9. crc32_for_byte(byte) = Xor(R[8], 24 .. 31)
  BY Zenon DEF crc32_for_byte
<1> HIDE DEF R
<1>10. R \in [0 .. 8 -> Word] /\ R[0] = byte /\ \A j \in 1 .. 8 : R[j] = ByteShift(R[j - 1])
  <2>1. ASSUME NEW j \in 0 .. 8
        PROVE  R[j] = IF j = 0 THEN byte ELSE ByteShift(R[j - 1])
    BY <1>8, Zenon
  <2>2. R[0] = byte
    <3>1. 0 \in 0 .. 8
      BY SMT
    <3> QED BY <2>1, <3>1, Zenon
  <2>3. ASSUME NEW j \in 1 .. 8 PROVE R[j] = ByteShift(R[j - 1]) /\ j \in 0 .. 8
    <3>1. j \in 0 .. 8 /\ j # 0
      BY SMT
    <3> QED BY <2>1, <3>1, Zenon
  <2> DEFINE I == {j \in 0 .. 8 : R[j] \in Word}
  <2>4. 0 \in I
    <3>1. 0 \in 0 .. 8
      BY SMT
    <3> QED BY <1>2, <2>2, <3>1, Zenon
  <2>5. \A j \in 1 .. 8 : j - 1 \in I => j \in I
    BY <2>3, ByteShiftWord, Zenon
  <2>6. \A j \in 0 .. 8 : j \in I
    <3> HIDE DEF I
    <3> QED BY <2>4, <2>5, UpToEight
  <2>7. R = [j \in 0 .. 8 |-> R[j]]
    BY <1>8, Zenon
  <2>8. \A j \in 0 .. 8 : R[j] \in Word
    BY <2>6, Zenon
  <2>9. R \in [0 .. 8 -> Word]
    BY <2>7, <2>8, Zenon
  <2> QED BY <2>2, <2>3, <2>9, Zenon
<1> QED BY <1>9, <1>10, Zenon

(* One shift of the CRC-32 register, with the bit b of the message. *)
FedShift(w, b) == Xor(IF (0 \in w) # b THEN POLYNOMIAL ELSE {}, Shr(w, 1))

LEMMA FedShiftWord ==
    ASSUME NEW w \in Word, NEW b
    PROVE  FedShift(w, b) \in Word
<1>1. Shr(w, 1) \in Word
  BY ShrWord
<1>2. (IF (0 \in w) # b THEN POLYNOMIAL ELSE {}) \in Word
  BY PolynomialWord, Zenon
<1> QED BY <1>1, <1>2, XorWord, Zenon DEF FedShift

(* The eight bits that Fed takes in. *)
LEMMA FedSteps ==
    ASSUME NEW reg \in Word, NEW byte
    PROVE  \E r \in [0 .. 8 -> Word] :
               /\ r[0] = reg
               /\ \A j \in 1 .. 8 : r[j] = FedShift(r[j - 1], j - 1 \in byte)
               /\ Fed(reg, byte) = r[8]
<1> DEFINE S == [j \in 1 .. 8 |-> [w \in Word |-> FedShift(w, j - 1 \in byte)]]
           R == CHOOSE r : r = [j \in 0 .. 8 |->
                   IF j = 0 THEN reg
                   ELSE Xor(IF (0 \in r[j - 1]) # (j - 1 \in byte)
                                THEN POLYNOMIAL ELSE {}, Shr(r[j - 1], 1))]
<1>1. S \in [1 .. 8 -> [Word -> Word]]
  BY FedShiftWord, Zenon
<1>3. \A j \in 1 .. 8, w \in Word : S[j][w] = FedShift(w, j - 1 \in byte)
  BY Zenon
<1> HIDE DEF S
<1>4. \E f \in [0 .. 8 -> Word] :
          \A j \in 0 .. 8 : f[j] = IF j = 0 THEN reg ELSE S[j][f[j - 1]]
  BY <1>1, EightSteps
<1>5. PICK f \in [0 .. 8 -> Word] :
          \A j \in 0 .. 8 : f[j] = IF j = 0 THEN reg ELSE S[j][f[j - 1]]
  BY <1>4, Zenon
<1>6. ASSUME NEW j \in 0 .. 8
      PROVE  (IF j = 0 THEN reg ELSE S[j][f[j - 1]])
               = (IF j = 0 THEN reg ELSE FedShift(f[j - 1], j - 1 \in byte))
  <2>1. j # 0 => j \in 1 .. 8 /\ j - 1 \in 0 .. 8
    BY SMT
  <2>2. j # 0 => f[j - 1] \in Word
    BY <2>1, Zenon
  <2> QED BY <1>3, <2>1, <2>2, Zenon
<1>7. f = [j \in 0 .. 8 |->
              IF j = 0 THEN reg
              ELSE Xor(IF (0 \in f[j - 1]) # (j - 1 \in byte)
                           THEN POLYNOMIAL ELSE {}, Shr(f[j - 1], 1))]
  <2>1. f = [j \in 0 .. 8 |-> f[j]]
    BY Zenon
  <2> QED BY <1>5, <1>6, <2>1, Zenon DEF FedShift
<1>8. R = [j \in 0 .. 8 |->
              IF j = 0 THEN reg
              ELSE Xor(IF (0 \in R[j - 1]) # (j - 1 \in byte)
                           THEN POLYNOMIAL ELSE {}, Shr(R[j - 1], 1))]
  BY <1>7, Zenon
<1>9. Fed(reg, byte) = R[8]
  BY Zenon DEF Fed
<1> HIDE DEF R
<1>10. /\ R \in [0 .. 8 -> Word] /\ R[0] = reg
       /\ \A j \in 1 .. 8 : R[j] = FedShift(R[j - 1], j - 1 \in byte)
  <2>1. ASSUME NEW j \in 0 .. 8
        PROVE  R[j] = IF j = 0 THEN reg ELSE FedShift(R[j - 1], j - 1 \in byte)
    BY <1>8, Zenon DEF FedShift
  <2>2. R[0] = reg
    <3>1. 0 \in 0 .. 8
      BY SMT
    <3> QED BY <2>1, <3>1, Zenon
  <2>3. ASSUME NEW j \in 1 .. 8
        PROVE  R[j] = FedShift(R[j - 1], j - 1 \in byte) /\ j \in 0 .. 8
    <3>1. j \in 0 .. 8 /\ j # 0
      BY SMT
    <3> QED BY <2>1, <3>1, Zenon
  <2> DEFINE I == {j \in 0 .. 8 : R[j] \in Word}
  <2>4. 0 \in I
    <3>1. 0 \in 0 .. 8
      BY SMT
    <3> QED BY <2>2, <3>1, Zenon
  <2>5. \A j \in 1 .. 8 : j - 1 \in I => j \in I
    BY <2>3, FedShiftWord, Zenon
  <2>6. \A j \in 0 .. 8 : j \in I
    <3> HIDE DEF I
    <3> QED BY <2>4, <2>5, UpToEight
  <2>7. R = [j \in 0 .. 8 |-> R[j]]
    BY <1>8, Zenon
  <2>8. \A j \in 0 .. 8 : R[j] \in Word
    BY <2>6, Zenon
  <2>9. R \in [0 .. 8 -> Word]
    BY <2>7, <2>8, Zenon
  <2> QED BY <2>2, <2>3, <2>9, Zenon
<1> QED BY <1>9, <1>10, Zenon

-----------------------------------------------------------------------------
(* One shift of two registers. *)

LEMMA FedShiftEither ==
    ASSUME NEW w, NEW n, NEW byte
    PROVE  /\ (0 \in w <=> n \in byte)  => FedShift(w, n \in byte) = Xor({}, Shr(w, 1))
           /\ ~(0 \in w <=> n \in byte) => FedShift(w, n \in byte) = Xor(POLYNOMIAL, Shr(w, 1))
  BY DEF FedShift

(* The register is linear: shift by shift, then byte by byte. *)
LEMMA FedShiftLinear ==
    ASSUME NEW w \in Word, NEW v \in Word, NEW n, NEW a, NEW b
    PROVE  FedShift(Xor(w, v), n \in Xor(a, b))
             = Xor(FedShift(w, n \in a), FedShift(v, n \in b))
<1> DEFINE p == IF 0 \in w <=> n \in a THEN {} ELSE POLYNOMIAL
           q == IF 0 \in v <=> n \in b THEN {} ELSE POLYNOMIAL
           t == IF 0 \in Xor(w, v) <=> n \in Xor(a, b) THEN {} ELSE POLYNOMIAL
<1>1. /\ FedShift(w, n \in a) = Xor(p, Shr(w, 1))
      /\ FedShift(v, n \in b) = Xor(q, Shr(v, 1))
      /\ FedShift(Xor(w, v), n \in Xor(a, b)) = Xor(t, Shr(Xor(w, v), 1))
  BY FedShiftEither, Zenon
<1>2. t = Xor(p, q)
  <2>1. /\ 0 \in Xor(w, v) <=> ~(0 \in w <=> 0 \in v)
        /\ n \in Xor(a, b) <=> ~(n \in a <=> n \in b)
    BY InXor
  <2>2. /\ Xor({}, {}) = {} /\ Xor({}, POLYNOMIAL) = POLYNOMIAL
        /\ Xor(POLYNOMIAL, {}) = POLYNOMIAL /\ Xor(POLYNOMIAL, POLYNOMIAL) = {}
    BY XorAlgebra
  <2> QED BY <2>1, <2>2
<1>3. Shr(Xor(w, v), 1) = Xor(Shr(w, 1), Shr(v, 1))
  BY ShrXor
<1> HIDE DEF p, q, t
<1>4. Xor(Xor(p, q), Xor(Shr(w, 1), Shr(v, 1))) = Xor(Xor(p, Shr(w, 1)), Xor(q, Shr(v, 1)))
  BY XorPairs
<1> QED BY <1>1, <1>2, <1>3, <1>4

LEMMA FedLinear ==
    ASSUME NEW w \in Word, NEW v \in Word, NEW a, NEW b
    PROVE  Fed(Xor(w, v), Xor(a, b)) = Xor(Fed(w, a), Fed(v, b))
<1>1. PICK r \in [0 .. 8 -> Word] :
          /\ r[0] = w
          /\ \A j \in 1 .. 8 : r[j] = FedShift(r[j - 1], j - 1 \in a)
          /\ Fed(w, a) = r[8]
  BY FedSteps
<1>2. PICK s \in [0 .. 8 -> Word] :
          /\ s[0] = v
          /\ \A j \in 1 .. 8 : s[j] = FedShift(s[j - 1], j - 1 \in b)
          /\ Fed(v, b) = s[8]
  BY FedSteps
<1>3. Xor(w, v) \in Word
  BY XorWord
<1>4. PICK t \in [0 .. 8 -> Word] :
          /\ t[0] = Xor(w, v)
          /\ \A j \in 1 .. 8 : t[j] = FedShift(t[j - 1], j - 1 \in Xor(a, b))
          /\ Fed(Xor(w, v), Xor(a, b)) = t[8]
  BY <1>3, FedSteps
<1> DEFINE I == {j \in 0 .. 8 : t[j] = Xor(r[j], s[j])}
<1>5. 0 \in I
  <2>1. 0 \in 0 .. 8
    BY SMT
  <2> QED BY <1>1, <1>2, <1>4, <2>1, Zenon
<1>6. ASSUME NEW j \in 1 .. 8, j - 1 \in I PROVE j \in I
  <2>1. j \in 0 .. 8 /\ j - 1 \in 0 .. 8
    BY SMT
  <2>2. r[j - 1] \in Word /\ s[j - 1] \in Word
    BY <2>1, Zenon
  <2>3. t[j - 1] = Xor(r[j - 1], s[j - 1])
    BY <1>6, Zenon
  <2>4. t[j] = FedShift(Xor(r[j - 1], s[j - 1]), j - 1 \in Xor(a, b))
    BY <1>4, <2>3, Zenon
  <2>5. t[j] = Xor(FedShift(r[j - 1], j - 1 \in a), FedShift(s[j - 1], j - 1 \in b))
    <3>1. FedShift(Xor(r[j - 1], s[j - 1]), j - 1 \in Xor(a, b))
            = Xor(FedShift(r[j - 1], j - 1 \in a), FedShift(s[j - 1], j - 1 \in b))
      BY <2>2, FedShiftLinear
    <3> QED BY <2>4, <3>1, Zenon
  <2>6. t[j] = Xor(r[j], s[j])
    BY <1>1, <1>2, <2>5, Zenon
  <2> QED BY <2>1, <2>6, Zenon
<1>7. 8 \in I
  <2> HIDE DEF I
  <2>1. 8 \in 0 .. 8
    BY SMT
  <2> QED BY <1>5, <1>6, <2>1, UpToEight
<1> QED BY <1>1, <1>2, <1>4, <1>7, Zenon

(* A shift loses nothing. *)
LEMMA FedShiftNonzero ==
    ASSUME NEW w \in Word, NEW n, NEW byte
    PROVE  /\ w # {} /\ n \notin byte => FedShift(w, n \in byte) # {}
           /\ w = {} /\ n \in byte => FedShift(w, n \in byte) # {}
           /\ w = {} /\ n \notin byte => FedShift(w, n \in byte) = {}
<1>1. w \subseteq Nat /\ 31 \notin Shr(w, 1)
  <2>1. w \subseteq Nat
    BY WordBits
  <2>2. 31 + 1 \notin w
    BY WordBits
  <2> QED BY <2>1, <2>2, InShr
<1>2. Xor(POLYNOMIAL, Shr(w, 1)) # {}
  <2>1. 31 \in Xor(POLYNOMIAL, Shr(w, 1))
    BY <1>1, PolynomialWord, InXor
  <2> QED BY <2>1
<1>3. Xor({}, Shr(w, 1)) = Shr(w, 1)
  BY XorAlgebra
<1>4. ASSUME w # {}, 0 \notin w PROVE Shr(w, 1) # {}
  <2>1. PICK x \in w : x \in Nat /\ x # 0
    BY <1>1, <1>4
  <2>2. PICK k \in Nat : k + 1 = x
    <3>1. x - 1 \in Nat /\ (x - 1) + 1 = x
      BY <2>1
    <3> QED BY <3>1
  <2>3. k \in Shr(w, 1)
    BY <1>1, <2>2, InShr
  <2> QED BY <2>3
<1>5. Shr({}, 1) = {}
  BY Zenon DEF Shr
<1> QED BY <1>2, <1>3, <1>4, <1>5, FedShiftEither

(* A difference is never shifted to nothing, and a differing bit makes one. *)
LEMMA FedShiftKeeps ==
    ASSUME NEW w \in Word, NEW n, NEW byte, w # {}, n \notin byte
    PROVE  FedShift(w, n \in byte) # {}
  BY FedShiftNonzero

LEMMA FedNonzero ==
    ASSUME NEW w \in Word, w # {}, NEW byte, \A n : n \notin byte
    PROVE  Fed(w, byte) # {}
<1>1. PICK r \in [0 .. 8 -> Word] :
          /\ r[0] = w
          /\ \A j \in 1 .. 8 : r[j] = FedShift(r[j - 1], j - 1 \in byte)
          /\ Fed(w, byte) = r[8]
  BY FedSteps
<1> DEFINE I == {j \in 0 .. 8 : r[j] # {}}
<1>2. 0 \in I
  BY <1>1
<1>3. ASSUME NEW j \in 1 .. 8, j - 1 \in I PROVE j \in I
  <2>1. j \in 0 .. 8 /\ j - 1 \in 0 .. 8
    BY SMT
  <2>2. r[j - 1] \in Word /\ r[j - 1] # {} /\ j - 1 \notin byte
    BY <1>3, <2>1, Zenon
  <2>3. FedShift(r[j - 1], j - 1 \in byte) # {}
    BY <2>2, FedShiftNonzero
  <2> QED BY <1>1, <2>1, <2>3, Zenon
<1>4. 8 \in I
  <2> HIDE DEF I
  <2>1. 8 \in 0 .. 8
    BY SMT
  <2> QED BY <1>2, <1>3, <2>1, UpToEight
<1> QED BY <1>1, <1>4, Zenon

LEMMA FedOneBit ==
    ASSUME NEW bit \in 0 .. 7, NEW w \in Word, NEW byte, \A n : n \in byte <=> n = bit
    PROVE  w = {} => Fed(w, byte) # {}
<1>1. PICK r \in [0 .. 8 -> Word] :
          /\ r[0] = w
          /\ \A j \in 1 .. 8 : r[j] = FedShift(r[j - 1], j - 1 \in byte)
          /\ Fed(w, byte) = r[8]
  BY FedSteps
<1>0. SUFFICES ASSUME w = {} PROVE r[8] # {}
  BY <1>1
<1> DEFINE I == {j \in 0 .. 8 : r[j] = {} <=> j <= bit}
<1>2. 0 \in I
  BY <1>0, <1>1
<1>3. ASSUME NEW j \in 1 .. 8, j - 1 \in I PROVE j \in I
  <2>1. j \in 0 .. 8 /\ j - 1 \in 0 .. 8
    BY SMT
  <2>2. r[j - 1] \in Word /\ (r[j - 1] = {} <=> j - 1 <= bit)
    BY <1>3, <2>1, Zenon
  <2>3. r[j] = FedShift(r[j - 1], j - 1 \in byte)
    BY <1>1, Zenon
  <2>4. CASE j <= bit
    <3>1. r[j - 1] = {} /\ j - 1 \notin byte
      BY <2>2, <2>4
    <3>2. FedShift({}, j - 1 \in byte) = {}
      BY <3>1, PolynomialWord, FedShiftNonzero
    <3>3. r[j] = {}
      BY <2>3, <3>1, <3>2, Zenon
    <3> QED BY <2>1, <2>4, <3>3, Zenon
  <2>5. CASE j - 1 = bit
    <3>1. r[j - 1] = {} /\ j - 1 \in byte /\ ~(j <= bit)
      BY <2>2, <2>5
    <3>2. FedShift({}, j - 1 \in byte) # {}
      BY <3>1, PolynomialWord, FedShiftNonzero
    <3>3. r[j] # {}
      BY <2>3, <3>1, <3>2, Zenon
    <3> QED BY <2>1, <3>1, <3>3, Zenon
  <2>6. CASE j - 1 > bit
    <3>1. r[j - 1] # {} /\ j - 1 \notin byte /\ r[j - 1] \in Word
      BY <2>2, <2>6
    <3>2. FedShift(r[j - 1], j - 1 \in byte) # {}
      BY <3>1, FedShiftKeeps, Zenon
    <3>3. r[j] # {}
      BY <2>3, <3>2, Zenon
    <3>4. ~(j <= bit)
      BY <2>6
    <3> QED BY <2>1, <3>3, <3>4, Zenon
  <2> QED BY <2>4, <2>5, <2>6
<1>4. 8 \in I
  <2> HIDE DEF I
  <2>1. 8 \in 0 .. 8
    BY SMT
  <2> QED BY <1>2, <1>3, <2>1, UpToEight
<1>5. ~(8 <= bit)
  BY SMT
<1> QED BY <1>1, <1>4, <1>5, Zenon

-----------------------------------------------------------------------------
(* The complement of a word is its exclusive or with AllOnes.              *)
AllOnes == 0 .. 31

LEMMA AllOnesWord ==
    /\ AllOnes \in Word
    /\ \A x : x \in AllOnes <=> x \in Nat /\ x < 32
    /\ Xor(AllOnes, Shr(AllOnes, 8)) = 24 .. 31
    /\ 24 .. 31 \in Word
<1>1. AllOnes \in Word
  BY Zenon DEF AllOnes, Word
<1>2. \A x : x \in AllOnes <=> x \in Nat /\ x < 32
  BY SMT DEF AllOnes
<1>3. \A x : x \in 24 .. 31 <=> x \in Nat /\ x < 32 /\ x >= 24
  BY SMT
<1>4. AllOnes \subseteq Nat
  BY <1>2
<1>5. ASSUME NEW x PROVE x \in Xor(AllOnes, Shr(AllOnes, 8)) <=> x \in 24 .. 31
  <2>1. x \in Xor(AllOnes, Shr(AllOnes, 8)) <=> ~(x \in AllOnes <=> x \in Shr(AllOnes, 8))
    BY InXor
  <2>2. x \in Shr(AllOnes, 8) <=> x \in Nat /\ x + 8 \in AllOnes
    BY <1>4, InShr
  <2>3. x \in Nat => (x + 8 \in AllOnes <=> x < 24)
    BY <1>2
  <2> QED BY <1>2, <1>3, <2>1, <2>2, <2>3
<1>6. Xor(AllOnes, Shr(AllOnes, 8)) = 24 .. 31
  BY <1>5, Zenon
<1>7. 24 .. 31 \in Word
  BY <1>3, WordBits, Zenon
<1> QED BY <1>1, <1>2, <1>6, <1>7

(* A step of crc32 is a step of the register between two complements.  The *)
(* register is the byte that goes through the table, shift by shift (c),   *)
(* and what the other bits (h) add to it.                                  *)
LEMMA UpdatedIsFed ==
    ASSUME NEW w \in Word, NEW byte \in Byte
    PROVE  Updated(w, byte) = Xor(AllOnes, Fed(Xor(AllOnes, w), byte))
<1> DEFINE x   == Xor(LowByte(w), byte)
           reg == Xor(AllOnes, w)
           h   == Xor(x, reg)
<1>1. x \in Byte /\ x \in Word /\ reg \in Word /\ h \in Word
  BY LowByteType, XorByte, XorWord, AllOnesWord, WordBits
<1>2. Updated(w, byte) = Xor(crc32_for_byte(x), Shr(w, 8))
  BY <1>1, Zenon DEF Updated, table
<1>3. ASSUME NEW n \in 0 .. 7
      PROVE  n \in h <=> n \notin byte
  <2>1. n \in h <=> ~(n \in x <=> n \in reg)
    BY InXor
  <2>2. n \in x <=> ~(n \in LowByte(w) <=> n \in byte)
    BY InXor
  <2>3. n \in LowByte(w) <=> n \in w
    BY DEF LowByte
  <2>4. n \in reg <=> ~(n \in AllOnes <=> n \in w)
    BY InXor
  <2>5. n \in AllOnes
    BY AllOnesWord
  <2> HIDE DEF h, x, reg
  <2> QED BY <2>1, <2>2, <2>3, <2>4, <2>5
<1>4. Shr(h, 8) = Xor(Shr(AllOnes, 8), Shr(w, 8))
  <2>1. Shr(h, 8) = Xor(Shr(x, 8), Shr(reg, 8))
    BY <1>1, ShrXor
  <2>2. Shr(reg, 8) = Xor(Shr(AllOnes, 8), Shr(w, 8))
    BY AllOnesWord, ShrXor
  <2>3. Shr(x, 8) = {}
    <3>1. ASSUME NEW y PROVE y \notin Shr(x, 8)
      <4>1. x \subseteq Nat /\ \A z \in x : z < 8
        BY <1>1, WordBits
      <4>2. y \in Shr(x, 8) <=> y \in Nat /\ y + 8 \in x
        BY <4>1, InShr
      <4> QED BY <4>1, <4>2
    <3> QED BY <3>1, Zenon
  <2>4. Xor({}, Shr(reg, 8)) = Shr(reg, 8)
    BY XorAlgebra
  <2> QED BY <2>1, <2>2, <2>3, <2>4
<1>5. Xor(x, h) = reg
  <2>1. Xor(x, Xor(x, reg)) = Xor(Xor(x, x), reg)
    BY XorAlgebra
  <2>2. Xor(x, x) = {} /\ Xor({}, reg) = reg
    BY XorAlgebra
  <2> QED BY <2>1, <2>2
<1> HIDE DEF x, reg, h
<1>6. PICK c \in [0 .. 8 -> Word] :
          /\ c[0] = x
          /\ \A j \in 1 .. 8 : c[j] = ByteShift(c[j - 1])
          /\ crc32_for_byte(x) = Xor(c[8], 24 .. 31)
  BY <1>1, TableSteps
<1>7. PICK r \in [0 .. 8 -> Word] :
          /\ r[0] = reg
          /\ \A j \in 1 .. 8 : r[j] = FedShift(r[j - 1], j - 1 \in byte)
          /\ Fed(reg, byte) = r[8]
  BY <1>1, FedSteps
<1> DEFINE I == {j \in 0 .. 8 : r[j] = Xor(c[j], Shr(h, j))}
<1>8. 0 \in I
  <2>1. 0 \in 0 .. 8
    BY SMT
  <2>2. Shr(h, 0) = h
    BY <1>1, ShrNone
  <2> QED BY <1>5, <1>6, <1>7, <2>1, <2>2, Zenon
<1>9. ASSUME NEW j \in 1 .. 8, j - 1 \in I PROVE j \in I
  <2>1. /\ j \in 0 .. 8 /\ j - 1 \in 0 .. 8 /\ j - 1 \in 0 .. 7 /\ j - 1 \in Nat
        /\ (j - 1) + 1 = j
    BY SMT
  <2> DEFINE k == j - 1
             poly == IF 0 \in c[k] THEN {} ELSE POLYNOMIAL
  <2>2. c[k] \in Word /\ r[k] = Xor(c[k], Shr(h, k)) /\ Shr(h, k) \in Word
    BY <1>1, <1>9, <2>1, ShrWord, Zenon
  <2>3. c[j] = Xor(poly, Shr(c[k], 1))
    BY <1>6, Zenon DEF ByteShift
  <2>4. Shr(r[k], 1) = Xor(Shr(c[k], 1), Shr(h, j))
    <3>1. Shr(Xor(c[k], Shr(h, k)), 1) = Xor(Shr(c[k], 1), Shr(Shr(h, k), 1))
      BY <2>2, ShrXor
    <3>2. Shr(Shr(h, k), 1) = Shr(h, k + 1)
      BY <1>1, <2>1, ShrOnce
    <3> QED BY <2>1, <2>2, <3>1, <3>2, Zenon
  <2>5. 0 \in Shr(h, k) <=> k \notin byte
    <3>1. h \subseteq Nat /\ 0 \in Nat /\ 0 + k = k
      BY <1>1, <2>1, WordBits
    <3>2. 0 \in Shr(h, k) <=> 0 \in Nat /\ 0 + k \in h
      BY <2>1, <3>1, InShr, Zenon
    <3>3. 0 \in Shr(h, k) <=> k \in h
      BY <3>1, <3>2, Zenon
    <3> QED BY <1>3, <2>1, <3>3, Zenon
  <2>6. 0 \in r[k] <=> ~(0 \in c[k] <=> 0 \in Shr(h, k))
    <3>1. 0 \in Xor(c[k], Shr(h, k)) <=> ~(0 \in c[k] <=> 0 \in Shr(h, k))
      BY InXor
    <3> QED BY <2>2, <3>1, Zenon
  <2>7. r[j] = Xor(poly, Shr(r[k], 1))
    <3>1. r[j] = FedShift(r[k], k \in byte)
      BY <1>7, Zenon
    <3>2. CASE 0 \in c[k]
      <4>1. 0 \in r[k] <=> k \in byte
        BY <2>5, <2>6, <3>2
      <4> QED BY <3>1, <3>2, <4>1, FedShiftEither, Zenon
    <3>3. CASE 0 \notin c[k]
      <4>1. ~(0 \in r[k] <=> k \in byte)
        BY <2>5, <2>6, <3>3
      <4> QED BY <3>1, <3>3, <4>1, FedShiftEither, Zenon
    <3> QED BY <3>2, <3>3
  <2>8. Xor(Xor(poly, Shr(c[k], 1)), Shr(h, j)) = Xor(poly, Xor(Shr(c[k], 1), Shr(h, j)))
    BY XorAlgebra
  <2>9. r[j] = Xor(c[j], Shr(h, j))
    <3> HIDE DEF poly, k
    <3> QED BY <2>3, <2>4, <2>7, <2>8, Zenon
  <2> QED BY <2>1, <2>9, Zenon
<1>10. 8 \in I
  <2> HIDE DEF I
  <2>1. 8 \in 0 .. 8
    BY SMT
  <2> QED BY <1>8, <1>9, <2>1, UpToEight
<1>11. Fed(reg, byte) = Xor(c[8], Xor(Shr(AllOnes, 8), Shr(w, 8)))
  BY <1>4, <1>7, <1>10, Zenon
<1>12. Updated(w, byte)
         = Xor(Xor(c[8], Xor(AllOnes, Shr(AllOnes, 8))), Shr(w, 8))
  BY <1>2, <1>6, AllOnesWord
<1>13. \A a, b, s, t : Xor(Xor(a, Xor(b, s)), t) = Xor(b, Xor(a, Xor(s, t)))
  <2> TAKE a, b, s, t
  <2>1. Xor(a, Xor(b, s)) = Xor(Xor(a, b), s)
    BY XorAlgebra
  <2>2. Xor(Xor(Xor(a, b), s), t) = Xor(Xor(a, b), Xor(s, t))
    BY XorAlgebra
  <2>3. Xor(a, b) = Xor(b, a)
    BY XorAlgebra
  <2>4. Xor(Xor(b, a), Xor(s, t)) = Xor(b, Xor(a, Xor(s, t)))
    BY XorAlgebra
  <2> QED BY <2>1, <2>2, <2>3, <2>4
<1>14. Updated(w, byte) = Xor(AllOnes, Fed(reg, byte))
  <2>1. Xor(Xor(c[8], Xor(AllOnes, Shr(AllOnes, 8))), Shr(w, 8))
          = Xor(AllOnes, Xor(c[8], Xor(Shr(AllOnes, 8), Shr(w, 8))))
    BY <1>13
  <2> QED BY <1>11, <1>12, <2>1
<1> QED BY <1>14 DEF reg

-----------------------------------------------------------------------------
(* The loop. *)

LEMMA FedWord ==
    ASSUME NEW w \in Word, NEW byte
    PROVE  Fed(w, byte) \in Word
<1>1. PICK r \in [0 .. 8 -> Word] :
          /\ r[0] = w
          /\ \A j \in 1 .. 8 : r[j] = FedShift(r[j - 1], j - 1 \in byte)
          /\ Fed(w, byte) = r[8]
  BY FedSteps
<1>2. 8 \in 0 .. 8
  BY SMT
<1> QED BY <1>1, <1>2, Zenon

LEMMA UpdatedWord ==
    ASSUME NEW w \in Word, NEW byte \in Byte
    PROVE  Updated(w, byte) \in Word
<1>1. Xor(AllOnes, w) \in Word
  BY AllOnesWord, XorWord
<1>2. Fed(Xor(AllOnes, w), byte) \in Word
  BY <1>1, FedWord
<1> QED BY <1>2, AllOnesWord, XorWord, UpdatedIsFed, Zenon

(* How the difference of two running values goes on. *)
LEMMA DifferenceFed ==
    ASSUME NEW w \in Word, NEW v \in Word, NEW a \in Byte, NEW b \in Byte
    PROVE  Xor(Updated(w, a), Updated(v, b)) = Fed(Xor(w, v), Xor(a, b))
<1> DEFINE cw == Xor(AllOnes, w)
           cv == Xor(AllOnes, v)
<1>1. cw \in Word /\ cv \in Word
  BY AllOnesWord, XorWord
<1>2. Updated(w, a) = Xor(AllOnes, Fed(cw, a)) /\ Updated(v, b) = Xor(AllOnes, Fed(cv, b))
  BY UpdatedIsFed
<1>3. \A s, t : Xor(Xor(AllOnes, s), Xor(AllOnes, t)) = Xor(s, t)
  <2> TAKE s, t
  <2>1. Xor(Xor(AllOnes, s), Xor(AllOnes, t)) = Xor(Xor(AllOnes, AllOnes), Xor(s, t))
    BY XorPairs
  <2>2. Xor(AllOnes, AllOnes) = {} /\ Xor({}, Xor(s, t)) = Xor(s, t)
    BY XorAlgebra
  <2> QED BY <2>1, <2>2
<1>4. Xor(cw, cv) = Xor(w, v)
  BY <1>3
<1> HIDE DEF cw, cv
<1>5. Fed(Xor(cw, cv), Xor(a, b)) = Xor(Fed(cw, a), Fed(cv, b))
  BY <1>1, FedLinear
<1>6. Xor(Updated(w, a), Updated(v, b)) = Xor(Fed(cw, a), Fed(cv, b))
  BY <1>2, <1>3
<1> QED BY <1>4, <1>5, <1>6

LEMMA ByteAtType ==
    ASSUME TypeOK, i < SIZE, NEW w \in Word
    PROVE  ByteAt(w, i) \in Byte
<1>1. i \in 0 .. SIZE - 1
  BY ChecksumAssumption DEF TypeOK, ChecksumAssumption
<1>2. block[i] \in Byte
  BY <1>1, ChecksumAssumption, Zenon DEF TypeOK, ChecksumAssumption
<1> QED BY <1>2, LowByteType, Zenon DEF ByteAt

LEMMA LowByteXor ==
    ASSUME NEW w, NEW v
    PROVE  LowByte(Xor(w, v)) = Xor(LowByte(w), LowByte(v))
  BY Zenon DEF LowByte, Xor

(* Bytes of the block are the same in both copies, those of the field are  *)
(* those of the two running values.                                        *)
LEMMA ByteAtDiffers ==
    ASSUME TypeOK
    PROVE  Xor(ByteAt(crc, i), ByteAt(damaged, i)) = FieldByte(Damage, i)
<1>1. CASE i \in FIELD .. FIELD + 3
  <2> DEFINE n == 8 * (i - FIELD)
  <2>1. n \in Nat
    BY <1>1, ChecksumAssumption DEF ChecksumAssumption
  <2>2. /\ ByteAt(crc, i) = LowByte(Shr(crc, n))
        /\ ByteAt(damaged, i) = LowByte(Shr(damaged, n))
        /\ FieldByte(Damage, i) = LowByte(Shr(Damage, n))
    BY <1>1, Zenon DEF ByteAt, FieldByte
  <2> HIDE DEF n
  <2>3. crc \in Word /\ damaged \in Word
    BY DEF TypeOK
  <2>4. Shr(Damage, n) = Xor(Shr(crc, n), Shr(damaged, n))
    BY <2>1, <2>3, ShrXor DEF Damage
  <2> QED BY <2>2, <2>4, LowByteXor
<1>2. CASE i \notin FIELD .. FIELD + 3
  <2>1. /\ ByteAt(crc, i) = block[i] /\ ByteAt(damaged, i) = block[i]
        /\ FieldByte(Damage, i) = {}
    BY <1>2, Zenon DEF ByteAt, FieldByte
  <2> QED BY <2>1, XorAlgebra
<1> QED BY <1>1, <1>2

(* The conjuncts of IInv are preserved one by one. *)
LEMMA TypeStep ==
    ASSUME TypeOK, Step
    PROVE  TypeOK'
<1>1. crc \in Word /\ damaged \in Word /\ register \in Word /\ i < SIZE
  BY DEF TypeOK, Step
<1>2. ByteAt(crc, i) \in Byte /\ ByteAt(damaged, i) \in Byte
  BY <1>1, ByteAtType
<1>3. \A bit \in 0 .. 7 : {bit} \in Byte
  BY Zenon DEF Byte
<1>4. \A bit \in 0 .. 7 : Xor(ByteAt(damaged, i), {bit}) \in Byte
  BY <1>2, <1>3, XorByte, Zenon
<1>5. crc' \in Word
  BY <1>1, <1>2, UpdatedWord, Zenon DEF Step
<1>6. register' \in Word
  BY <1>1, FedWord, Zenon DEF Step
<1>7. damaged' \in Word /\ hit' \in BOOLEAN
  BY <1>1, <1>2, <1>4, UpdatedWord, Zenon DEF Step, TypeOK
<1>8. i' \in 0 .. SIZE
  BY ChecksumAssumption DEF ChecksumAssumption, TypeOK, Step
<1>9. block' \in Blocks
  BY DEF TypeOK, Step
<1> QED BY <1>5, <1>6, <1>7, <1>8, <1>9 DEF TypeOK

LEMMA ReferenceStep ==
    ASSUME TypeOK, MatchesReference, Step
    PROVE  MatchesReference'
<1>1. SUFFICES ASSUME i + 1 <= FIELD PROVE crc' = AllOnes \ register'
  BY DEF Step, MatchesReference, AllOnes
<1>2. /\ crc \in Word /\ register \in Word /\ i \in Nat /\ FIELD \in Nat
      /\ crc = AllOnes \ register
  <2>1. i \in Nat /\ FIELD \in Nat
    BY ChecksumAssumption DEF ChecksumAssumption, TypeOK
  <2>2. i <= FIELD
    BY <1>1, <2>1
  <2> QED BY <2>1, <2>2 DEF TypeOK, MatchesReference, AllOnes
<1>3. \A w \in Word : Xor(AllOnes, w) = AllOnes \ w
  BY Zenon DEF AllOnes, Word, Xor
<1>4. Xor(AllOnes, crc) = register
  <2>1. AllOnes \ (AllOnes \ register) = register
    BY <1>2, Zenon DEF AllOnes, Word
  <2> QED BY <1>2, <1>3, <2>1
<1>5. ByteAt(crc, i) \in Byte
  BY <1>2, ByteAtType DEF Step
<1>6. crc' = Xor(AllOnes, Fed(register, ByteAt(crc, i)))
  BY <1>2, <1>4, <1>5, UpdatedIsFed DEF Step
<1>7. crc' = Xor(AllOnes, register') /\ register' \in Word
  BY <1>2, <1>6, FedWord DEF Step
<1> QED BY <1>3, <1>7

(* How the damage of a step comes about, whatever is in the block. *)
LEMMA DamageStep ==
    ASSUME TypeOK, Undamaged, Step
    PROVE  DamageSpreads
<1>1. /\ crc \in Word /\ damaged \in Word /\ i < SIZE
      /\ ByteAt(crc, i) \in Byte /\ ByteAt(damaged, i) \in Byte
  BY ByteAtType DEF TypeOK, Step
<1>2. CASE /\ damaged' = Updated(damaged, ByteAt(damaged, i))
           /\ UNCHANGED hit
  <2>1. Damage' = Xor(Updated(crc, ByteAt(crc, i)), Updated(damaged, ByteAt(damaged, i)))
    BY <1>2 DEF Step, Damage
  <2>2. Damage' = Fed(Damage, FieldByte(Damage, i))
    BY <1>1, <2>1, DifferenceFed, ByteAtDiffers DEF Damage
  <2> QED BY <1>2, <2>2 DEF DamageSpreads
<1>3. ASSUME ~hit, i \notin FIELD .. FIELD + 3, hit' = TRUE, NEW bit \in 0 .. 7,
             damaged' = Updated(damaged, Xor(ByteAt(damaged, i), {bit}))
      PROVE  DamageSpreads
  <2> DEFINE b == ByteAt(damaged, i)
  <2>1. {bit} \in Byte
    BY Zenon DEF Byte
  <2>2. Xor(b, {bit}) \in Byte
    BY <1>1, <2>1, XorByte
  <2>3. crc = damaged
    BY <1>3 DEF Undamaged
  <2>4. Damage' = Xor(Updated(damaged, b), Updated(damaged, Xor(b, {bit})))
    BY <1>3, <2>3 DEF Step, Damage
  <2>5. Damage' = Fed(Xor(damaged, damaged), Xor(b, Xor(b, {bit})))
    BY <1>1, <2>2, <2>4, DifferenceFed
  <2>6. Xor(b, Xor(b, {bit})) = {bit}
    <3>1. Xor(b, Xor(b, {bit})) = Xor(Xor(b, b), {bit})
      BY XorAlgebra
    <3>2. Xor(b, b) = {} /\ Xor({}, {bit}) = {bit}
      BY XorAlgebra
    <3> QED BY <3>1, <3>2
  <2>7. Xor(damaged, damaged) = {}
    BY XorAlgebra
  <2>8. Damage' = Fed({}, {bit})
    BY <2>5, <2>6, <2>7
  <2> QED BY <1>3, <2>8 DEF DamageSpreads
<1> QED BY <1>2, <1>3 DEF Step

LEMMA UndamagedStep ==
    ASSUME Undamaged, Step
    PROVE  Undamaged'
  BY DEF Undamaged, Step

LEMMA InitInv == Init => IInv
<1> SUFFICES ASSUME Init PROVE IInv
  OBVIOUS
<1>1. /\ block \in Blocks /\ i = 0 /\ crc = {} /\ damaged = {} /\ hit = FALSE
      /\ register = AllOnes
  BY DEF Init, AllOnes
<1>2. TypeOK
  <2>1. 0 \in 0 .. SIZE
    BY ChecksumAssumption DEF ChecksumAssumption
  <2> QED BY <1>1, <2>1, PolynomialWord, AllOnesWord DEF TypeOK
<1>3. MatchesReference /\ Undamaged
  BY <1>1, Zenon DEF MatchesReference, Undamaged, AllOnes
<1> QED BY <1>2, <1>3 DEF IInv

LEMMA StepInv ==
    ASSUME IInv, [Next]_vars
    PROVE  IInv' /\ [DamageSpreads]_vars
<1>1. CASE Step
  BY <1>1, TypeStep, ReferenceStep, UndamagedStep, DamageStep DEF IInv
<1>2. CASE UNCHANGED vars
  BY <1>2 DEF IInv, TypeOK, MatchesReference, Undamaged, vars
<1> QED BY <1>1, <1>2 DEF Next

(* The inductive invariant holds, whatever the block and the field. *)
THEOREM Invariance == Spec => []IInv
<1>1. IInv /\ [Next]_vars => IInv'
  BY StepInv
<1> QED BY InitInv, <1>1, PTL DEF Spec

(* The running values stay words of 32 bits and the loop inside the block. *)
THEOREM TypeCorrect == Spec => []TypeOK
<1>1. IInv => TypeOK
  BY DEF IInv
<1> QED BY Invariance, <1>1, PTL

(* Up to the field, crc32 of src/logging.c computes CRC-32 of the bytes    *)
(* before it, with a table that divides by the complement and no           *)
(* complement at either end.                                               *)
THEOREM ComputesCRC32 == Spec => []MatchesReference
<1>1. IInv => MatchesReference
  BY DEF IInv
<1> QED BY Invariance, <1>1, PTL

(* What becomes of a flipped bit does not depend on what is in the block,  *)
(* not even in the field, where the checksum reads itself.                 *)
THEOREM DamageIsLinear == Spec => [][DamageSpreads]_vars
<1>1. IInv /\ [Next]_vars => [DamageSpreads]_vars
  BY StepInv
<1> QED BY Invariance, <1>1, PTL DEF Spec

LEMMA DamageFacts ==
    ASSUME TypeOK
    PROVE  /\ Damage \in Word
           /\ crc # damaged <=> Damage # {}
  BY XorWord, XorAlgebra DEF TypeOK, Damage

LEMMA SurvivesStep ==
    ASSUME IInv, [Next]_vars
    PROVE  [SurvivesOutsideField]_vars
<1>1. SUFFICES ASSUME Step, i \notin FIELD .. FIELD + 3, crc # damaged \/ hit' # hit
               PROVE  crc' # damaged'
  BY DEF Next, SurvivesOutsideField
<1>2. TypeOK /\ TypeOK' /\ DamageSpreads
  BY <1>1, TypeStep, DamageStep DEF IInv
<1>3. /\ Damage \in Word /\ (crc # damaged <=> Damage # {})
      /\ crc' # damaged' <=> Damage' # {}
  <2>1. crc' # damaged' <=> Damage' # {}
    BY XorAlgebra DEF Damage
  <2> QED BY <1>2, <2>1, DamageFacts
<1>4. CASE hit' = hit /\ Damage' = Fed(Damage, FieldByte(Damage, i))
  <2>1. FieldByte(Damage, i) = {} /\ Damage # {}
    BY <1>1, <1>3, <1>4 DEF FieldByte
  <2>2. \A n : n \notin {}
    OBVIOUS
  <2>3. Fed(Damage, {}) # {}
    BY <1>3, <2>1, <2>2, FedNonzero
  <2> QED BY <1>3, <1>4, <2>1, <2>3
<1>5. CASE \E bit \in 0 .. 7 : Damage' = Fed({}, {bit})
  <2>1. PICK bit \in 0 .. 7 : Damage' = Fed({}, {bit})
    BY <1>5
  <2>2. \A n : n \in {bit} <=> n = bit
    OBVIOUS
  <2>3. Fed({}, {bit}) # {}
    BY <2>2, PolynomialWord, FedOneBit, Zenon
  <2> QED BY <1>3, <2>1, <2>3
<1> QED BY <1>2, <1>4, <1>5 DEF DamageSpreads

(* For any layout: a flip enters the checksum, and a difference can get    *)
(* lost only in the four steps in which the checksum reads itself.         *)
THEOREM OnlyTheFieldForgets == Spec => [][SurvivesOutsideField]_vars
<1>1. IInv /\ [Next]_vars => [SurvivesOutsideField]_vars
  BY SurvivesStep
<1> QED BY Invariance, <1>1, PTL DEF Spec

(* What a damaged copy goes through: at first the difference is one that   *)
(* the certificate has, then it crosses the field.                         *)
Crossing(D) ==
    hit => /\ Damage # {}
           /\ i <= FIELD => \E k \in 1 .. i : Damage \in D[k]
           /\ \A m \in 1 .. 3 : i = FIELD + m =>
                  \E k \in 1 .. FIELD : \E d \in D[k] : Damage = Crossed(d)[m]

LEMMA CrossedNext ==
    ASSUME NEW d
    PROVE  /\ Crossed(d)[1] = Fed(d, FieldByte(d, FIELD))
           /\ Crossed(d)[2] = Fed(Crossed(d)[1], FieldByte(Crossed(d)[1], FIELD + 1))
           /\ Crossed(d)[3] = Fed(Crossed(d)[2], FieldByte(Crossed(d)[2], FIELD + 2))
           /\ Crossed(d)[4] = Fed(Crossed(d)[3], FieldByte(Crossed(d)[3], FIELD + 3))
  BY DEF Crossed

LEMMA CertifiedStep ==
    ASSUME NEW D, Certifies(D), IInv, Crossing(D), Step
    PROVE  Crossing(D)'
<1>1. /\ i \in Nat /\ i' = i + 1 /\ FIELD \in Nat
      /\ TypeOK /\ TypeOK' /\ DamageSpreads /\ SurvivesOutsideField
  <2>1. i \in Nat /\ FIELD \in Nat /\ i' = i + 1
    BY ChecksumAssumption DEF ChecksumAssumption, IInv, TypeOK, Step
  <2>2. vars' # vars
    BY <2>1 DEF vars
  <2>3. TypeOK /\ TypeOK' /\ DamageSpreads
    BY TypeStep, DamageStep DEF IInv
  <2>4. SurvivesOutsideField
    BY <2>2, SurvivesStep DEF Next
  <2> QED BY <2>1, <2>3, <2>4
<1>2. /\ crc # damaged <=> Damage # {}
      /\ crc' # damaged' <=> Damage' # {}
  <2>1. crc' # damaged' <=> Damage' # {}
    BY XorAlgebra DEF Damage
  <2> QED BY <1>1, <2>1, DamageFacts
<1>3. SUFFICES ASSUME hit'
      PROVE  /\ Damage' # {}
             /\ i + 1 <= FIELD => \E k \in 1 .. i + 1 : Damage' \in D[k]
             /\ \A m \in 1 .. 3 : i + 1 = FIELD + m =>
                    \E k \in 1 .. FIELD : \E d \in D[k] : Damage' = Crossed(d)[m]
  BY <1>1 DEF Crossing
<1>4. CASE i < FIELD
  <2>1. i \notin FIELD .. FIELD + 3 /\ ~(\E m \in 1 .. 3 : i + 1 = FIELD + m)
    BY <1>1, <1>4
  <2>2. Damage' # {}
    BY <1>2, <1>1, <1>3, <2>1 DEF SurvivesOutsideField, Crossing
  <2>3. CASE hit' = hit /\ Damage' = Fed(Damage, FieldByte(Damage, i))
    <3>1. PICK k \in 1 .. i : Damage \in D[k]
      BY <1>1, <1>3, <1>4, <2>3 DEF Crossing
    <3>2. k \in 1 .. FIELD - 1 /\ k + 1 \in 1 .. i + 1
      BY <1>1, <1>4
    <3>3. FieldByte(Damage, i) = {}
      BY <2>1, Zenon DEF FieldByte
    <3>4. Damage' \in D[k + 1]
      BY <2>3, <3>1, <3>2, <3>3, Zenon DEF Certifies
    <3> QED BY <2>1, <2>2, <3>2, <3>4
  <2>4. CASE \E bit \in 0 .. 7 : Damage' = Fed({}, {bit})
    <3>1. Damage' \in D[1]
      BY <2>4, Zenon DEF Certifies
    <3>2. 1 \in 1 .. i + 1
      BY <1>1
    <3> QED BY <2>1, <2>2, <3>1, <3>2
  <2> QED BY <1>1, <2>3, <2>4 DEF DamageSpreads
<1>5. CASE i \in FIELD .. FIELD + 3
  <2>1. hit /\ Damage' = Fed(Damage, FieldByte(Damage, i))
    BY <1>1, <1>3, <1>5 DEF DamageSpreads
  <2>2. ASSUME NEW m \in 0 .. 3, i = FIELD + m
        PROVE  \E k \in 1 .. FIELD : \E d \in D[k] : Damage' = Crossed(d)[m + 1]
    <3>1. CASE m = 0
      <4>1. i = FIELD
        BY <1>1, <2>2, <3>1
      <4>2. PICK k \in 1 .. FIELD : Damage \in D[k]
        BY <1>1, <2>1, <4>1 DEF Crossing
      <4>3. Damage' = Crossed(Damage)[1]
        BY <2>1, <4>1, CrossedNext, Zenon
      <4> QED BY <3>1, <4>2, <4>3
    <3>2. CASE m \in 1 .. 3
      <4>0. PICK k \in 1 .. FIELD : \E d \in D[k] : Damage = Crossed(d)[m]
        BY <2>1, <2>2, <3>2 DEF Crossing
      <4>1. PICK d \in D[k] : Damage = Crossed(d)[m]
        BY <4>0
      <4>2. Damage' = Fed(Crossed(d)[m], FieldByte(Crossed(d)[m], FIELD + m))
        BY <2>1, <2>2, <4>1, Zenon
      <4>3. Damage' = Crossed(d)[m + 1]
        <5>1. CASE m = 1
          BY <4>2, <5>1, CrossedNext
        <5>2. CASE m = 2
          BY <4>2, <5>2, CrossedNext
        <5>3. CASE m = 3
          BY <4>2, <5>3, CrossedNext
        <5> QED BY <3>2, <5>1, <5>2, <5>3
      <4> QED BY <4>1, <4>3, Zenon
    <3> QED BY <3>1, <3>2
  <2>3. PICK m \in 0 .. 3 : i = FIELD + m
    <3>1. i - FIELD \in 0 .. 3 /\ i = FIELD + (i - FIELD)
      BY <1>1, <1>5
    <3> QED BY <3>1
  <2>4. PICK k \in 1 .. FIELD : \E d \in D[k] : Damage' = Crossed(d)[m + 1]
    BY <2>2, <2>3, Zenon
  <2>5. Damage' # {}
    <3>1. m + 1 \in 1 .. 4
      OBVIOUS
    <3> QED BY <2>4, <3>1, Zenon DEF Certifies
  <2>6. ~(i + 1 <= FIELD)
    BY <1>1, <1>5
  <2>7. ASSUME NEW n \in 1 .. 3, i + 1 = FIELD + n PROVE n = m + 1
    BY <1>1, <2>3, <2>7
  <2> QED BY <2>4, <2>5, <2>6, <2>7, Zenon
<1>6. CASE i > FIELD + 3
  <2>1. /\ i \notin FIELD .. FIELD + 3 /\ ~(i + 1 <= FIELD)
        /\ ~(\E m \in 1 .. 3 : i + 1 = FIELD + m)
    BY <1>1, <1>6
  <2>2. Damage' # {}
    BY <1>2, <1>1, <1>3, <2>1 DEF SurvivesOutsideField, Crossing
  <2> QED BY <2>1, <2>2
<1> QED BY <1>1, <1>4, <1>5, <1>6

(* When all that a flipped bit can lead to crosses the field, no flip is   *)
(* ever cancelled.  The premise speaks of the place of the field only and  *)
(* of no block: with the layout of MBlock TLC evaluates it in full         *)
(* (MCCertified), so the checksum detects a flipped bit in any block.      *)
THEOREM DamageIsDetected ==
    ASSUME NEW D, Certifies(D)
    PROVE  Spec => []DetectsDamage
<1> DEFINE Inv == IInv /\ Crossing(D)
<1>1. Init => Inv
  BY InitInv DEF Init, Crossing
<1>2. Inv /\ [Next]_vars => Inv'
  <2>1. CASE Step
    BY <2>1, StepInv, CertifiedStep DEF Next
  <2>2. CASE UNCHANGED vars
    <3>1. IInv => IInv'
      BY <2>2, StepInv
    <3>2. hit' = hit /\ Damage' = Damage /\ i' = i
      BY <2>2 DEF vars, Damage
    <3> QED BY <3>1, <3>2 DEF Crossing
  <2> QED BY <2>1, <2>2 DEF Next
<1>3. Inv => DetectsDamage
  BY DamageFacts DEF DetectsDamage, Crossing, IInv
<1> HIDE DEF Inv
<1> QED BY <1>1, <1>2, <1>3, PTL DEF Spec
===============================================================================
