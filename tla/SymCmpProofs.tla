----------------------------- MODULE SymCmpProofs -----------------------------
(***************************************************************************)
(* The comparison of symcmp/superglue.c cannot fail, and it is about every *)
(* frame: proofs for every length of the run, every size of the MBlock and *)
(* every set of frame bytes.                                               *)
(*                                                                         *)
(* The stub ciphers come first: each is undone by its counterpart, and the *)
(* two can be told apart on a text with a byte that rotating changes,      *)
(* which the generation of an MBlock has.  Then the log: a build is a      *)
(* function of the input it has been through.  The frames that were ready  *)
(* have ranks, a rank fixes the block and the slot of its frame, and the   *)
(* log of m blocks is the same in both builds but for the cipher (IsLog).  *)
(* IInv says so at every step, and that the comparison reads both logs at  *)
(* the same record; the assertions follow from it record by record.        *)
(***************************************************************************)
EXTENDS SymCmp, TLAPS, FiniteSetTheorems

-----------------------------------------------------------------------------
(* The fake ciphers. *)

LEMMA RotationsCancel ==
  ASSUME NEW rotation \in Nat, NEW i \in Bits
  PROVE  /\ (i + rotation) % BYTE_BITS \in Bits
         /\ (i - rotation) % BYTE_BITS \in Bits
         /\ (((i + rotation) % BYTE_BITS) - rotation) % BYTE_BITS = i
  BY DEF Bits, BYTE_BITS

(* Xor with the same key byte twice gives back the byte.                   *)
LEMMA XorCancels ==
  ASSUME NEW p \in Byte, NEW k \in Byte
  PROVE  /\ Xor(p, k) \in Byte
         /\ Xor(Xor(p, k), k) = p
  <1>1. Xor(p, k) \in Byte
    BY Zenon DEF Xor, Byte
  <1>2. ASSUME NEW i \in Bits PROVE Xor(Xor(p, k), k)[i] = p[i]
    <2>1. p[i] \in BOOLEAN /\ k[i] \in BOOLEAN  BY DEF Byte
    <2>2. Xor(Xor(p, k), k)[i] = ((p[i] # k[i]) # k[i])  BY Zenon DEF Xor
    <2> QED BY <2>1, <2>2
  <1>3. Xor(Xor(p, k), k) = [i \in Bits |-> Xor(p, k)[i] # k[i]]  BY DEF Xor
  <1> QED BY <1>1, <1>2, <1>3, Zenon DEF Byte

LEMMA RotateType ==
  ASSUME NEW p \in Byte, NEW rotation \in Nat
  PROVE  RotateLeft(p, rotation) \in Byte
  BY RotationsCancel, Zenon DEF RotateLeft, Byte

(* Rotating to the right by as much undoes rotating to the left.           *)
LEMMA RotateCancels ==
  ASSUME NEW p \in Byte, NEW rotation \in Nat
  PROVE  RotateRight(RotateLeft(p, rotation), rotation) = p
  <1>1. ASSUME NEW i \in Bits
        PROVE  RotateRight(RotateLeft(p, rotation), rotation)[i] = p[i]
    BY RotationsCancel, Zenon DEF RotateRight, RotateLeft
  <1> QED BY <1>1, Zenon DEF RotateRight, Byte

LEMMA DecryptByteInverts ==
  ASSUME NEW rotation \in Nat, NEW p \in Byte, NEW k \in Byte
  PROVE  DecryptByte(rotation, EncryptByte(rotation, p, k), k) = p
  <1> DEFINE r == RotateLeft(p, rotation)
  <1>1. r \in Byte  BY RotateType
  <1>2. RotateRight(r, rotation) = p  BY RotateCancels
  <1>3. EncryptByte(rotation, p, k) = Xor(r, k)  BY DEF EncryptByte
  <1> HIDE DEF r
  <1>4. Xor(Xor(r, k), k) = r  BY <1>1, XorCancels
  <1> QED BY <1>2, <1>3, <1>4 DEF DecryptByte

LEMMA KeyByte ==
  ASSUME NEW key \in Keys, NEW i \in Nat
  PROVE  key[i % KEY_SIZE] \in Byte
  <1>1. i % KEY_SIZE \in 0 .. KEY_SIZE - 1  BY CipherAssumption
  <1> QED BY <1>1 DEF Keys

(* fake_aes_decrypt undoes fake_aes_encrypt and fake_des_decrypt undoes    *)
(* fake_des_encrypt, on a text of any length under any key.                *)
THEOREM DecryptInverts ==
  ASSUME NEW rotation \in Nat, NEW Offsets, Offsets \subseteq Nat,
         NEW text \in [Offsets -> Byte], NEW key \in Keys
  PROVE  FakeDecrypt(rotation, FakeEncrypt(rotation, text, key), key) = text
  <1> DEFINE c == FakeEncrypt(rotation, text, key)
  <1>1. DOMAIN text = Offsets /\ DOMAIN c = Offsets
    BY Zenon DEF FakeEncrypt
  <1>2. ASSUME NEW i \in Offsets
        PROVE  DecryptByte(rotation, c[i], key[i % KEY_SIZE]) = text[i]
    <2>1. c[i] = EncryptByte(rotation, text[i], key[i % KEY_SIZE])
      BY <1>1, Zenon DEF FakeEncrypt
    <2>2. text[i] \in Byte /\ key[i % KEY_SIZE] \in Byte  BY KeyByte
    <2> QED BY <2>1, <2>2, DecryptByteInverts
  <1> HIDE DEF c
  <1>3. FakeDecrypt(rotation, c, key) = [i \in Offsets |-> text[i]]
    BY <1>1, <1>2, Zenon DEF FakeDecrypt
  <1> QED BY <1>3 DEF c

(* fake_aes_encrypt and fake_des_encrypt differ on a text under the same   *)
(* key as soon as one of its bytes is neither all zeros nor all ones.      *)
THEOREM CiphersDiffer ==
  ASSUME NEW Offsets, Offsets \subseteq Nat,
         NEW text \in [Offsets -> Byte], NEW key \in Keys,
         NEW n \in Offsets, NEW i \in Bits, NEW j \in Bits,
         text[n][i] # text[n][j]
  PROVE  FakeEncrypt(1, text, key) # FakeEncrypt(2, text, key)
  <1> DEFINE p == text[n]
             k == key[n % KEY_SIZE]
  <1> SUFFICES ASSUME FakeEncrypt(1, text, key) = FakeEncrypt(2, text, key)
               PROVE  FALSE
    OBVIOUS
  <1>1. DOMAIN text = Offsets  OBVIOUS
  <1>2. p \in Byte  OBVIOUS
  <1>3. k \in Byte
    <2>1. n \in Nat  OBVIOUS
    <2> QED BY <2>1, KeyByte
  <1>4. FakeEncrypt(1, text, key)[n] = EncryptByte(1, p, k)
    BY <1>1, Zenon DEF FakeEncrypt
  <1>5. FakeEncrypt(2, text, key)[n] = EncryptByte(2, p, k)
    BY <1>1, Zenon DEF FakeEncrypt
  <1>6. Xor(RotateLeft(p, 1), k) = Xor(RotateLeft(p, 2), k)
    BY <1>4, <1>5 DEF EncryptByte
  <1> HIDE DEF p, k
  <1>7. RotateLeft(p, 1) = RotateLeft(p, 2)
    BY <1>2, <1>3, <1>6, XorCancels, RotateType
  <1>8. ASSUME NEW b \in Bits PROVE p[(b - 1) % BYTE_BITS] = p[(b - 2) % BYTE_BITS]
    BY <1>7, Zenon DEF RotateLeft
  <1>9. /\ p[0] = p[7] /\ p[1] = p[0] /\ p[2] = p[1] /\ p[3] = p[2]
        /\ p[4] = p[3] /\ p[5] = p[4] /\ p[6] = p[5] /\ p[7] = p[6]
    <2>1. 0 \in Bits /\ 2 \in Bits /\ 3 \in Bits /\ 4 \in Bits
          /\ 5 \in Bits /\ 6 \in Bits /\ 7 \in Bits /\ 1 \in Bits
      BY DEF Bits, BYTE_BITS
    <2>2. ASSUME NEW b \in Bits
          PROVE  p[IF b = 0 THEN 7 ELSE b - 1] = p[IF b <= 1 THEN b + 6 ELSE b - 2]
      <3>1. (b - 1) % BYTE_BITS = IF b = 0 THEN 7 ELSE b - 1  BY DEF Bits, BYTE_BITS
      <3>2. (b - 2) % BYTE_BITS = IF b <= 1 THEN b + 6 ELSE b - 2  BY DEF Bits, BYTE_BITS
      <3> QED BY <1>8, <3>1, <3>2
    <2> QED BY <2>1, <2>2
  <1>10. i \in 0 .. 7 /\ j \in 0 .. 7  BY DEF Bits, BYTE_BITS
  <1>11. p[i] = p[j]  BY <1>9, <1>10, SMT
  <1> QED BY <1>11 DEF p

-----------------------------------------------------------------------------
(* Frames fill blocks: quotients and remainders. *)

LEMMA BufferSize == BUFFER_SIZE \in Nat /\ BUFFER_SIZE > 0
  BY SymCmpAssumption

(* Products grow with either factor. *)
LEMMA ProductGrows ==
  ASSUME NEW p \in Nat, NEW q \in Nat, p <= q, NEW w \in Nat
  PROVE  p * w <= q * w
  <1>1. PICK d \in Nat : q = p + d  BY SMT
  <1>2. q * w = p * w + d * w  BY <1>1, SMT
  <1>3. d * w >= 0  BY SMT
  <1> QED BY <1>2, <1>3, SMT

LEMMA ProductStep ==
  ASSUME NEW p \in Nat, NEW w \in Nat
  PROVE  p * w \in Nat /\ (p + 1) * w = p * w + w
  BY SMT

(* Quotient and remainder by BUFFER_SIZE are what they should be. *)
LEMMA BlockAndSlot ==
  ASSUME NEW r \in Nat
  PROVE  /\ r \div BUFFER_SIZE \in Nat
         /\ r % BUFFER_SIZE \in 0 .. BUFFER_SIZE - 1
         /\ r = (r \div BUFFER_SIZE) * BUFFER_SIZE + (r % BUFFER_SIZE)
  BY BufferSize, SMT

LEMMA QuotientNotLess ==
  ASSUME NEW p \in Nat, NEW q \in Nat, p < q,
         NEW c \in 0 .. BUFFER_SIZE - 1, NEW d \in Nat
  PROVE  p * BUFFER_SIZE + c < q * BUFFER_SIZE + d
  <1>1. (p + 1) * BUFFER_SIZE <= q * BUFFER_SIZE  BY ProductGrows, BufferSize
  <1>2. (p + 1) * BUFFER_SIZE = p * BUFFER_SIZE + BUFFER_SIZE  BY ProductStep, BufferSize
  <1>3. p * BUFFER_SIZE \in Nat /\ q * BUFFER_SIZE \in Nat  BY BufferSize, SMT
  <1> QED BY <1>1, <1>2, <1>3, BufferSize, SMT

LEMMA BlockAndSlotAre ==
  ASSUME NEW q \in Nat, NEW c \in 0 .. BUFFER_SIZE - 1
  PROVE  /\ (q * BUFFER_SIZE + c) \div BUFFER_SIZE = q
         /\ (q * BUFFER_SIZE + c) % BUFFER_SIZE = c
  <1> DEFINE r == q * BUFFER_SIZE + c
             p == r \div BUFFER_SIZE
             d == r % BUFFER_SIZE
  <1>1. r \in Nat  BY BufferSize, ProductStep, SMT
  <1>2. p \in Nat /\ d \in 0 .. BUFFER_SIZE - 1 /\ r = p * BUFFER_SIZE + d
    BY <1>1, BlockAndSlot
  <1>3. r = q * BUFFER_SIZE + c  OBVIOUS
  <1>4. c \in Nat  BY BufferSize, SMT
  <1> HIDE DEF r, p, d
  <1>5. d \in Nat  BY <1>2, BufferSize, SMT
  <1>6. ~ (p < q)  BY <1>2, <1>3, <1>4, QuotientNotLess, SMT
  <1>7. ~ (q < p)  BY <1>2, <1>3, <1>5, QuotientNotLess, SMT
  <1>8. p = q  BY <1>2, <1>6, <1>7, SMT
  <1>9. p * BUFFER_SIZE \in Nat  BY <1>2, BufferSize, ProductStep
  <1>10. d = c
    <2>1. p * BUFFER_SIZE + d = p * BUFFER_SIZE + c  BY <1>2, <1>3, <1>8
    <2> QED BY <1>2, <1>4, <1>5, <1>9, <2>1, SMT
  <1> QED BY <1>8, <1>10 DEF p, d, r

(* One frame more: the slot after, or the first one of the next block. *)
LEMMA NextFrame ==
  ASSUME NEW r \in Nat
  PROVE  IF (r % BUFFER_SIZE) + 1 < BUFFER_SIZE
         THEN /\ (r + 1) \div BUFFER_SIZE = r \div BUFFER_SIZE
              /\ (r + 1) % BUFFER_SIZE = (r % BUFFER_SIZE) + 1
         ELSE /\ (r + 1) \div BUFFER_SIZE = (r \div BUFFER_SIZE) + 1
              /\ (r + 1) % BUFFER_SIZE = 0
              /\ (r % BUFFER_SIZE) + 1 = BUFFER_SIZE
  <1> DEFINE q == r \div BUFFER_SIZE
             c == r % BUFFER_SIZE
  <1>1. q \in Nat /\ c \in 0 .. BUFFER_SIZE - 1 /\ r = q * BUFFER_SIZE + c
    BY BlockAndSlot
  <1> HIDE DEF q, c
  <1>2. q * BUFFER_SIZE \in Nat /\ (q + 1) * BUFFER_SIZE = q * BUFFER_SIZE + BUFFER_SIZE
    BY <1>1, BufferSize, ProductStep
  <1>3. CASE c + 1 < BUFFER_SIZE
    <2>1. c + 1 \in 0 .. BUFFER_SIZE - 1  BY <1>1, <1>3, BufferSize, SMT
    <2>2. r + 1 = q * BUFFER_SIZE + (c + 1)  BY <1>1, <1>2, BufferSize, SMT
    <2> QED BY <1>1, <1>3, <2>1, <2>2, BlockAndSlotAre DEF q, c
  <1>4. CASE ~ (c + 1 < BUFFER_SIZE)
    <2>1. c + 1 = BUFFER_SIZE  BY <1>1, <1>4, BufferSize, SMT
    <2>2. r + 1 = (q + 1) * BUFFER_SIZE + 0  BY <1>1, <1>2, <2>1, BufferSize, SMT
    <2>3. q + 1 \in Nat /\ 0 \in 0 .. BUFFER_SIZE - 1  BY <1>1, BufferSize, SMT
    <2> QED BY <1>4, <2>1, <2>2, <2>3, BlockAndSlotAre DEF q, c
  <1> QED BY <1>3, <1>4

(* The blocks that hold r frames, the last of them perhaps not full. *)
Written(r) == (r + BUFFER_SIZE - 1) \div BUFFER_SIZE

LEMMA WrittenIs ==
  ASSUME NEW r \in Nat
  PROVE  Written(r) = IF r % BUFFER_SIZE = 0 THEN r \div BUFFER_SIZE
                                             ELSE (r \div BUFFER_SIZE) + 1
  <1> DEFINE q == r \div BUFFER_SIZE
             c == r % BUFFER_SIZE
  <1>1. q \in Nat /\ c \in 0 .. BUFFER_SIZE - 1 /\ r = q * BUFFER_SIZE + c
    BY BlockAndSlot
  <1> HIDE DEF q, c
  <1>2. q * BUFFER_SIZE \in Nat /\ (q + 1) * BUFFER_SIZE = q * BUFFER_SIZE + BUFFER_SIZE
    BY <1>1, BufferSize, ProductStep
  <1>3. CASE c = 0
    <2>1. r + BUFFER_SIZE - 1 = q * BUFFER_SIZE + (BUFFER_SIZE - 1)
      BY <1>1, <1>2, <1>3, BufferSize, SMT
    <2>2. BUFFER_SIZE - 1 \in 0 .. BUFFER_SIZE - 1  BY BufferSize, SMT
    <2> QED BY <1>1, <1>3, <2>1, <2>2, BlockAndSlotAre DEF q, c, Written
  <1>4. CASE c # 0
    <2>1. r + BUFFER_SIZE - 1 = (q + 1) * BUFFER_SIZE + (c - 1)
      BY <1>1, <1>2, BufferSize, SMT
    <2>2. q + 1 \in Nat /\ c - 1 \in 0 .. BUFFER_SIZE - 1  BY <1>1, <1>4, BufferSize, SMT
    <2> QED BY <1>4, <2>1, <2>2, BlockAndSlotAre DEF q, c, Written
  <1> QED BY <1>3, <1>4

LEMMA QuotientGrows ==
  ASSUME NEW r \in Nat, NEW t \in Nat, r <= t
  PROVE  r \div BUFFER_SIZE <= t \div BUFFER_SIZE
  <1> DEFINE q == r \div BUFFER_SIZE
             c == r % BUFFER_SIZE
             p == t \div BUFFER_SIZE
             d == t % BUFFER_SIZE
  <1>1. q \in Nat /\ c \in 0 .. BUFFER_SIZE - 1 /\ r = q * BUFFER_SIZE + c
    BY BlockAndSlot
  <1>2. p \in Nat /\ d \in 0 .. BUFFER_SIZE - 1 /\ t = p * BUFFER_SIZE + d
    BY BlockAndSlot
  <1> HIDE DEF q, c, p, d
  <1>3. c \in Nat  BY <1>1, BufferSize, SMT
  <1>4. ~ (p < q)  BY <1>1, <1>2, <1>3, QuotientNotLess, SMT
  <1> QED BY <1>1, <1>2, <1>4, SMT DEF q, p

(* All frames fit in MAX_BLOCKS blocks. *)
LEMMA WrittenFits ==
  ASSUME NEW r \in Nat, r <= NR_ITERATIONS
  PROVE  /\ Written(r) \in Nat
         /\ Written(r) <= MAX_BLOCKS
         /\ MAX_BLOCKS \in Nat
         /\ r \div BUFFER_SIZE <= Written(r)
  <1>1. NR_ITERATIONS \in Nat  BY SymCmpAssumption
  <1>2. r + BUFFER_SIZE - 1 \in Nat /\ NR_ITERATIONS + BUFFER_SIZE - 1 \in Nat
    BY <1>1, BufferSize, SMT
  <1>3. r + BUFFER_SIZE - 1 <= NR_ITERATIONS + BUFFER_SIZE - 1 /\ r <= r + BUFFER_SIZE - 1
    BY <1>1, BufferSize, SMT
  <1>4. Written(r) \in Nat /\ MAX_BLOCKS \in Nat  BY <1>2, BlockAndSlot DEF Written, MAX_BLOCKS
  <1>5. Written(r) <= MAX_BLOCKS  BY <1>2, <1>3, QuotientGrows DEF Written, MAX_BLOCKS
  <1>6. r \div BUFFER_SIZE <= Written(r)  BY <1>2, <1>3, QuotientGrows DEF Written
  <1> QED BY <1>4, <1>5, <1>6

-----------------------------------------------------------------------------
(* The frames that were ready, by their rank among them. *)

RankIn(ready, i) == Cardinality({j \in 1 .. i : ready[j] > 0})

HasRank(ready, i, r) == ready[i] > 0 /\ RankIn(ready, i) = r

FrameOfRank(ready, can, r) ==
    IF \E i \in Iterations : HasRank(ready, i, r)
    THEN can[CHOOSE i \in Iterations : HasRank(ready, i, r)]
    ELSE NO_BYTE

LEMMA RankType ==
  ASSUME NEW ready, NEW i \in Nat
  PROVE  /\ IsFiniteSet({j \in 1 .. i : ready[j] > 0})
         /\ RankIn(ready, i) \in Nat
         /\ RankIn(ready, i) <= i
  <1> DEFINE S == {j \in 1 .. i : ready[j] > 0}
  <1>1. IsFiniteSet(1 .. i) /\ Cardinality(1 .. i) = i
    <2>1. IF 1 > i THEN Cardinality(1 .. i) = 0 ELSE Cardinality(1 .. i) = i - 1 + 1
      BY FS_Interval, SMT
    <2>2. IsFiniteSet(1 .. i)  BY FS_Interval, SMT
    <2> QED BY <2>1, <2>2, SMT
  <1>2. S \in SUBSET (1 .. i)  OBVIOUS
  <1>3. IsFiniteSet(S) /\ Cardinality(S) <= Cardinality(1 .. i)
    BY <1>1, <1>2, FS_Subset
  <1>4. Cardinality(S) \in Nat  BY <1>3, FS_CardinalityType
  <1> QED BY <1>1, <1>3, <1>4 DEF RankIn

LEMMA RankZero ==
  ASSUME NEW ready
  PROVE  RankIn(ready, 0) = 0
  <1>1. RankIn(ready, 0) \in Nat /\ RankIn(ready, 0) <= 0  BY RankType
  <1> QED BY <1>1, SMT

LEMMA RankStep ==
  ASSUME NEW ready, NEW i \in Nat
  PROVE  RankIn(ready, i + 1) =
             IF ready[i + 1] > 0 THEN RankIn(ready, i) + 1 ELSE RankIn(ready, i)
  <1> DEFINE S(k) == {j \in 1 .. k : ready[j] > 0}
  <1>1. CASE ready[i + 1] > 0
    <2>1. S(i + 1) = S(i) \cup {i + 1}  BY <1>1, SMT
    <2>2. i + 1 \notin S(i)  BY SMT
    <2>3. IsFiniteSet(S(i))  BY RankType
    <2>4. Cardinality(S(i) \cup {i + 1}) = Cardinality(S(i)) + 1
      BY <2>2, <2>3, FS_AddElement
    <2> QED BY <1>1, <2>1, <2>4 DEF RankIn
  <1>2. CASE ~ (ready[i + 1] > 0)
    <2>1. S(i + 1) = S(i)  BY <1>2, SMT
    <2> QED BY <1>2, <2>1 DEF RankIn
  <1> QED BY <1>1, <1>2

LEMMA RankGrows ==
  ASSUME NEW ready, NEW i \in Nat, NEW k \in Nat, i <= k
  PROVE  RankIn(ready, i) <= RankIn(ready, k)
  <1> DEFINE S(n) == {j \in 1 .. n : ready[j] > 0}
  <1>1. S(i) \in SUBSET S(k)  BY SMT
  <1>2. IsFiniteSet(S(k))  BY RankType
  <1>3. Cardinality(S(i)) <= Cardinality(S(k))  BY <1>1, <1>2, FS_Subset
  <1> QED BY <1>3 DEF RankIn

LEMMA RankLess ==
  ASSUME NEW ready, NEW i \in Nat, NEW k \in Nat, i < k, ready[k] > 0
  PROVE  RankIn(ready, i) < RankIn(ready, k)
  <1> DEFINE h == k - 1
  <1>1. h \in Nat /\ i <= h /\ k = h + 1  BY SMT
  <1> HIDE DEF h
  <1>2. RankIn(ready, k) = RankIn(ready, h) + 1  BY <1>1, RankStep
  <1>3. RankIn(ready, i) <= RankIn(ready, h)  BY <1>1, RankGrows
  <1>4. RankIn(ready, i) \in Nat /\ RankIn(ready, h) \in Nat  BY <1>1, RankType
  <1> QED BY <1>2, <1>3, <1>4, SMT

LEMMA IterationsAre ==
  ASSUME NEW i
  PROVE  i \in Iterations <=> i \in Nat /\ 1 <= i /\ i <= NR_ITERATIONS
  <1>1. NR_ITERATIONS \in Nat  BY SymCmpAssumption
  <1> QED BY <1>1, SMT DEF Iterations

(* The frame of a rank is the one that was read as that. *)
LEMMA FrameOfRankIs ==
  ASSUME NEW ready, NEW can, NEW i \in Iterations, ready[i] > 0
  PROVE  FrameOfRank(ready, can, RankIn(ready, i)) = can[i]
  <1> DEFINE r == RankIn(ready, i)
             c == CHOOSE k \in Iterations : HasRank(ready, k, r)
  <1>1. HasRank(ready, i, r)  BY DEF HasRank
  <1>2. c \in Iterations /\ HasRank(ready, c, r)
    <2>1. \E k \in Iterations : HasRank(ready, k, r)  BY <1>1
    <2> HIDE DEF r
    <2> QED BY <2>1, Zenon
  <1>3. FrameOfRank(ready, can, r) = can[c]  BY <1>1, Zenon DEF FrameOfRank
  <1> HIDE DEF c
  <1>4. RankIn(ready, c) = RankIn(ready, i) /\ ready[c] > 0  BY <1>2 DEF HasRank
  <1>5. i \in Nat /\ c \in Nat  BY <1>2, IterationsAre
  <1>6. RankIn(ready, i) \in Nat  BY <1>5, RankType
  <1>7. ~ (i < c)  BY <1>4, <1>5, <1>6, RankLess, SMT
  <1>8. ~ (c < i)  BY <1>4, <1>5, <1>6, RankLess, SMT
  <1>9. c = i  BY <1>5, <1>7, <1>8, SMT
  <1> QED BY <1>3, <1>9

LEMMA NoFrameBehind ==
  ASSUME NEW ready, NEW can, NEW r \in Nat, RankIn(ready, NR_ITERATIONS) < r
  PROVE  FrameOfRank(ready, can, r) = NO_BYTE
  <1>1. ASSUME NEW i \in Iterations, HasRank(ready, i, r) PROVE FALSE
    <2>1. NR_ITERATIONS \in Nat  BY SymCmpAssumption
    <2>2. i \in Nat /\ i <= NR_ITERATIONS  BY IterationsAre
    <2>3. RankIn(ready, i) <= RankIn(ready, NR_ITERATIONS)  BY <2>1, <2>2, RankGrows
    <2>4. RankIn(ready, i) = r  BY <1>1 DEF HasRank
    <2>5. RankIn(ready, NR_ITERATIONS) \in Nat  BY <2>1, RankType
    <2> QED BY <2>3, <2>4, <2>5, SMT
  <1> QED BY <1>1, Zenon DEF FrameOfRank

StoredBytes == FrameBytes \cup {NO_BYTE}

LEMMA FrameOfRankType ==
  ASSUME NEW ready, NEW can \in [Iterations -> FrameBytes], NEW r
  PROVE  FrameOfRank(ready, can, r) \in StoredBytes
  <1>1. CASE \E i \in Iterations : HasRank(ready, i, r)
    <2> DEFINE c == CHOOSE i \in Iterations : HasRank(ready, i, r)
    <2>1. c \in Iterations  BY <1>1, Zenon
    <2>2. FrameOfRank(ready, can, r) = can[c]  BY <1>1, Zenon DEF FrameOfRank
    <2> HIDE DEF c
    <2> QED BY <2>1, <2>2 DEF StoredBytes
  <1>2. CASE ~ \E i \in Iterations : HasRank(ready, i, r)
    BY <1>2, Zenon DEF FrameOfRank, StoredBytes
  <1> QED BY <1>1, <1>2

-----------------------------------------------------------------------------
(* The log a build writes: the header, and then the blocks.                *)

(* What the n-th block holds, and the frames that wait after r of them.    *)
BlockFrames(ready, can, n) ==
    [s \in Slots |-> FrameOfRank(ready, can, (n - 1) * BUFFER_SIZE + s)]

Pending(ready, can, r) ==
    [s \in Slots |->
        IF s <= r % BUFFER_SIZE
        THEN FrameOfRank(ready, can, (r \div BUFFER_SIZE) * BUFFER_SIZE + s)
        ELSE NO_BYTE]

LEMMA SlotsAre ==
  ASSUME NEW s
  PROVE  s \in Slots <=> s \in Nat /\ 1 <= s /\ s <= BUFFER_SIZE
  BY BufferSize, SMT DEF Slots

LEMMA NothingPending ==
  ASSUME NEW ready, NEW can, NEW r \in Nat, r % BUFFER_SIZE = 0
  PROVE  Pending(ready, can, r) = NoFrames
  <1>1. ASSUME NEW s \in Slots PROVE ~ (s <= r % BUFFER_SIZE)
    BY SlotsAre, SMT
  <1> QED BY <1>1, Zenon DEF Pending, NoFrames

(* logging_handler puts the next frame behind the ones that wait.          *)
LEMMA PendingGrows ==
  ASSUME NEW ready, NEW can, NEW r \in Nat,
         (r % BUFFER_SIZE) + 1 < BUFFER_SIZE
  PROVE  [Pending(ready, can, r) EXCEPT ![(r % BUFFER_SIZE) + 1] = FrameOfRank(ready, can, r + 1)]
           = Pending(ready, can, r + 1)
  <1> DEFINE c == r % BUFFER_SIZE
             base == (r \div BUFFER_SIZE) * BUFFER_SIZE
             F(k) == FrameOfRank(ready, can, k)
  <1>1. c \in Nat /\ c + 1 < BUFFER_SIZE /\ base \in Nat /\ r = base + c
    BY BlockAndSlot, BufferSize, ProductStep, SMT
  <1>2. (r + 1) % BUFFER_SIZE = c + 1 /\ (r + 1) \div BUFFER_SIZE = r \div BUFFER_SIZE
    BY NextFrame
  <1>3. Pending(ready, can, r) = [s \in Slots |-> IF s <= c THEN F(base + s) ELSE NO_BYTE]
    BY Zenon DEF Pending
  <1>4. Pending(ready, can, r + 1) = [s \in Slots |-> IF s <= c + 1 THEN F(base + s) ELSE NO_BYTE]
    BY <1>2, Zenon DEF Pending
  <1> HIDE DEF c, base, F
  <1>5. ASSUME NEW s \in Slots
        PROVE  (IF s = c + 1 THEN F(base + (c + 1)) ELSE IF s <= c THEN F(base + s) ELSE NO_BYTE)
                 = (IF s <= c + 1 THEN F(base + s) ELSE NO_BYTE)
    <2>1. s \in Nat  BY SlotsAre
    <2>2. CASE s = c + 1
      <3>1. s <= c + 1  BY <1>1, <2>2, SMT
      <3> QED BY <2>2, <3>1
    <2>3. CASE s # c + 1
      <3>1. s <= c <=> s <= c + 1  BY <1>1, <2>1, <2>3, SMT
      <3> QED BY <2>3, <3>1, Zenon
    <2> QED BY <2>2, <2>3
  <1>6. [Pending(ready, can, r) EXCEPT ![c + 1] = F(base + (c + 1))]
          = [s \in Slots |-> IF s = c + 1 THEN F(base + (c + 1))
                             ELSE IF s <= c THEN F(base + s) ELSE NO_BYTE]
    BY <1>3, Zenon
  <1>7. base + (c + 1) = r + 1  BY <1>1, SMT
  <1>8. [Pending(ready, can, r) EXCEPT ![c + 1] = F(base + (c + 1))] = Pending(ready, can, r + 1)
    BY <1>4, <1>5, <1>6, Zenon
  <1> QED BY <1>7, <1>8 DEF c, F

(* The frame that fills the block.                                         *)
LEMMA PendingFills ==
  ASSUME NEW ready, NEW can, NEW r \in Nat,
         (r % BUFFER_SIZE) + 1 = BUFFER_SIZE
  PROVE  [Pending(ready, can, r) EXCEPT ![(r % BUFFER_SIZE) + 1] = FrameOfRank(ready, can, r + 1)]
           = BlockFrames(ready, can, (r \div BUFFER_SIZE) + 1)
  <1> DEFINE c == r % BUFFER_SIZE
             q == r \div BUFFER_SIZE
             base == q * BUFFER_SIZE
             F(k) == FrameOfRank(ready, can, k)
  <1>1. c \in Nat /\ c + 1 = BUFFER_SIZE /\ base \in Nat /\ r = base + c /\ q \in Nat
    BY BlockAndSlot, BufferSize, ProductStep, SMT
  <1>2. Pending(ready, can, r) = [s \in Slots |-> IF s <= c THEN F(base + s) ELSE NO_BYTE]
    BY Zenon DEF Pending
  <1>3. (q + 1) - 1 = q  BY <1>1, SMT
  <1>4. BlockFrames(ready, can, q + 1) = [s \in Slots |-> F(base + s)]
    <2> HIDE DEF q
    <2>1. ((q + 1) - 1) * BUFFER_SIZE = base  BY <1>3 DEF base
    <2>2. BlockFrames(ready, can, q + 1) = [s \in Slots |-> F(((q + 1) - 1) * BUFFER_SIZE + s)]
      BY DEF BlockFrames
    <2> QED BY <2>1, <2>2, Zenon
  <1> HIDE DEF c, q, base, F
  <1>5. ASSUME NEW s \in Slots
        PROVE  (IF s = c + 1 THEN F(base + (c + 1)) ELSE IF s <= c THEN F(base + s) ELSE NO_BYTE)
                 = F(base + s)
    <2>1. s \in Nat /\ s <= c + 1  BY <1>1, SlotsAre
    <2>2. s = c + 1 \/ s <= c  BY <1>1, <2>1, SMT
    <2> QED BY <2>2, Zenon
  <1>6. [Pending(ready, can, r) EXCEPT ![c + 1] = F(base + (c + 1))]
          = [s \in Slots |-> IF s = c + 1 THEN F(base + (c + 1))
                             ELSE IF s <= c THEN F(base + s) ELSE NO_BYTE]
    BY <1>2, Zenon
  <1>7. base + (c + 1) = r + 1  BY <1>1, SMT
  <1>8. [Pending(ready, can, r) EXCEPT ![c + 1] = F(base + (c + 1))] = BlockFrames(ready, can, q + 1)
    BY <1>4, <1>5, <1>6, Zenon
  <1> QED BY <1>7, <1>8 DEF c, q, F

(* What still waits at the end is the last block.                          *)
LEMMA PendingIsLast ==
  ASSUME NEW ready, NEW can
  PROVE  LET r == RankIn(ready, NR_ITERATIONS)
         IN  Pending(ready, can, r) = BlockFrames(ready, can, (r \div BUFFER_SIZE) + 1)
  <1> DEFINE r == RankIn(ready, NR_ITERATIONS)
             c == r % BUFFER_SIZE
             q == r \div BUFFER_SIZE
             base == q * BUFFER_SIZE
             F(k) == FrameOfRank(ready, can, k)
  <1>0. r \in Nat  BY RankType, SymCmpAssumption
  <1> HIDE DEF r
  <1>1. c \in Nat /\ base \in Nat /\ r = base + c /\ q \in Nat
    BY <1>0, BlockAndSlot, BufferSize, ProductStep, SMT
  <1>2. (q + 1) - 1 = q  BY <1>1, SMT
  <1>3. BlockFrames(ready, can, q + 1) = [s \in Slots |-> F(base + s)]
    <2> HIDE DEF q
    <2>1. ((q + 1) - 1) * BUFFER_SIZE = base  BY <1>2 DEF base
    <2>2. BlockFrames(ready, can, q + 1) = [s \in Slots |-> F(((q + 1) - 1) * BUFFER_SIZE + s)]
      BY DEF BlockFrames
    <2> QED BY <2>1, <2>2, Zenon
  <1>4. Pending(ready, can, r) = [s \in Slots |-> IF s <= c THEN F(base + s) ELSE NO_BYTE]
    BY Zenon DEF Pending
  <1>5. ASSUME NEW s \in Slots, ~ (s <= c) PROVE F(base + s) = NO_BYTE
    <2> HIDE DEF c, base
    <2>1. s \in Nat  BY SlotsAre
    <2>2. base + s \in Nat /\ r < base + s  BY <1>1, <1>5, <2>1, SMT
    <2> QED BY <2>2, NoFrameBehind DEF r
  <1> HIDE DEF c, base, F
  <1>6. Pending(ready, can, r) = BlockFrames(ready, can, q + 1)
    BY <1>3, <1>4, <1>5, Zenon
  <1> QED BY <1>6 DEF r, q

StoredFrames == [Slots -> StoredBytes]

LEMMA BlockFramesType ==
  ASSUME NEW ready, NEW can \in [Iterations -> FrameBytes], NEW n
  PROVE  BlockFrames(ready, can, n) \in StoredFrames
  BY FrameOfRankType, Zenon DEF BlockFrames, StoredFrames

LEMMA PendingType ==
  ASSUME NEW ready, NEW can \in [Iterations -> FrameBytes], NEW r
  PROVE  Pending(ready, can, r) \in StoredFrames
  <1>1. NO_BYTE \in StoredBytes  BY DEF StoredBytes
  <1> QED BY <1>1, FrameOfRankType, Zenon DEF Pending, StoredFrames

Key == RandBytes(0, KEY_SIZE)

LogRecords ==
    {KeyRecord(0)} \cup {IVRecord(KEY_SIZE + n * IV_SIZE) : n \in 0 .. MAX_BLOCKS}
      \cup {Encrypted("patched", f, Key) : f \in StoredFrames}
      \cup {Encrypted("vuln", f, Key) : f \in StoredFrames}

(* log holds the header and m blocks; every random byte is drawn once.     *)
IsLog(b, ready, can, log, m) ==
    /\ log \in Seq(LogRecords)
    /\ Len(log) = 2 + 2 * m
    /\ log[1] = KeyRecord(0)
    /\ log[2] = IVRecord(KEY_SIZE)
    /\ \A n \in 1 .. m :
           /\ log[1 + 2 * n] = Encrypted(b, BlockFrames(ready, can, n), Key)
           /\ log[2 + 2 * n] = IVRecord(KEY_SIZE + n * IV_SIZE)

LEMMA MaxBlocks == MAX_BLOCKS \in Nat
  <1>1. 0 \in Nat /\ 0 <= NR_ITERATIONS  BY SymCmpAssumption, SMT
  <1> QED BY <1>1, WrittenFits

LEMMA IVRecordType ==
  ASSUME NEW n \in Nat, n <= MAX_BLOCKS
  PROVE  IVRecord(KEY_SIZE + n * IV_SIZE) \in LogRecords
  <1>1. n \in 0 .. MAX_BLOCKS  BY MaxBlocks, SMT
  <1> QED BY <1>1, Zenon DEF LogRecords

LEMMA FirstIV == IVRecord(KEY_SIZE + 0 * IV_SIZE) = IVRecord(KEY_SIZE)
  <1>1. KEY_SIZE \in Nat /\ IV_SIZE \in Nat
    BY CipherAssumption, SymCmpAssumption DEF PADDING
  <1>2. KEY_SIZE + 0 * IV_SIZE = KEY_SIZE  BY <1>1, SMT
  <1> QED BY <1>2

(* Two records behind a sequence. *)
LEMMA TwoMore ==
  ASSUME NEW S, NEW s \in Seq(S), NEW x \in S, NEW y \in S
  PROVE  /\ s \o <<x, y>> \in Seq(S)
         /\ Len(s \o <<x, y>>) = Len(s) + 2
         /\ \A k \in 1 .. Len(s) : (s \o <<x, y>>)[k] = s[k]
         /\ (s \o <<x, y>>)[Len(s) + 1] = x
         /\ (s \o <<x, y>>)[Len(s) + 2] = y
  OBVIOUS

(* logging_setup. *)
LEMMA LogStarts ==
  ASSUME NEW b, NEW ready, NEW can
  PROVE  IsLog(b, ready, can, <<>> \o <<KeyRecord(0), IVRecord(KEY_SIZE)>>, 0)
  <1> DEFINE S == LogRecords
             x == KeyRecord(0)
             y == IVRecord(KEY_SIZE)
             log == <<>> \o <<x, y>>
  <1>1. x \in S  BY Zenon DEF LogRecords
  <1>2. y \in S  BY MaxBlocks, IVRecordType, FirstIV, SMT
  <1> HIDE DEF S, x, y
  <1>3. <<>> \in Seq(S) /\ Len(<<>>) = 0  OBVIOUS
  <1>4. log \in Seq(S)  BY <1>1, <1>2, <1>3, TwoMore
  <1>5. Len(log) = 0 + 2  BY <1>1, <1>2, <1>3, TwoMore
  <1>6. log[1] = x /\ log[2] = y
    <2>1. log[0 + 1] = x /\ log[0 + 2] = y  BY <1>1, <1>2, <1>3, TwoMore
    <2> QED BY <2>1
  <1>7. log \in Seq(LogRecords)  BY <1>4 DEF S
  <1>8. log[1] = KeyRecord(0) /\ log[2] = IVRecord(KEY_SIZE)  BY <1>6 DEF x, y
  <1> HIDE DEF log
  <1>9. Len(log) = 2 + 2 * 0  BY <1>5, SMT
  <1>10. 1 .. 0 = {}  BY SMT
  <1>11. IsLog(b, ready, can, log, 0)  BY <1>7, <1>8, <1>9, <1>10, Zenon DEF IsLog
  <1> QED BY <1>11 DEF log, x, y

(* write_encrypted. *)
LEMMA LogGrows ==
  ASSUME NEW b \in Builds, NEW ready, NEW can \in [Iterations -> FrameBytes], NEW log,
         NEW m \in Nat, m + 1 <= MAX_BLOCKS,
         IsLog(b, ready, can, log, m)
  PROVE  IsLog(b, ready, can,
               log \o <<Encrypted(b, BlockFrames(ready, can, m + 1), Key),
                        IVRecord(KEY_SIZE + (m + 1) * IV_SIZE)>>, m + 1)
  <1> DEFINE S == LogRecords
             E(n) == Encrypted(b, BlockFrames(ready, can, n), Key)
             V(n) == IVRecord(KEY_SIZE + n * IV_SIZE)
             x == E(m + 1)
             y == V(m + 1)
             new == log \o <<x, y>>
  <1>1. x \in S
    <2>1. BlockFrames(ready, can, m + 1) \in StoredFrames  BY BlockFramesType
    <2>2. CASE b = "patched"  BY <2>1, <2>2, Zenon DEF LogRecords
    <2>3. CASE b = "vuln"  BY <2>1, <2>3, Zenon DEF LogRecords
    <2> QED BY <2>2, <2>3 DEF Builds
  <1>2. y \in S
    <2>1. m + 1 \in Nat  BY SMT
    <2> QED BY <2>1, IVRecordType
  <1>3. log \in Seq(S) /\ Len(log) = 2 + 2 * m /\ log[1] = KeyRecord(0) /\ log[2] = IVRecord(KEY_SIZE)
    BY Zenon DEF IsLog
  <1>4. ASSUME NEW n \in 1 .. m PROVE log[1 + 2 * n] = E(n) /\ log[2 + 2 * n] = V(n)
    BY Zenon DEF IsLog
  <1> HIDE DEF S, E, V, x, y
  <1>5. new \in Seq(S)  BY <1>1, <1>2, <1>3, TwoMore
  <1>6. Len(new) = Len(log) + 2  BY <1>1, <1>2, <1>3, TwoMore
  <1>7. ASSUME NEW k \in 1 .. Len(log) PROVE new[k] = log[k]  BY <1>1, <1>2, <1>3, TwoMore
  <1>8. new[Len(log) + 1] = x  BY <1>1, <1>2, <1>3, TwoMore
  <1>9. new[Len(log) + 2] = y  BY <1>1, <1>2, <1>3, TwoMore
  <1> HIDE DEF new
  <1>10. Len(new) = 2 + 2 * (m + 1)  BY <1>3, <1>6, SMT
  <1>11. new[1] = KeyRecord(0) /\ new[2] = IVRecord(KEY_SIZE)
    <2>1. 1 \in 1 .. Len(log) /\ 2 \in 1 .. Len(log)  BY <1>3, SMT
    <2> QED BY <1>3, <1>7, <2>1, Zenon
  <1>12. ASSUME NEW n \in 1 .. m + 1 PROVE new[1 + 2 * n] = E(n) /\ new[2 + 2 * n] = V(n)
    <2>1. CASE n \in 1 .. m
      <3>1. 1 + 2 * n \in 1 .. Len(log) /\ 2 + 2 * n \in 1 .. Len(log)  BY <1>3, <2>1, SMT
      <3> QED BY <1>4, <1>7, <2>1, <3>1, Zenon
    <2>2. CASE n = m + 1
      <3>1. 1 + 2 * n = Len(log) + 1 /\ 2 + 2 * n = Len(log) + 2  BY <1>3, <2>2, SMT
      <3> QED BY <1>8, <1>9, <2>2, <3>1 DEF x, y
    <2>3. n \in 1 .. m \/ n = m + 1  BY SMT
    <2> QED BY <2>1, <2>2, <2>3
  <1>13. new \in Seq(LogRecords)  BY <1>5 DEF S
  <1>14. IsLog(b, ready, can, new, m + 1)
    BY <1>10, <1>11, <1>12, <1>13, Zenon DEF IsLog, E, V
  <1> QED BY <1>14 DEF new, x, y, E, V

-----------------------------------------------------------------------------
(* What the comparison finds in a block. *)

LEMMA ByteOfType ==
  ASSUME NEW n
  PROVE  ByteOf(n) \in Byte
  BY Zenon DEF ByteOf, Byte

LEMMA KeyType == Key \in Keys
  <1>1. 0 .. KEY_SIZE - 1 = 0 .. KEY_SIZE - 1  OBVIOUS
  <1> QED BY ByteOfType, Zenon DEF Key, RandBytes, Keys

LEMMA StoredBytesType == StoredBytes \subseteq Byte
  <1>1. NO_BYTE \in Byte  BY ByteOfType DEF NO_BYTE
  <1>2. FrameBytes \subseteq Byte  BY SymCmpAssumption
  <1> QED BY <1>1, <1>2 DEF StoredBytes

LEMMA GenerationType ==
  GENERATION \in Byte /\ GENERATION[0] # GENERATION[2] /\ 0 \in Bits /\ 2 \in Bits
  <1> DEFINE G(i) == i \in {0, 1, 6}
  <1>1. GENERATION \in Byte
    <2>1. \A i \in Bits : G(i) \in BOOLEAN  OBVIOUS
    <2>2. GENERATION = [i \in Bits |-> G(i)]  BY DEF GENERATION
    <2> HIDE DEF G
    <2> QED BY <2>1, <2>2, Zenon DEF Byte
  <1>2. 0 \in Bits /\ 2 \in Bits  BY DEF Bits, BYTE_BITS
  <1>3. GENERATION[0] = (0 \in {0, 1, 6})  BY <1>2, Zenon DEF GENERATION
  <1>4. GENERATION[2] = (2 \in {0, 1, 6})  BY <1>2, Zenon DEF GENERATION
  <1>5. 0 \in {0, 1, 6} /\ ~ (2 \in {0, 1, 6})  OBVIOUS
  <1> QED BY <1>1, <1>2, <1>3, <1>4, <1>5

LEMMA OffsetsAre ==
  ASSUME NEW s \in Slots
  PROVE  /\ FrameOffset(s) \in Nat
         /\ FrameOffset(s) # 0
         /\ FrameOffset(s) < MBLOCK_SIZE
         /\ (FrameOffset(s) - 8) \div 16 + 1 = s
  <1>1. s \in Nat /\ 1 <= s  BY SlotsAre
  <1>2. FrameOffset(s) \in Nat /\ FrameOffset(s) # 0  BY <1>1, SMT DEF FrameOffset
  <1>3. FrameOffset(s) < MBLOCK_SIZE  BY SymCmpAssumption
  <1>4. (FrameOffset(s) - 8) \div 16 + 1 = s  BY <1>1, SMT DEF FrameOffset
  <1> QED BY <1>2, <1>3, <1>4

PlainOffsets == {0} \cup FrameOffsets

LEMMA PlainOffsetsAre ==
  /\ PlainOffsets \subseteq Nat
  /\ \A k \in PlainOffsets : k < MBLOCK_SIZE
  /\ MBLOCK_SIZE \in Nat
  <1>1. MBLOCK_SIZE \in Nat  BY SymCmpAssumption
  <1>2. 0 < MBLOCK_SIZE
    <2>1. 1 \in Slots  BY SlotsAre, BufferSize, SMT
    <2>2. FrameOffset(1) \in Nat /\ FrameOffset(1) < MBLOCK_SIZE  BY <2>1, OffsetsAre
    <2> QED BY <1>1, <2>2, SMT
  <1>3. ASSUME NEW k \in PlainOffsets PROVE k \in Nat /\ k < MBLOCK_SIZE
    <2>1. CASE k = 0  BY <1>2, <2>1
    <2>2. CASE k \in FrameOffsets
      <3>1. PICK s \in Slots : k = FrameOffset(s)  BY <2>2, Zenon DEF FrameOffsets
      <3> QED BY <3>1, OffsetsAre
    <2> QED BY <2>1, <2>2 DEF PlainOffsets
  <1> QED BY <1>1, <1>3

LEMMA PlaintextIs ==
  ASSUME NEW f \in StoredFrames
  PROVE  /\ Plaintext(f) \in [PlainOffsets -> Byte]
         /\ Plaintext(f)[0] = GENERATION
         /\ \A s \in Slots : Plaintext(f)[FrameOffset(s)] = f[s]
  <1>1. ASSUME NEW s \in Slots
        PROVE  FrameOffset(s) \in PlainOffsets /\ Plaintext(f)[FrameOffset(s)] = f[s]
    <2> DEFINE k == FrameOffset(s)
    <2>1. k \in PlainOffsets  BY Zenon DEF PlainOffsets, FrameOffsets
    <2>2. k # 0 /\ (k - 8) \div 16 + 1 = s  BY OffsetsAre
    <2> HIDE DEF k
    <2>3. Plaintext(f)[k] = f[(k - 8) \div 16 + 1]
      BY <2>1, <2>2, Zenon DEF Plaintext, PlainOffsets
    <2> QED BY <2>1, <2>2, <2>3 DEF k
  <1>2. Plaintext(f)[0] = GENERATION  BY Zenon DEF Plaintext
  <1>3. ASSUME NEW k \in PlainOffsets PROVE Plaintext(f)[k] \in Byte
    <2>1. CASE k = 0  BY <1>2, <2>1, GenerationType
    <2>2. CASE k \in FrameOffsets
      <3>1. PICK s \in Slots : k = FrameOffset(s)  BY <2>2, Zenon DEF FrameOffsets
      <3>2. f[s] \in Byte  BY StoredBytesType DEF StoredFrames
      <3> QED BY <1>1, <3>1, <3>2
    <2> QED BY <2>1, <2>2 DEF PlainOffsets
  <1>4. Plaintext(f) = [k \in PlainOffsets |-> Plaintext(f)[k]]
    BY Zenon DEF Plaintext, PlainOffsets
  <1>5. Plaintext(f) \in [PlainOffsets -> Byte]  BY <1>3, <1>4, Zenon
  <1> QED BY <1>1, <1>2, <1>5

LEMMA RotationType ==
  ASSUME NEW b \in Builds
  PROVE  Rotation[b] \in Nat
  BY DEF Builds, Rotation

(* A block holds the ciphertext, and the padding behind it. *)
LEMMA EncryptedIs ==
  ASSUME NEW b \in Builds, NEW f \in StoredFrames
  PROVE  LET ciphertext == FakeEncrypt(Rotation[b], Plaintext(f), Key)
             contents == Encrypted(b, f, Key).contents
         IN  /\ Encrypted(b, f, Key).size = RECORD_SIZE
             /\ DOMAIN ciphertext = PlainOffsets
             /\ DOMAIN contents = PlainOffsets \cup {MBLOCK_SIZE}
             /\ \A k \in PlainOffsets : contents[k] = ciphertext[k]
  <1> DEFINE ciphertext == FakeEncrypt(Rotation[b], Plaintext(f), Key)
             contents == Encrypted(b, f, Key).contents
  <1>1. DOMAIN Plaintext(f) = PlainOffsets  BY PlaintextIs
  <1>2. DOMAIN ciphertext = PlainOffsets  BY <1>1, Zenon DEF FakeEncrypt
  <1> HIDE DEF ciphertext
  <1> DEFINE c == [k \in DOMAIN ciphertext \cup {MBLOCK_SIZE} |->
                      IF k = MBLOCK_SIZE THEN PAD_BYTE ELSE ciphertext[k]]
  <1>3. Encrypted(b, f, Key) = Record(RECORD_SIZE, c)  BY Zenon DEF Encrypted, ciphertext
  <1>4. DOMAIN c = PlainOffsets \cup {MBLOCK_SIZE}  BY <1>2, Zenon
  <1>5. ASSUME NEW k \in PlainOffsets PROVE c[k] = ciphertext[k]
    <2>1. k # MBLOCK_SIZE
      <3>1. k < MBLOCK_SIZE /\ k \in Nat /\ MBLOCK_SIZE \in Nat  BY PlainOffsetsAre
      <3> QED BY <3>1, SMT
    <2> QED BY <1>2, <2>1, Zenon
  <1> HIDE DEF c
  <1>6. Encrypted(b, f, Key).size = RECORD_SIZE /\ contents = c  BY <1>3 DEF Record
  <1> QED BY <1>2, <1>4, <1>5, <1>6 DEF ciphertext

(* The two builds encrypt every block differently: the first letter of     *)
(* generation, which every block holds, is a byte that rotating changes.   *)
LEMMA BlocksDiffer ==
  ASSUME NEW f \in StoredFrames
  PROVE  Encrypted("patched", f, Key).contents # Encrypted("vuln", f, Key).contents
  <1> DEFINE p == Plaintext(f)
             e(b) == FakeEncrypt(Rotation[b], p, Key)
             c(b) == Encrypted(b, f, Key).contents
  <1>1. p \in [PlainOffsets -> Byte] /\ p[0] = GENERATION  BY PlaintextIs
  <1>2. 0 \in PlainOffsets  BY DEF PlainOffsets
  <1>3. p[0][0] # p[0][2]  BY <1>1, GenerationType
  <1>4. Rotation["patched"] = 1 /\ Rotation["vuln"] = 2  BY DEF Rotation
  <1> HIDE DEF p
  <1>5. FakeEncrypt(1, p, Key) # FakeEncrypt(2, p, Key)
    <2>1. PlainOffsets \subseteq Nat  BY PlainOffsetsAre
    <2>2. 0 \in Bits /\ 2 \in Bits  BY GenerationType
    <2> QED BY <1>1, <1>2, <1>3, <2>1, <2>2, KeyType, CiphersDiffer
  <1>6. e("patched") # e("vuln")  BY <1>4, <1>5
  <1>7. ASSUME NEW b \in Builds
        PROVE  e(b) = [k \in PlainOffsets |-> c(b)[k]]
    <2>1. DOMAIN e(b) = PlainOffsets /\ \A k \in PlainOffsets : c(b)[k] = e(b)[k]
      BY EncryptedIs DEF p
    <2>2. e(b) = [k \in DOMAIN p |-> EncryptByte(Rotation[b], p[k], Key[k % KEY_SIZE])]
      BY Zenon DEF FakeEncrypt
    <2> HIDE DEF e, c
    <2>3. e(b) = [k \in DOMAIN e(b) |-> e(b)[k]]  BY <2>2, Zenon
    <2> QED BY <2>1, <2>3, Zenon
  <1>8. "patched" \in Builds /\ "vuln" \in Builds  BY DEF Builds
  <1> HIDE DEF e, c
  <1>9. c("patched") # c("vuln")  BY <1>6, <1>7, <1>8, Zenon
  <1> QED BY <1>9 DEF c

(* What fake_aes_decrypt and fake_des_decrypt make of it is the plaintext. *)
LEMMA BlockDecrypts ==
  ASSUME NEW b \in Builds, NEW f \in StoredFrames
  PROVE  LET c == Encrypted(b, f, Key).contents
             decrypted == {k \in DOMAIN c : k < RECORD_SIZE - IV_SIZE}
         IN  FakeDecrypt(Rotation[b], [k \in decrypted |-> c[k]], Key) = Plaintext(f)
  <1> DEFINE p == Plaintext(f)
             e == FakeEncrypt(Rotation[b], p, Key)
             c == Encrypted(b, f, Key).contents
             decrypted == {k \in DOMAIN c : k < RECORD_SIZE - IV_SIZE}
  <1>1. DOMAIN e = PlainOffsets /\ DOMAIN c = PlainOffsets \cup {MBLOCK_SIZE}
    BY EncryptedIs
  <1>2. \A k \in PlainOffsets : c[k] = e[k]  BY EncryptedIs
  <1>3. e = [k \in DOMAIN p |-> EncryptByte(Rotation[b], p[k], Key[k % KEY_SIZE])]
    BY Zenon DEF FakeEncrypt
  <1>4. p \in [PlainOffsets -> Byte]  BY PlaintextIs
  <1>5. FakeDecrypt(Rotation[b], e, Key) = p
    <2>1. PlainOffsets \subseteq Nat  BY PlainOffsetsAre
    <2> HIDE DEF p
    <2> QED BY <1>4, <2>1, KeyType, RotationType, DecryptInverts DEF e
  <1>6. RECORD_SIZE - IV_SIZE = MBLOCK_SIZE
    BY SymCmpAssumption, SMT DEF RECORD_SIZE, PADDING
  <1>7. decrypted = PlainOffsets
    <2> HIDE DEF c
    <2>1. \A k \in PlainOffsets : k \in Nat /\ k < MBLOCK_SIZE  BY PlainOffsetsAre
    <2>2. ~ (MBLOCK_SIZE < MBLOCK_SIZE)  BY PlainOffsetsAre, SMT
    <2> QED BY <1>1, <1>6, <2>1, <2>2, Zenon
  <1> HIDE DEF p, e, c, decrypted
  <1>8. e = [k \in PlainOffsets |-> e[k]]  BY <1>1, <1>3, Zenon
  <1>9. [k \in decrypted |-> c[k]] = e  BY <1>2, <1>7, <1>8, Zenon
  <1>10. FakeDecrypt(Rotation[b], [k \in decrypted |-> c[k]], Key) = p  BY <1>5, <1>9
  <1> QED BY <1>10 DEF p, c, decrypted

(* A single frame, the padding decrypted as well. *)
LEMMA FrameDecrypts ==
  ASSUME NEW b \in Builds, NEW f \in StoredFrames, NEW s \in Slots
  PROVE  FakeDecrypt(Rotation[b], Encrypted(b, f, Key).contents, Key)[FrameOffset(s)] = f[s]
  <1> DEFINE p == Plaintext(f)
             c == Encrypted(b, f, Key).contents
             e == FakeEncrypt(Rotation[b], p, Key)
             k == FrameOffset(s)
             x == Key[k % KEY_SIZE]
  <1>1. k \in PlainOffsets  BY Zenon DEF PlainOffsets, FrameOffsets
  <1>2. k \in Nat  BY OffsetsAre
  <1>3. p[k] = f[s] /\ p \in [PlainOffsets -> Byte]  BY PlaintextIs
  <1>4. c[k] = e[k] /\ k \in DOMAIN c  BY <1>1, EncryptedIs
  <1>5. x \in Byte  BY <1>2, KeyType, KeyByte
  <1> HIDE DEF p, c, k
  <1>6. e[k] = EncryptByte(Rotation[b], p[k], x)  BY <1>1, <1>3, Zenon DEF FakeEncrypt
  <1>7. FakeDecrypt(Rotation[b], c, Key)[k] = DecryptByte(Rotation[b], c[k], x)
    BY <1>4, Zenon DEF FakeDecrypt
  <1> HIDE DEF e, x
  <1>8. p[k] \in Byte  BY <1>1, <1>3
  <1>9. DecryptByte(Rotation[b], c[k], x) = p[k]
    BY <1>4, <1>5, <1>6, <1>8, RotationType, DecryptByteInverts
  <1> QED BY <1>3, <1>7, <1>9 DEF c, k

-----------------------------------------------------------------------------
(* The inductive invariant. *)

(* main of build b has returned. *)
Ended(b) == pc # "patched_main" /\ (b = "vuln" => pc # "vuln_main")

FramesSoFar(b) == RankIn(symbolic_ready, g_iteration_number[b])

Blocks(b) ==
    IF Ended(b) THEN Written(FramesSoFar(b)) ELSE FramesSoFar(b) \div BUFFER_SIZE

Shape ==
    /\ symbolic_ready \in [Iterations -> {0, 1}]
    /\ symboic_can_frame \in [Iterations -> FrameBytes]
    /\ g_iteration_number \in [Builds -> 0 .. NR_ITERATIONS]
    /\ drawn \in [Builds -> Nat]
    /\ frames \in [Builds -> StoredFrames]
    /\ current_frame_count \in [Builds -> 0 .. BUFFER_SIZE - 1]
    /\ output \in [Builds -> Seq(LogRecords)]
    /\ output_idx \in [Builds -> Nat]
    /\ pc \in {"patched_main", "vuln_main", "key", "iv", "block", "next_iv", "done"}

(* Where build b has got to follows from the input it has been through:    *)
(* what waits in the MBlock, the log, and how much randomness it has used. *)
NotOpened(b) ==
    /\ output[b] = <<>>
    /\ output_idx[b] = 0
    /\ drawn[b] = 0
    /\ g_iteration_number[b] = 0
    /\ ~ Ended(b)

Logged(b) ==
    /\ IsLog(b, symbolic_ready, symboic_can_frame, output[b], Blocks(b))
    /\ output_idx[b] = HEADER_SIZE + Blocks(b) * BLOCK_SIZE
    /\ drawn[b] = KEY_SIZE + (Blocks(b) + 1) * IV_SIZE

BuildInv(b) ==
    /\ Ended(b) => g_iteration_number[b] = NR_ITERATIONS
    /\ current_frame_count[b] = FramesSoFar(b) % BUFFER_SIZE
    /\ frames[b] = Pending(symbolic_ready, symboic_can_frame, FramesSoFar(b))
    /\ NotOpened(b) \/ Logged(b)

(* The comparison goes through the two logs in step.                       *)
LastBlock == Written(RankIn(symbolic_ready, NR_ITERATIONS))

CompareInv ==
    /\ at["vuln"] = at["patched"]
    /\ pc \in {"patched_main", "vuln_main", "key"} => at["patched"] = 1
    /\ pc = "iv" => at["patched"] = 2
    /\ pc = "block" => \E n \in 0 .. LastBlock : at["patched"] = 3 + 2 * n
    /\ pc = "next_iv" => \E n \in 1 .. LastBlock : at["patched"] = 2 + 2 * n
    /\ pc = "done" => at["patched"] = 4 + 2 * LastBlock

IInv ==
    /\ Shape
    /\ \A b \in Builds : BuildInv(b)
    /\ CompareInv

(* The log of m blocks, and the int behind it, are within the array. *)
LEMMA LogFits ==
  ASSUME NEW m \in Nat, m <= MAX_BLOCKS
  PROVE  /\ HEADER_SIZE + m * BLOCK_SIZE \in Nat
         /\ HEADER_SIZE + m * BLOCK_SIZE < OUTPUT_SIZE
         /\ HEADER_SIZE + m * BLOCK_SIZE + INT_SIZE <= OUTPUT_SIZE
         /\ HEADER_SIZE + m * BLOCK_SIZE + BLOCK_SIZE = HEADER_SIZE + (m + 1) * BLOCK_SIZE
  <1>1. KEY_SIZE \in Nat /\ IV_SIZE \in Nat /\ MBLOCK_SIZE \in Nat /\ OUTPUT_SIZE \in Nat
    BY CipherAssumption, SymCmpAssumption DEF PADDING
  <1>2. BLOCK_SIZE \in Nat /\ HEADER_SIZE \in Nat /\ INT_SIZE = 4
    BY <1>1, SMT DEF BLOCK_SIZE, HEADER_SIZE, RECORD_SIZE, INT_SIZE, PADDING
  <1>3. HEADER_SIZE + MAX_BLOCKS * BLOCK_SIZE + INT_SIZE <= OUTPUT_SIZE
    BY SymCmpAssumption
  <1>4. m * BLOCK_SIZE <= MAX_BLOCKS * BLOCK_SIZE  BY <1>2, MaxBlocks, ProductGrows
  <1>5. m * BLOCK_SIZE \in Nat /\ (m + 1) * BLOCK_SIZE = m * BLOCK_SIZE + BLOCK_SIZE
    BY <1>2, ProductStep
  <1>6. MAX_BLOCKS * BLOCK_SIZE \in Nat  BY <1>2, MaxBlocks, ProductStep
  <1> QED BY <1>1, <1>2, <1>3, <1>4, <1>5, <1>6, SMT

LEMMA SizesAre ==
  /\ KEY_SIZE \in Nat /\ KEY_SIZE # 0
  /\ IV_SIZE \in Nat
  /\ RECORD_SIZE \in Nat /\ RECORD_SIZE # 0
  <1>1. MBLOCK_SIZE \in Nat /\ IV_SIZE \in Nat  BY SymCmpAssumption DEF PADDING
  <1>2. RECORD_SIZE \in Nat /\ RECORD_SIZE # 0  BY <1>1, SMT DEF RECORD_SIZE, PADDING
  <1> QED BY <1>1, <1>2, CipherAssumption

(* How far a build can have got. *)
LEMMA SoFar ==
  ASSUME Shape, NEW b \in Builds
  PROVE  /\ g_iteration_number[b] \in Nat
         /\ g_iteration_number[b] <= NR_ITERATIONS
         /\ FramesSoFar(b) \in Nat
         /\ FramesSoFar(b) <= NR_ITERATIONS
         /\ Blocks(b) \in Nat
         /\ Blocks(b) <= MAX_BLOCKS
  <1> DEFINE g == g_iteration_number[b]
  <1>1. NR_ITERATIONS \in Nat  BY SymCmpAssumption
  <1>2. g \in Nat /\ g <= NR_ITERATIONS  BY <1>1 DEF Shape
  <1> HIDE DEF g
  <1>3. RankIn(symbolic_ready, g) \in Nat /\ RankIn(symbolic_ready, g) <= g
    BY <1>2, RankType
  <1>4. FramesSoFar(b) \in Nat /\ FramesSoFar(b) <= NR_ITERATIONS
    BY <1>1, <1>2, <1>3, SMT DEF FramesSoFar, g
  <1> DEFINE r == FramesSoFar(b)
  <1>5. Written(r) \in Nat /\ Written(r) <= MAX_BLOCKS /\ r \div BUFFER_SIZE <= Written(r)
    BY <1>4, WrittenFits
  <1>6. r \div BUFFER_SIZE \in Nat  BY <1>4, BlockAndSlot
  <1> HIDE DEF r
  <1>7. r \div BUFFER_SIZE <= MAX_BLOCKS  BY <1>5, <1>6, MaxBlocks, SMT
  <1>8. Blocks(b) = Written(r) \/ Blocks(b) = r \div BUFFER_SIZE  BY DEF Blocks, r
  <1> QED BY <1>2, <1>4, <1>5, <1>6, <1>7, <1>8 DEF g

LEMMA InitIInv == Init => IInv
  <1> SUFFICES ASSUME Init PROVE IInv
    OBVIOUS
  <1>1. NR_ITERATIONS \in Nat /\ 0 \in 0 .. NR_ITERATIONS  BY SymCmpAssumption, SMT
  <1>2. 0 \in 0 .. BUFFER_SIZE - 1  BY BufferSize, SMT
  <1>3. NoFrames \in StoredFrames
    <2>1. NO_BYTE \in StoredBytes  BY DEF StoredBytes
    <2> QED BY <2>1, Zenon DEF NoFrames, StoredFrames
  <1>4. <<>> \in Seq(LogRecords)  OBVIOUS
  <1>5. pc = "patched_main"  BY DEF Init
  <1>6. Shape
    <2>1. g_iteration_number \in [Builds -> 0 .. NR_ITERATIONS]  BY <1>1, Zenon DEF Init
    <2>2. drawn \in [Builds -> Nat] /\ output_idx \in [Builds -> Nat]  BY DEF Init
    <2>3. frames \in [Builds -> StoredFrames]  BY <1>3, Zenon DEF Init
    <2>4. current_frame_count \in [Builds -> 0 .. BUFFER_SIZE - 1]  BY <1>2, Zenon DEF Init
    <2>5. output \in [Builds -> Seq(LogRecords)]  BY <1>4, Zenon DEF Init
    <2> QED BY <1>5, <2>1, <2>2, <2>3, <2>4, <2>5 DEF Init, Shape
  <1>7. ASSUME NEW b \in Builds PROVE BuildInv(b)
    <2>1. ~ Ended(b)  BY <1>5 DEF Ended
    <2>2. output[b] = <<>> /\ output_idx[b] = 0 /\ drawn[b] = 0 /\ g_iteration_number[b] = 0
          /\ current_frame_count[b] = 0 /\ frames[b] = NoFrames
      BY DEF Init
    <2>3. FramesSoFar(b) = 0  BY <2>2, RankZero DEF FramesSoFar
    <2>4. 0 % BUFFER_SIZE = 0  BY BufferSize, SMT
    <2>5. Pending(symbolic_ready, symboic_can_frame, 0) = NoFrames
      BY <2>4, NothingPending
    <2> QED BY <2>1, <2>2, <2>3, <2>4, <2>5 DEF BuildInv, NotOpened
  <1>8. CompareInv
    <2>1. at["patched"] = 1 /\ at["vuln"] = 1  BY DEF Init, Builds
    <2> QED BY <1>5, <2>1 DEF CompareInv
  <1> QED BY <1>6, <1>7, <1>8 DEF IInv

(* A step of one build leaves the other one as it is. *)
LEMMA OtherBuild ==
  ASSUME IInv, NEW e \in Builds, UNCHANGED inputs,
         g_iteration_number'[e] = g_iteration_number[e],
         drawn'[e] = drawn[e],
         frames'[e] = frames[e],
         current_frame_count'[e] = current_frame_count[e],
         output'[e] = output[e],
         output_idx'[e] = output_idx[e],
         Ended(e)' <=> Ended(e)
  PROVE  BuildInv(e)'
  <1>1. BuildInv(e)  BY DEF IInv
  <1>2. symbolic_ready' = symbolic_ready /\ symboic_can_frame' = symboic_can_frame
    BY DEF inputs
  <1>3. FramesSoFar(e)' = FramesSoFar(e)  BY <1>2 DEF FramesSoFar
  <1>4. Blocks(e)' = Blocks(e)  BY <1>3 DEF Blocks
  <1>5. NotOpened(e) => NotOpened(e)'  BY DEF NotOpened
  <1>6. Logged(e) => Logged(e)'  BY <1>2, <1>4 DEF Logged
  <1> QED BY <1>1, <1>2, <1>3, <1>5, <1>6 DEF BuildInv

(* While a build runs, and when it returns, nothing has been compared yet. *)
LEMMA NotComparing ==
  ASSUME IInv, pc \in {"patched_main", "vuln_main"}, UNCHANGED at,
         pc' \in {"patched_main", "vuln_main", "key"}
  PROVE  CompareInv'
  BY DEF IInv, CompareInv

LEMMA At ==
  ASSUME NEW S, NEW f \in [Builds -> S], NEW b \in Builds, NEW v \in S
  PROVE  /\ [f EXCEPT ![b] = v] \in [Builds -> S]
         /\ [f EXCEPT ![b] = v][b] = v
         /\ \A e \in Builds : e # b => [f EXCEPT ![b] = v][e] = f[e]
         /\ f = [f EXCEPT ![b] = f[b]]
  OBVIOUS

(* Whatever a build does, this is what there is to show of where it gets. *)
LEMMA MainStep ==
  ASSUME IInv, NEW b \in Builds, Running(b), UNCHANGED inputs, UNCHANGED at,
         NEW g \in 0 .. NR_ITERATIONS, NEW d \in Nat, NEW f \in StoredFrames,
         NEW n \in 0 .. BUFFER_SIZE - 1, NEW log \in Seq(LogRecords), NEW idx \in Nat,
         g_iteration_number' = [g_iteration_number EXCEPT ![b] = g],
         drawn' = [drawn EXCEPT ![b] = d],
         frames' = [frames EXCEPT ![b] = f],
         current_frame_count' = [current_frame_count EXCEPT ![b] = n],
         output' = [output EXCEPT ![b] = log],
         output_idx' = [output_idx EXCEPT ![b] = idx],
         NEW m \in Nat,
         \/ pc' = pc /\ m = RankIn(symbolic_ready, g) \div BUFFER_SIZE
         \/ /\ pc' = Returned(b)
            /\ g = NR_ITERATIONS
            /\ m = Written(RankIn(symbolic_ready, g)),
         n = RankIn(symbolic_ready, g) % BUFFER_SIZE,
         f = Pending(symbolic_ready, symboic_can_frame, RankIn(symbolic_ready, g)),
         IsLog(b, symbolic_ready, symboic_can_frame, log, m),
         idx = HEADER_SIZE + m * BLOCK_SIZE,
         d = KEY_SIZE + (m + 1) * IV_SIZE
  PROVE  IInv'
  <1>1. symbolic_ready' = symbolic_ready /\ symboic_can_frame' = symboic_can_frame
    BY DEF inputs
  <1>2. Shape  BY DEF IInv
  <1>3. /\ g_iteration_number' \in [Builds -> 0 .. NR_ITERATIONS]
        /\ g_iteration_number'[b] = g
        /\ \A e \in Builds : e # b => g_iteration_number'[e] = g_iteration_number[e]
    BY <1>2, At DEF Shape
  <1>4. /\ drawn' \in [Builds -> Nat]
        /\ drawn'[b] = d
        /\ \A e \in Builds : e # b => drawn'[e] = drawn[e]
    BY <1>2, At DEF Shape
  <1>5. /\ frames' \in [Builds -> StoredFrames]
        /\ frames'[b] = f
        /\ \A e \in Builds : e # b => frames'[e] = frames[e]
    BY <1>2, At DEF Shape
  <1>6. /\ current_frame_count' \in [Builds -> 0 .. BUFFER_SIZE - 1]
        /\ current_frame_count'[b] = n
        /\ \A e \in Builds : e # b => current_frame_count'[e] = current_frame_count[e]
    BY <1>2, At DEF Shape
  <1>7. /\ output' \in [Builds -> Seq(LogRecords)]
        /\ output'[b] = log
        /\ \A e \in Builds : e # b => output'[e] = output[e]
    BY <1>2, At DEF Shape
  <1>8. /\ output_idx' \in [Builds -> Nat]
        /\ output_idx'[b] = idx
        /\ \A e \in Builds : e # b => output_idx'[e] = output_idx[e]
    BY <1>2, At DEF Shape
  <1>9. /\ pc \in {"patched_main", "vuln_main"}
        /\ pc' \in {"patched_main", "vuln_main", "key"}
        /\ ~ Ended(b)
        /\ pc' = pc => ~ Ended(b)'
        /\ pc' = Returned(b) => Ended(b)'
        /\ \A e \in Builds : e # b => (Ended(e)' <=> Ended(e))
        /\ Returned(b) # pc
    BY DEF Running, Returned, Ended, Builds
  <1>10. Shape'
    BY <1>1, <1>2, <1>3, <1>4, <1>5, <1>6, <1>7, <1>8, <1>9 DEF Shape
  <1>11. ASSUME NEW e \in Builds PROVE BuildInv(e)'
    <2>1. CASE e = b
      <3>1. FramesSoFar(b)' = RankIn(symbolic_ready, g)  BY <1>1, <1>3 DEF FramesSoFar
      <3>2. Blocks(b)' = m  BY <1>9, <3>1 DEF Blocks
      <3>3. Ended(b)' => g_iteration_number'[b] = NR_ITERATIONS  BY <1>3, <1>9
      <3>4. Logged(b)'  BY <1>1, <1>4, <1>7, <1>8, <3>2 DEF Logged
      <3>5. current_frame_count'[b] = FramesSoFar(b)' % BUFFER_SIZE  BY <1>6, <3>1
      <3>6. frames'[b] = Pending(symbolic_ready', symboic_can_frame', FramesSoFar(b)')
        BY <1>1, <1>5, <3>1
      <3> QED BY <2>1, <3>3, <3>4, <3>5, <3>6 DEF BuildInv
    <2>2. CASE e # b
      BY <1>3, <1>4, <1>5, <1>6, <1>7, <1>8, <1>9, <2>2, OtherBuild
    <2> QED BY <2>1, <2>2
  <1>12. CompareInv'  BY <1>9, NotComparing
  <1> QED BY <1>10, <1>11, <1>12 DEF IInv

(* A build that is running and has opened its log. *)
LEMMA RunningLogged ==
  ASSUME IInv, NEW b \in Builds, Running(b), output[b] # <<>>
  PROVE  LET r == FramesSoFar(b)
             m == r \div BUFFER_SIZE
         IN  /\ IsLog(b, symbolic_ready, symboic_can_frame, output[b], m)
             /\ output_idx[b] = HEADER_SIZE + m * BLOCK_SIZE
             /\ drawn[b] = KEY_SIZE + (m + 1) * IV_SIZE
             /\ m \in Nat
             /\ m <= MAX_BLOCKS
             /\ r \in Nat
             /\ r <= NR_ITERATIONS
  <1>1. Shape /\ BuildInv(b)  BY DEF IInv
  <1>2. ~ Ended(b)  BY DEF Running, Ended, Builds
  <1>3. Blocks(b) = FramesSoFar(b) \div BUFFER_SIZE  BY <1>2 DEF Blocks
  <1>4. Logged(b)  BY <1>1 DEF BuildInv, NotOpened
  <1> QED BY <1>1, <1>3, <1>4, SoFar DEF Logged

LEMMA StateOf ==
  ASSUME IInv, NEW b \in Builds
  PROVE  /\ g_iteration_number[b] \in 0 .. NR_ITERATIONS
         /\ drawn[b] \in Nat
         /\ frames[b] \in StoredFrames
         /\ current_frame_count[b] \in 0 .. BUFFER_SIZE - 1
         /\ output[b] \in Seq(LogRecords)
         /\ output_idx[b] \in Nat
         /\ current_frame_count[b] = FramesSoFar(b) % BUFFER_SIZE
         /\ frames[b] = Pending(symbolic_ready, symboic_can_frame, FramesSoFar(b))
         /\ symbolic_ready \in [Iterations -> {0, 1}]
         /\ symboic_can_frame \in [Iterations -> FrameBytes]
         /\ Ended(b) => g_iteration_number[b] = NR_ITERATIONS
  BY DEF IInv, Shape, BuildInv

(* The variables a step leaves alone, in the form MainStep asks for. *)
LEMMA Alone ==
  ASSUME IInv, NEW b \in Builds
  PROVE  /\ g_iteration_number = [g_iteration_number EXCEPT ![b] = g_iteration_number[b]]
         /\ drawn = [drawn EXCEPT ![b] = drawn[b]]
         /\ frames = [frames EXCEPT ![b] = frames[b]]
         /\ current_frame_count = [current_frame_count EXCEPT ![b] = current_frame_count[b]]
         /\ output = [output EXCEPT ![b] = output[b]]
         /\ output_idx = [output_idx EXCEPT ![b] = output_idx[b]]
  <1>1. Shape  BY DEF IInv
  <1>2. g_iteration_number = [g_iteration_number EXCEPT ![b] = g_iteration_number[b]]
    BY <1>1, Zenon DEF Shape
  <1>3. drawn = [drawn EXCEPT ![b] = drawn[b]]  BY <1>1, Zenon DEF Shape
  <1>4. frames = [frames EXCEPT ![b] = frames[b]]  BY <1>1, Zenon DEF Shape
  <1>5. current_frame_count = [current_frame_count EXCEPT ![b] = current_frame_count[b]]
    BY <1>1, Zenon DEF Shape
  <1>6. output = [output EXCEPT ![b] = output[b]]  BY <1>1, Zenon DEF Shape
  <1>7. output_idx = [output_idx EXCEPT ![b] = output_idx[b]]  BY <1>1, Zenon DEF Shape
  <1> QED BY <1>2, <1>3, <1>4, <1>5, <1>6, <1>7

(* fwrite does not run into the end of the array. *)
LEMMA FwriteIs ==
  ASSUME IInv, NEW b \in Builds, NEW records, NEW bytes, NEW next,
         Fwrite(b, records, bytes, next),
         NEW m \in Nat, m <= MAX_BLOCKS,
         output_idx[b] + bytes = HEADER_SIZE + m * BLOCK_SIZE
  PROVE  /\ output' = [output EXCEPT ![b] = output[b] \o records]
         /\ output_idx' = [output_idx EXCEPT ![b] = HEADER_SIZE + m * BLOCK_SIZE]
         /\ HEADER_SIZE + m * BLOCK_SIZE \in Nat
         /\ pc' = next
  <1> DEFINE v == HEADER_SIZE + m * BLOCK_SIZE
  <1>1. v \in Nat /\ v < OUTPUT_SIZE  BY LogFits
  <1>2. output' = [output EXCEPT ![b] = output[b] \o records]  BY DEF Fwrite
  <1>3. output_idx' = [output_idx EXCEPT ![b] = v]  BY DEF Fwrite
  <1> HIDE DEF v
  <1>4. output_idx \in [Builds -> Nat]  BY DEF IInv, Shape
  <1>5. output_idx'[b] = v  BY <1>1, <1>3, <1>4, At
  <1>6. pc' = next  BY <1>1, <1>5 DEF Fwrite
  <1> QED BY <1>1, <1>2, <1>3, <1>6 DEF v

LEMMA SetUpKeepsIInv ==
  ASSUME IInv, NEW b \in Builds, SetUp(b)
  PROVE  IInv'
  <1> DEFINE log == <<>> \o <<KeyRecord(0), IVRecord(KEY_SIZE)>>
             v == HEADER_SIZE + 0 * BLOCK_SIZE
             d == KEY_SIZE + (0 + 1) * IV_SIZE
             g == g_iteration_number[b]
  <1>1. Running(b) /\ output[b] = <<>> /\ UNCHANGED inputs /\ UNCHANGED at
    BY DEF SetUp
  <1>2. /\ g_iteration_number' = g_iteration_number
        /\ frames' = frames
        /\ current_frame_count' = current_frame_count
        /\ drawn' = [drawn EXCEPT ![b] = KEY_SIZE + IV_SIZE]
        /\ Fwrite(b, <<KeyRecord(0), IVRecord(KEY_SIZE)>>, HEADER_SIZE, pc)
    BY DEF SetUp
  <1>3. output_idx[b] = 0 /\ g = 0
    <2>1. BuildInv(b)  BY DEF IInv
    <2>2. ~ Ended(b)  BY <1>1 DEF Running, Ended, Builds
    <2>3. CASE NotOpened(b)  BY <2>3 DEF NotOpened
    <2>4. CASE Logged(b)
      <3>1. Len(output[b]) = 2 + 2 * Blocks(b)  BY <2>4 DEF Logged, IsLog
      <3>2. Blocks(b) \in Nat  BY SoFar DEF IInv
      <3>3. Len(output[b]) = 0  BY <1>1
      <3> QED BY <3>1, <3>2, <3>3, SMT
    <2> QED BY <2>1, <2>3, <2>4 DEF BuildInv
  <1>4. d = KEY_SIZE + IV_SIZE /\ d \in Nat  BY SizesAre, SMT
  <1>5. output_idx[b] + HEADER_SIZE = v
    <2>1. HEADER_SIZE \in Nat /\ BLOCK_SIZE \in Nat
      BY SizesAre, SMT DEF HEADER_SIZE, BLOCK_SIZE, INT_SIZE
    <2> QED BY <1>3, <2>1, SMT
  <1>6. 0 \in Nat /\ 0 <= MAX_BLOCKS  BY MaxBlocks, SMT
  <1>7. /\ output' = [output EXCEPT ![b] = log]
        /\ output_idx' = [output_idx EXCEPT ![b] = v]
        /\ v \in Nat
        /\ pc' = pc
    BY <1>1, <1>2, <1>5, <1>6, FwriteIs
  <1>8. IsLog(b, symbolic_ready, symboic_can_frame, log, 0)  BY LogStarts
  <1>9. log \in Seq(LogRecords)  BY <1>8 DEF IsLog
  <1>10. RankIn(symbolic_ready, g) = 0 /\ 0 \div BUFFER_SIZE = 0
    BY <1>3, RankZero, BufferSize, SMT
  <1>11. FramesSoFar(b) = RankIn(symbolic_ready, g)  BY DEF FramesSoFar
  <1> HIDE DEF log, v, d
  <1>12. drawn' = [drawn EXCEPT ![b] = d]  BY <1>2, <1>4
  <1>13. v = HEADER_SIZE + 0 * BLOCK_SIZE /\ d = KEY_SIZE + (0 + 1) * IV_SIZE
    BY DEF v, d
  <1>14. /\ g \in 0 .. NR_ITERATIONS
         /\ frames[b] \in StoredFrames
         /\ current_frame_count[b] \in 0 .. BUFFER_SIZE - 1
         /\ current_frame_count[b] = RankIn(symbolic_ready, g) % BUFFER_SIZE
         /\ frames[b] = Pending(symbolic_ready, symboic_can_frame, RankIn(symbolic_ready, g))
    BY <1>11, StateOf
  <1> HIDE DEF g
  <1>15. /\ g_iteration_number' = [g_iteration_number EXCEPT ![b] = g]
         /\ frames' = [frames EXCEPT ![b] = frames[b]]
         /\ current_frame_count' = [current_frame_count EXCEPT ![b] = current_frame_count[b]]
    BY <1>2, Alone DEF g
  <1>16. pc' = pc /\ 0 = RankIn(symbolic_ready, g) \div BUFFER_SIZE  BY <1>7, <1>10
  <1> QED BY <1>1, <1>4, <1>6, <1>7, <1>8, <1>9, <1>12, <1>13, <1>14, <1>15, <1>16, MainStep

(* A step that writes nothing. *)
LEMMA QuietStep ==
  ASSUME IInv, NEW b \in Builds, Running(b), output[b] # <<>>,
         UNCHANGED inputs, UNCHANGED at,
         drawn' = drawn, output' = output, output_idx' = output_idx,
         NEW g \in 0 .. NR_ITERATIONS, NEW f \in StoredFrames,
         NEW n \in 0 .. BUFFER_SIZE - 1,
         g_iteration_number' = [g_iteration_number EXCEPT ![b] = g],
         frames' = [frames EXCEPT ![b] = f],
         current_frame_count' = [current_frame_count EXCEPT ![b] = n],
         NEW m, m = FramesSoFar(b) \div BUFFER_SIZE,
         \/ pc' = pc /\ m = RankIn(symbolic_ready, g) \div BUFFER_SIZE
         \/ /\ pc' = Returned(b)
            /\ g = NR_ITERATIONS
            /\ m = Written(RankIn(symbolic_ready, g)),
         n = RankIn(symbolic_ready, g) % BUFFER_SIZE,
         f = Pending(symbolic_ready, symboic_can_frame, RankIn(symbolic_ready, g))
  PROVE  IInv'
  <1> DEFINE d == drawn[b]
             log == output[b]
             idx == output_idx[b]
  <1>1. d \in Nat /\ log \in Seq(LogRecords) /\ idx \in Nat  BY StateOf
  <1>2. /\ IsLog(b, symbolic_ready, symboic_can_frame, log, m)
        /\ idx = HEADER_SIZE + m * BLOCK_SIZE
        /\ d = KEY_SIZE + (m + 1) * IV_SIZE
        /\ m \in Nat
    BY RunningLogged
  <1>3. /\ drawn' = [drawn EXCEPT ![b] = d]
        /\ output' = [output EXCEPT ![b] = log]
        /\ output_idx' = [output_idx EXCEPT ![b] = idx]
    BY Alone
  <1> HIDE DEF d, log, idx
  <1> QED BY <1>1, <1>2, <1>3, MainStep

LEMMA IdleKeepsIInv ==
  ASSUME IInv, NEW b \in Builds, Idle(b)
  PROVE  IInv'
  <1> DEFINE g == g_iteration_number[b]
             r == FramesSoFar(b)
             m == r \div BUFFER_SIZE
  <1>1. /\ Running(b) /\ output[b] # <<>> /\ UNCHANGED inputs /\ UNCHANGED at
        /\ g < NR_ITERATIONS
        /\ symbolic_ready[g + 1] = 0
        /\ g_iteration_number' = [g_iteration_number EXCEPT ![b] = g + 1]
        /\ drawn' = drawn /\ frames' = frames /\ current_frame_count' = current_frame_count
        /\ output' = output /\ output_idx' = output_idx /\ pc' = pc
    BY DEF Idle
  <1>2. g \in Nat /\ g + 1 \in 0 .. NR_ITERATIONS
    BY <1>1, StateOf, SymCmpAssumption, SMT
  <1>3. RankIn(symbolic_ready, g + 1) = r
    BY <1>1, <1>2, RankStep, SMT DEF FramesSoFar
  <1> HIDE DEF g, m, r
  <1>4. m = RankIn(symbolic_ready, g + 1) \div BUFFER_SIZE /\ m = FramesSoFar(b) \div BUFFER_SIZE
    BY <1>3 DEF m, r
  <1>5. /\ frames' = [frames EXCEPT ![b] = frames[b]]
        /\ current_frame_count' = [current_frame_count EXCEPT ![b] = current_frame_count[b]]
    BY <1>1, Alone
  <1>6. /\ current_frame_count[b] = RankIn(symbolic_ready, g + 1) % BUFFER_SIZE
        /\ frames[b] = Pending(symbolic_ready, symboic_can_frame, RankIn(symbolic_ready, g + 1))
    BY <1>3, StateOf DEF r
  <1>7. frames[b] \in StoredFrames /\ current_frame_count[b] \in 0 .. BUFFER_SIZE - 1
    BY StateOf
  <1> DEFINE f == frames[b]
             n == current_frame_count[b]
  <1> HIDE DEF f, n
  <1> QED BY <1>1, <1>2, <1>4, <1>5, <1>6, <1>7, QuietStep DEF f, n

(* What write_encrypted leaves of a log of m blocks. *)
LEMMA WriteEncryptedIs ==
  ASSUME IInv, NEW b \in Builds, NEW next, NEW m \in Nat, m + 1 <= MAX_BLOCKS,
         NEW f, f = BlockFrames(symbolic_ready, symboic_can_frame, m + 1),
         IsLog(b, symbolic_ready, symboic_can_frame, output[b], m),
         output_idx[b] = HEADER_SIZE + m * BLOCK_SIZE,
         drawn[b] = KEY_SIZE + (m + 1) * IV_SIZE,
         WriteEncrypted(b, f, next)
  PROVE  \E log \in Seq(LogRecords), idx \in Nat, d \in Nat :
            /\ IsLog(b, symbolic_ready, symboic_can_frame, log, m + 1)
            /\ idx = HEADER_SIZE + (m + 1) * BLOCK_SIZE
            /\ d = KEY_SIZE + ((m + 1) + 1) * IV_SIZE
            /\ output' = [output EXCEPT ![b] = log]
            /\ output_idx' = [output_idx EXCEPT ![b] = idx]
            /\ drawn' = [drawn EXCEPT ![b] = d]
            /\ pc' = next
  <1> DEFINE two == <<Encrypted(b, f, Key), IVRecord(KEY_SIZE + (m + 1) * IV_SIZE)>>
             log == output[b] \o two
             idx == HEADER_SIZE + (m + 1) * BLOCK_SIZE
             d == KEY_SIZE + ((m + 1) + 1) * IV_SIZE
  <1>1. Fwrite(b, two, BLOCK_SIZE, next) /\ drawn' = [drawn EXCEPT ![b] = drawn[b] + IV_SIZE]
    BY DEF WriteEncrypted, Key
  <1>2. m + 1 \in Nat /\ m <= MAX_BLOCKS  BY MaxBlocks, SMT
  <1>3. output_idx[b] + BLOCK_SIZE = idx  BY <1>2, LogFits
  <1> HIDE DEF two
  <1>4. /\ output' = [output EXCEPT ![b] = log]
        /\ output_idx' = [output_idx EXCEPT ![b] = idx]
        /\ idx \in Nat
        /\ pc' = next
    BY <1>1, <1>2, <1>3, FwriteIs
  <1>5. drawn[b] + IV_SIZE = d /\ d \in Nat
    <2>1. ((m + 1) + 1) * IV_SIZE = (m + 1) * IV_SIZE + IV_SIZE
          /\ (m + 1) * IV_SIZE \in Nat /\ ((m + 1) + 1) * IV_SIZE \in Nat
      BY <1>2, SizesAre, ProductStep
    <2> QED BY <2>1, SizesAre, SMT
  <1>6. IsLog(b, symbolic_ready, symboic_can_frame, log, m + 1)
    BY StateOf, LogGrows DEF two
  <1>7. log \in Seq(LogRecords)  BY <1>6 DEF IsLog
  <1> HIDE DEF log, idx, d
  <1>8. drawn' = [drawn EXCEPT ![b] = d]  BY <1>1, <1>5
  <1>9. idx = HEADER_SIZE + (m + 1) * BLOCK_SIZE /\ d = KEY_SIZE + ((m + 1) + 1) * IV_SIZE
    BY DEF idx, d
  <1> QED BY <1>4, <1>5, <1>6, <1>7, <1>8, <1>9

LEMMA IterateKeepsIInv ==
  ASSUME IInv, NEW b \in Builds, Iterate(b)
  PROVE  IInv'
  <1> DEFINE g == g_iteration_number[b]
             r == FramesSoFar(b)
             m == r \div BUFFER_SIZE
             c == current_frame_count[b]
             f == [frames[b] EXCEPT ![c + 1] = Delivered(b)]
             ready == symbolic_ready
             can == symboic_can_frame
  <1>1. /\ Running(b) /\ output[b] # <<>> /\ UNCHANGED inputs /\ UNCHANGED at
        /\ g < NR_ITERATIONS
        /\ ready[g + 1] > 0
        /\ g_iteration_number' = [g_iteration_number EXCEPT ![b] = g + 1]
    BY DEF Iterate
  <1>2. \/ /\ BlockFull(c + 1)
           /\ WriteEncrypted(b, f, pc)
           /\ frames' = [frames EXCEPT ![b] = NoFrames]
           /\ current_frame_count' = [current_frame_count EXCEPT ![b] = 0]
        \/ /\ ~ BlockFull(c + 1)
           /\ frames' = [frames EXCEPT ![b] = f]
           /\ current_frame_count' = [current_frame_count EXCEPT ![b] = c + 1]
           /\ drawn' = drawn /\ output' = output /\ output_idx' = output_idx /\ pc' = pc
    BY Zenon DEF Iterate
  <1>3. /\ c = r % BUFFER_SIZE
        /\ c \in 0 .. BUFFER_SIZE - 1
        /\ frames[b] = Pending(ready, can, r)
        /\ can \in [Iterations -> FrameBytes]
    BY StateOf
  <1>4. /\ IsLog(b, ready, can, output[b], m)
        /\ output_idx[b] = HEADER_SIZE + m * BLOCK_SIZE
        /\ drawn[b] = KEY_SIZE + (m + 1) * IV_SIZE
        /\ m \in Nat
        /\ r \in Nat
    BY <1>1, RunningLogged
  <1>5. g \in Nat /\ g + 1 \in 0 .. NR_ITERATIONS /\ g + 1 \in Iterations
    BY <1>1, StateOf, SymCmpAssumption, SMT DEF Iterations
  <1>6. RankIn(ready, g + 1) = r + 1
    BY <1>1, <1>5, RankStep DEF FramesSoFar
  <1>7. Delivered(b) = FrameOfRank(ready, can, r + 1)
    <2>1. FrameOfRank(ready, can, RankIn(ready, g + 1)) = can[g + 1]
      BY <1>1, <1>5, FrameOfRankIs
    <2> QED BY <1>6, <2>1 DEF Delivered
  <1>8. f = [Pending(ready, can, r) EXCEPT ![(r % BUFFER_SIZE) + 1] = FrameOfRank(ready, can, r + 1)]
    BY <1>3, <1>7
  <1>9. c \in Nat /\ BUFFER_SIZE \in Nat /\ (BlockFull(c + 1) <=> c + 1 >= BUFFER_SIZE)
    BY <1>3, BufferSize, SMT DEF BlockFull
  <1> HIDE DEF g, r, c, f, ready, can
  <1>10. CASE BlockFull(c + 1)
    <2>1. ~ (c + 1 < BUFFER_SIZE)  BY <1>9, <1>10, SMT
    <2>2. /\ (r + 1) \div BUFFER_SIZE = m + 1
          /\ (r + 1) % BUFFER_SIZE = 0
          /\ (r % BUFFER_SIZE) + 1 = BUFFER_SIZE
      BY <1>3, <1>4, <2>1, NextFrame
    <2>3. f = BlockFrames(ready, can, m + 1)
      BY <1>4, <1>8, <2>2, PendingFills
    <2>4. m + 1 <= MAX_BLOCKS
      <3>1. r + 1 \in Nat /\ r + 1 <= NR_ITERATIONS
        <4>1. RankIn(ready, g + 1) \in Nat /\ RankIn(ready, g + 1) <= g + 1
          <5>1. g + 1 \in Nat  BY <1>5, SMT
          <5> QED BY <5>1, RankType
        <4> QED BY <1>1, <1>5, <1>6, <4>1, SymCmpAssumption, SMT
      <3>2. m + 1 <= Written(r + 1) /\ Written(r + 1) <= MAX_BLOCKS /\ Written(r + 1) \in Nat
        BY <2>2, <3>1, WrittenFits
      <3> QED BY <1>4, <3>2, MaxBlocks, SMT
    <2>5. /\ WriteEncrypted(b, f, pc)
          /\ frames' = [frames EXCEPT ![b] = NoFrames]
          /\ current_frame_count' = [current_frame_count EXCEPT ![b] = 0]
      BY <1>2, <1>10
    <2> HIDE DEF m
    <2>6. PICK log \in Seq(LogRecords), idx \in Nat, d \in Nat :
            /\ IsLog(b, ready, can, log, m + 1)
            /\ idx = HEADER_SIZE + (m + 1) * BLOCK_SIZE
            /\ d = KEY_SIZE + ((m + 1) + 1) * IV_SIZE
            /\ output' = [output EXCEPT ![b] = log]
            /\ output_idx' = [output_idx EXCEPT ![b] = idx]
            /\ drawn' = [drawn EXCEPT ![b] = d]
            /\ pc' = pc
      BY <1>4, <2>3, <2>4, <2>5, WriteEncryptedIs DEF ready, can
    <2>7. NoFrames = Pending(ready, can, RankIn(ready, g + 1))
      <3>1. r + 1 \in Nat  BY <1>4, SMT
      <3> QED BY <1>6, <2>2, <3>1, NothingPending
    <2>8. NoFrames \in StoredFrames  BY <1>3, <2>7, PendingType
    <2>9. 0 \in 0 .. BUFFER_SIZE - 1 /\ m + 1 \in Nat  BY <1>4, BufferSize, SMT
    <2>10. m + 1 = RankIn(ready, g + 1) \div BUFFER_SIZE  BY <1>6, <2>2
    <2>11. 0 = RankIn(ready, g + 1) % BUFFER_SIZE  BY <1>6, <2>2
    <2> QED BY <1>1, <1>5, <2>5, <2>6, <2>7, <2>8, <2>9, <2>10, <2>11, MainStep DEF ready, can
  <1>11. CASE ~ BlockFull(c + 1)
    <2>1. c + 1 < BUFFER_SIZE  BY <1>9, <1>11, SMT
    <2>2. /\ (r + 1) \div BUFFER_SIZE = m
          /\ (r + 1) % BUFFER_SIZE = c + 1
      BY <1>3, <1>4, <2>1, NextFrame
    <2>3. f = Pending(ready, can, RankIn(ready, g + 1))
      <3>1. (r % BUFFER_SIZE) + 1 < BUFFER_SIZE  BY <1>3, <2>1
      <3>2. f = Pending(ready, can, r + 1)  BY <1>4, <1>8, <3>1, PendingGrows
      <3> QED BY <1>6, <3>2
    <2>4. f \in StoredFrames  BY <1>3, <2>3, PendingType
    <2>5. c + 1 \in 0 .. BUFFER_SIZE - 1  BY <1>9, <2>1, SMT
    <2>6. /\ frames' = [frames EXCEPT ![b] = f]
          /\ current_frame_count' = [current_frame_count EXCEPT ![b] = c + 1]
          /\ drawn' = drawn /\ output' = output /\ output_idx' = output_idx /\ pc' = pc
      BY <1>2, <1>11
    <2>7. m = FramesSoFar(b) \div BUFFER_SIZE  BY DEF r, m
    <2> HIDE DEF m
    <2>8. m = RankIn(ready, g + 1) \div BUFFER_SIZE  BY <1>6, <2>2
    <2>9. c + 1 = RankIn(ready, g + 1) % BUFFER_SIZE  BY <1>6, <2>2
    <2> QED BY <1>1, <1>5, <2>3, <2>4, <2>5, <2>6, <2>7, <2>8, <2>9, QuietStep DEF ready, can
  <1> QED BY <1>10, <1>11

LEMMA FinishKeepsIInv ==
  ASSUME IInv, NEW b \in Builds, Finish(b)
  PROVE  IInv'
  <1> DEFINE g == g_iteration_number[b]
             r == RankIn(symbolic_ready, NR_ITERATIONS)
             m == r \div BUFFER_SIZE
             c == current_frame_count[b]
             ready == symbolic_ready
             can == symboic_can_frame
  <1>1. /\ Running(b) /\ output[b] # <<>> /\ UNCHANGED inputs /\ UNCHANGED at
        /\ g = NR_ITERATIONS
        /\ g_iteration_number' = g_iteration_number
        /\ frames' = frames /\ current_frame_count' = current_frame_count
    BY DEF Finish
  <1>2. \/ c > 0 /\ WriteEncrypted(b, frames[b], Returned(b))
        \/ /\ ~ (c > 0)
           /\ pc' = Returned(b)
           /\ drawn' = drawn /\ output' = output /\ output_idx' = output_idx
    BY Zenon DEF Finish
  <1>3. FramesSoFar(b) = r  BY <1>1 DEF FramesSoFar
  <1>4. /\ c = r % BUFFER_SIZE
        /\ c \in 0 .. BUFFER_SIZE - 1
        /\ frames[b] = Pending(ready, can, r)
        /\ g \in 0 .. NR_ITERATIONS
        /\ frames[b] \in StoredFrames
    BY <1>3, StateOf
  <1>5. /\ IsLog(b, ready, can, output[b], m)
        /\ output_idx[b] = HEADER_SIZE + m * BLOCK_SIZE
        /\ drawn[b] = KEY_SIZE + (m + 1) * IV_SIZE
        /\ m \in Nat
        /\ r \in Nat
        /\ r <= NR_ITERATIONS
    BY <1>1, <1>3, RunningLogged
  <1>6. Written(r) \in Nat /\ Written(r) <= MAX_BLOCKS  BY <1>5, WrittenFits
  <1>7. frames[b] = BlockFrames(ready, can, m + 1)
    <2>1. Pending(ready, can, r) = BlockFrames(ready, can, (r \div BUFFER_SIZE) + 1)
      BY PendingIsLast
    <2> QED BY <1>4, <2>1
  <1>8. Written(r) = IF c = 0 THEN m ELSE m + 1  BY <1>4, <1>5, WrittenIs
  <1>9. /\ g_iteration_number' = [g_iteration_number EXCEPT ![b] = g]
        /\ frames' = [frames EXCEPT ![b] = frames[b]]
        /\ current_frame_count' = [current_frame_count EXCEPT ![b] = c]
    BY <1>1, Alone
  <1>10. c = RankIn(ready, g) % BUFFER_SIZE /\ frames[b] = Pending(ready, can, RankIn(ready, g))
         /\ RankIn(ready, g) = r
    BY <1>1, <1>4
  <1>11. c \in Nat  BY <1>4, BufferSize, SMT
  <1> HIDE DEF g, r, m, c, ready, can
  <1>12. CASE c > 0
    <2>1. Written(r) = m + 1  BY <1>8, <1>11, <1>12, SMT
    <2>2. m + 1 <= MAX_BLOCKS /\ m + 1 \in Nat  BY <1>6, <2>1
    <2>3. WriteEncrypted(b, frames[b], Returned(b))  BY <1>2, <1>12
    <2>4. PICK log \in Seq(LogRecords), idx \in Nat, d \in Nat :
            /\ IsLog(b, ready, can, log, m + 1)
            /\ idx = HEADER_SIZE + (m + 1) * BLOCK_SIZE
            /\ d = KEY_SIZE + ((m + 1) + 1) * IV_SIZE
            /\ output' = [output EXCEPT ![b] = log]
            /\ output_idx' = [output_idx EXCEPT ![b] = idx]
            /\ drawn' = [drawn EXCEPT ![b] = d]
            /\ pc' = Returned(b)
      BY <1>5, <1>7, <2>2, <2>3, WriteEncryptedIs DEF ready, can
    <2>5. m + 1 = Written(RankIn(ready, g))  BY <1>10, <2>1
    <2> QED BY <1>1, <1>4, <1>9, <1>10, <2>2, <2>4, <2>5, MainStep DEF ready, can
  <1>13. CASE ~ (c > 0)
    <2>1. Written(r) = m  BY <1>8, <1>11, <1>13, SMT
    <2>2. /\ drawn' = drawn /\ output' = output /\ output_idx' = output_idx
          /\ pc' = Returned(b)
      BY <1>2, <1>13
    <2>3. m = Written(RankIn(ready, g))  BY <1>10, <2>1
    <2>4. m = FramesSoFar(b) \div BUFFER_SIZE  BY <1>3 DEF m
    <2> DEFINE f == frames[b]
    <2> HIDE DEF f
    <2> QED BY <1>1, <1>4, <1>9, <1>10, <2>2, <2>3, <2>4, QuietStep DEF ready, can, f
  <1> QED BY <1>12, <1>13

(* When main of vuln has returned both logs are complete. *)
Comparing == pc \in {"key", "iv", "block", "next_iv", "done"}

LEMMA LogsCompared ==
  ASSUME IInv, Comparing, NEW b \in Builds
  PROVE  /\ IsLog(b, symbolic_ready, symboic_can_frame, output[b], LastBlock)
         /\ output_idx[b] = HEADER_SIZE + LastBlock * BLOCK_SIZE
         /\ LastBlock \in Nat
         /\ LastBlock <= MAX_BLOCKS
         /\ Readable(b)
  <1>1. Ended(b)  BY DEF Comparing, Ended
  <1>2. g_iteration_number[b] = NR_ITERATIONS  BY <1>1, StateOf
  <1>3. Blocks(b) = LastBlock  BY <1>1, <1>2 DEF Blocks, LastBlock, FramesSoFar
  <1>4. Logged(b)
    <2>1. BuildInv(b)  BY DEF IInv
    <2> QED BY <1>1, <2>1 DEF BuildInv, NotOpened
  <1>5. LastBlock \in Nat /\ LastBlock <= MAX_BLOCKS  BY <1>3, SoFar DEF IInv
  <1>6. output_idx[b] = HEADER_SIZE + LastBlock * BLOCK_SIZE  BY <1>3, <1>4 DEF Logged
  <1>7. output_idx[b] + INT_SIZE <= OUTPUT_SIZE  BY <1>5, <1>6, LogFits
  <1>8. Readable(b)  BY <1>7 DEF Readable
  <1>9. IsLog(b, symbolic_ready, symboic_can_frame, output[b], LastBlock)
    BY <1>3, <1>4 DEF Logged
  <1> QED BY <1>5, <1>6, <1>8, <1>9

(* A step of the comparison whose assertion holds. *)
LEMMA CompareStep ==
  ASSUME IInv, Comparing,
         pc' \in {"iv", "block", "next_iv", "done"},
         at' = [b \in Builds |-> at[b] + 1],
         UNCHANGED <<inputs, ecu>>,
         \/ pc' = "iv" /\ at["patched"] = 1
         \/ pc' = "block" /\ \E n \in 0 .. LastBlock : at["patched"] + 1 = 3 + 2 * n
         \/ pc' = "next_iv" /\ \E n \in 1 .. LastBlock : at["patched"] + 1 = 2 + 2 * n
         \/ pc' = "done" /\ at["patched"] + 1 = 4 + 2 * LastBlock
  PROVE  IInv'
  <1>1. /\ symbolic_ready' = symbolic_ready /\ symboic_can_frame' = symboic_can_frame
        /\ g_iteration_number' = g_iteration_number /\ drawn' = drawn /\ frames' = frames
        /\ current_frame_count' = current_frame_count
        /\ output' = output /\ output_idx' = output_idx
    BY DEF inputs, ecu
  <1>2. Shape'  BY <1>1 DEF IInv, Shape
  <1>3. ASSUME NEW b \in Builds PROVE BuildInv(b)'
    <2>1. Ended(b)' <=> Ended(b)  BY DEF Comparing, Ended
    <2> QED BY <1>1, <2>1, OtherBuild DEF inputs
  <1>4. at["vuln"] = at["patched"]  BY DEF IInv, CompareInv
  <1>5. at'["patched"] = at["patched"] + 1 /\ at'["vuln"] = at["patched"] + 1
    BY <1>4 DEF Builds
  <1>6. LastBlock' = LastBlock  BY <1>1 DEF LastBlock
  <1>7. CompareInv'
    <2>1. CASE pc' = "iv" /\ at["patched"] = 1
      BY <1>5, <2>1 DEF CompareInv
    <2>2. CASE pc' = "block" /\ \E n \in 0 .. LastBlock : at["patched"] + 1 = 3 + 2 * n
      BY <1>5, <1>6, <2>2 DEF CompareInv
    <2>3. CASE pc' = "next_iv" /\ \E n \in 1 .. LastBlock : at["patched"] + 1 = 2 + 2 * n
      BY <1>5, <1>6, <2>3 DEF CompareInv
    <2>4. CASE pc' = "done" /\ at["patched"] + 1 = 4 + 2 * LastBlock
      BY <1>5, <1>6, <2>4 DEF CompareInv
    <2> QED BY <2>1, <2>2, <2>3, <2>4
  <1> QED BY <1>2, <1>3, <1>7 DEF IInv

(* The records the comparison comes across. *)
LEMMA HeaderFound ==
  ASSUME IInv, Comparing, NEW b \in Builds
  PROVE  /\ at[b] = 1 => Found(b) = KeyRecord(0)
         /\ at[b] = 2 => Found(b) = IVRecord(KEY_SIZE)
         /\ output[b][1] = KeyRecord(0)
  <1>1. IsLog(b, symbolic_ready, symboic_can_frame, output[b], LastBlock) /\ LastBlock \in Nat
    BY LogsCompared
  <1>2. Len(output[b]) = 2 + 2 * LastBlock /\ output[b][1] = KeyRecord(0)
        /\ output[b][2] = IVRecord(KEY_SIZE)
    BY <1>1 DEF IsLog
  <1>3. 1 <= Len(output[b]) /\ 2 <= Len(output[b])  BY <1>1, <1>2, SMT
  <1> QED BY <1>2, <1>3 DEF Found

LEMMA BlockFound ==
  ASSUME IInv, Comparing, NEW b \in Builds,
         NEW n \in 0 .. LastBlock, at[b] = 3 + 2 * n
  PROVE  IF n = LastBlock
         THEN Found(b) = NoRecord
         ELSE /\ n + 1 \in 1 .. LastBlock
              /\ Found(b) = Encrypted(b, BlockFrames(symbolic_ready, symboic_can_frame, n + 1), Key)
  <1>1. IsLog(b, symbolic_ready, symboic_can_frame, output[b], LastBlock) /\ LastBlock \in Nat
    BY LogsCompared
  <1>2. Len(output[b]) = 2 + 2 * LastBlock  BY <1>1 DEF IsLog
  <1>3. CASE n = LastBlock
    <2>1. ~ (at[b] <= Len(output[b]))  BY <1>1, <1>2, <1>3, SMT
    <2> QED BY <1>3, <2>1 DEF Found
  <1>4. CASE n # LastBlock
    <2>1. n + 1 \in 1 .. LastBlock /\ at[b] = 1 + 2 * (n + 1)  BY <1>1, <1>4, SMT
    <2>2. at[b] <= Len(output[b])  BY <1>1, <1>2, <2>1, SMT
    <2>3. output[b][1 + 2 * (n + 1)]
            = Encrypted(b, BlockFrames(symbolic_ready, symboic_can_frame, n + 1), Key)
      BY <1>1, <2>1, Zenon DEF IsLog
    <2>4. Found(b) = output[b][1 + 2 * (n + 1)]  BY <2>1, <2>2 DEF Found
    <2> QED BY <1>4, <2>1, <2>3, <2>4
  <1> QED BY <1>3, <1>4

LEMMA NextIVFound ==
  ASSUME IInv, Comparing, NEW b \in Builds,
         NEW n \in 1 .. LastBlock, at[b] = 2 + 2 * n
  PROVE  Found(b) = IVRecord(KEY_SIZE + n * IV_SIZE)
  <1>1. IsLog(b, symbolic_ready, symboic_can_frame, output[b], LastBlock) /\ LastBlock \in Nat
    BY LogsCompared
  <1>2. Len(output[b]) = 2 + 2 * LastBlock /\ output[b][2 + 2 * n] = IVRecord(KEY_SIZE + n * IV_SIZE)
    BY <1>1, Zenon DEF IsLog
  <1>3. at[b] <= Len(output[b])  BY <1>1, <1>2, SMT
  <1> QED BY <1>2, <1>3 DEF Found

LEMMA RecordsAre ==
  ASSUME NEW from
  PROVE  /\ KeyRecord(from).size = KEY_SIZE
         /\ KeyRecord(from).contents = RandBytes(from, KEY_SIZE)
         /\ IVRecord(from).size = IV_SIZE
         /\ NoRecord.size = 0
  BY DEF KeyRecord, IVRecord, NoRecord, Record

LEMMA InStep ==
  ASSUME IInv
  PROVE  /\ "patched" \in Builds /\ "vuln" \in Builds
         /\ at["vuln"] = at["patched"]
  BY DEF IInv, CompareInv, Builds

LEMMA CheckKeyKeepsIInv ==
  ASSUME IInv, CheckKey
  PROVE  IInv'
  <1>1. pc = "key" /\ at' = [b \in Builds |-> at[b] + 1] /\ UNCHANGED <<inputs, ecu>>
    BY DEF CheckKey, Consume
  <1>2. Comparing  BY <1>1 DEF Comparing
  <1>3. at["patched"] = 1  BY <1>1 DEF IInv, CompareInv
  <1>4. Found("patched") = KeyRecord(0) /\ Found("vuln") = KeyRecord(0)
    BY <1>2, <1>3, InStep, HeaderFound
  <1>5. SameRecord(KEY_SIZE)  BY <1>4, RecordsAre DEF SameRecord
  <1>6. \A b \in Builds : Readable(b)  BY <1>2, LogsCompared
  <1>7. pc' = "iv"  BY <1>5, <1>6 DEF CheckKey, Consume
  <1> QED BY <1>1, <1>2, <1>3, <1>7, CompareStep

LEMMA CheckIVKeepsIInv ==
  ASSUME IInv, CheckIV
  PROVE  IInv'
  <1>1. pc = "iv" /\ at' = [b \in Builds |-> at[b] + 1] /\ UNCHANGED <<inputs, ecu>>
    BY DEF CheckIV, Consume
  <1>2. Comparing  BY <1>1 DEF Comparing
  <1>3. at["patched"] = 2  BY <1>1 DEF IInv, CompareInv
  <1>4. Found("patched") = IVRecord(KEY_SIZE) /\ Found("vuln") = IVRecord(KEY_SIZE)
    BY <1>2, <1>3, InStep, HeaderFound
  <1>5. SameRecord(IV_SIZE)  BY <1>4, RecordsAre DEF SameRecord
  <1>6. \A b \in Builds : Readable(b)  BY <1>2, LogsCompared
  <1>7. pc' = "block"  BY <1>5, <1>6 DEF CheckIV, Consume
  <1>8. \E n \in 0 .. LastBlock : at["patched"] + 1 = 3 + 2 * n
    <2>1. LastBlock \in Nat  BY <1>2, InStep, LogsCompared
    <2>2. 0 \in 0 .. LastBlock /\ at["patched"] + 1 = 3 + 2 * 0  BY <1>3, <2>1, SMT
    <2> QED BY <2>2
  <1> QED BY <1>1, <1>2, <1>7, <1>8, CompareStep

(* The heart of it: the ciphertexts of a block differ, its plaintexts do not. *)
LEMMA BlockCompares ==
  ASSUME IInv, Comparing, NEW f \in StoredFrames,
         Found("patched") = Encrypted("patched", f, Key),
         Found("vuln") = Encrypted("vuln", f, Key)
  PROVE  /\ Found("patched").size = RECORD_SIZE
         /\ Found("vuln").size = RECORD_SIZE
         /\ Found("vuln").contents # Found("patched").contents
         /\ Decrypted("patched") = Decrypted("vuln")
  <1>1. "patched" \in Builds /\ "vuln" \in Builds  BY DEF Builds
  <1>2. Found("patched").size = RECORD_SIZE /\ Found("vuln").size = RECORD_SIZE
    BY <1>1, EncryptedIs
  <1>3. Found("vuln").contents # Found("patched").contents  BY BlocksDiffer
  <1>4. ASSUME NEW b \in Builds, Found(b) = Encrypted(b, f, Key)
        PROVE  Decrypted(b) = Plaintext(f)
    <2>1. output[b][1].contents = Key  BY HeaderFound, RecordsAre DEF Key
    <2>2. Found(b).size = RECORD_SIZE  BY <1>4, EncryptedIs
    <2> DEFINE c == Encrypted(b, f, Key).contents
               decrypted == {k \in DOMAIN c : k < RECORD_SIZE - IV_SIZE}
    <2>3. FakeDecrypt(Rotation[b], [k \in decrypted |-> c[k]], Key) = Plaintext(f)
      BY BlockDecrypts
    <2>4. Decrypted(b) = FakeDecrypt(Rotation[b], [k \in decrypted |-> c[k]], Key)
      BY <1>4, <2>1, <2>2, Zenon DEF Decrypted
    <2> QED BY <2>3, <2>4
  <1> QED BY <1>1, <1>2, <1>3, <1>4

LEMMA CheckBlockKeepsIInv ==
  ASSUME IInv, CheckBlock
  PROVE  IInv'
  <1>1. pc = "block" /\ at' = [b \in Builds |-> at[b] + 1] /\ UNCHANGED <<inputs, ecu>>
        /\ Found("vuln").size # 0
    BY DEF CheckBlock, Consume
  <1>2. Comparing  BY <1>1 DEF Comparing
  <1>3. PICK n \in 0 .. LastBlock : at["patched"] = 3 + 2 * n
    BY <1>1 DEF IInv, CompareInv
  <1>4. n # LastBlock
    <2>1. n = LastBlock => Found("vuln") = NoRecord  BY <1>2, <1>3, InStep, BlockFound
    <2> QED BY <1>1, <2>1, RecordsAre
  <1> DEFINE f == BlockFrames(symbolic_ready, symboic_can_frame, n + 1)
  <1>5. /\ n + 1 \in 1 .. LastBlock
        /\ Found("patched") = Encrypted("patched", f, Key)
        /\ Found("vuln") = Encrypted("vuln", f, Key)
    BY <1>2, <1>3, <1>4, InStep, BlockFound
  <1>6. f \in StoredFrames  BY InStep, StateOf, BlockFramesType
  <1> HIDE DEF f
  <1>7. /\ Found("patched").size = RECORD_SIZE
        /\ Found("vuln").size = RECORD_SIZE
        /\ Found("vuln").contents # Found("patched").contents
        /\ Decrypted("patched") = Decrypted("vuln")
    BY <1>2, <1>5, <1>6, BlockCompares
  <1>8. \A b \in Builds : Readable(b)  BY <1>2, LogsCompared
  <1>9. pc' = "next_iv"  BY <1>7, <1>8 DEF CheckBlock, Consume
  <1>10. \E i \in 1 .. LastBlock : at["patched"] + 1 = 2 + 2 * i
    <2>1. at["patched"] + 1 = 2 + 2 * (n + 1)  BY <1>3, SMT
    <2> QED BY <1>5, <2>1
  <1> QED BY <1>1, <1>2, <1>9, <1>10, CompareStep

LEMMA CheckNextIVKeepsIInv ==
  ASSUME IInv, CheckNextIV
  PROVE  IInv'
  <1>1. pc = "next_iv" /\ at' = [b \in Builds |-> at[b] + 1] /\ UNCHANGED <<inputs, ecu>>
    BY DEF CheckNextIV, Consume
  <1>2. Comparing  BY <1>1 DEF Comparing
  <1>3. PICK n \in 1 .. LastBlock : at["patched"] = 2 + 2 * n
    BY <1>1 DEF IInv, CompareInv
  <1>4. /\ Found("patched") = IVRecord(KEY_SIZE + n * IV_SIZE)
        /\ Found("vuln") = IVRecord(KEY_SIZE + n * IV_SIZE)
    BY <1>2, <1>3, InStep, NextIVFound
  <1>5. SameRecord(IV_SIZE)  BY <1>4, RecordsAre DEF SameRecord
  <1>6. \A b \in Builds : Readable(b)  BY <1>2, LogsCompared
  <1>7. pc' = "block"  BY <1>5, <1>6 DEF CheckNextIV, Consume
  <1>8. \E i \in 0 .. LastBlock : at["patched"] + 1 = 3 + 2 * i
    <2>1. LastBlock \in Nat  BY <1>2, InStep, LogsCompared
    <2>2. n \in 0 .. LastBlock /\ at["patched"] + 1 = 3 + 2 * n  BY <1>3, <2>1, SMT
    <2> QED BY <2>2
  <1> QED BY <1>1, <1>2, <1>7, <1>8, CompareStep

LEMMA EndOfLogKeepsIInv ==
  ASSUME IInv, EndOfLog
  PROVE  IInv'
  <1>1. pc = "block" /\ at' = [b \in Builds |-> at[b] + 1] /\ UNCHANGED <<inputs, ecu>>
        /\ Found("vuln").size = 0
    BY DEF EndOfLog, Consume
  <1>2. Comparing  BY <1>1 DEF Comparing
  <1>3. PICK n \in 0 .. LastBlock : at["patched"] = 3 + 2 * n
    BY <1>1 DEF IInv, CompareInv
  <1>4. n = LastBlock
    <2> SUFFICES ASSUME n # LastBlock PROVE FALSE
      OBVIOUS
    <2> DEFINE f == BlockFrames(symbolic_ready, symboic_can_frame, n + 1)
    <2>1. Found("vuln") = Encrypted("vuln", f, Key)
      BY <1>2, <1>3, InStep, BlockFound
    <2>2. f \in StoredFrames  BY InStep, StateOf, BlockFramesType
    <2> HIDE DEF f
    <2>3. Found("vuln").size = RECORD_SIZE  BY <2>1, <2>2, InStep, EncryptedIs
    <2> QED BY <1>1, <2>3, SizesAre
  <1>5. Found("patched") = NoRecord
    BY <1>2, <1>3, <1>4, InStep, BlockFound
  <1>6. Found("patched").size = 0  BY <1>5, RecordsAre
  <1>7. \A b \in Builds : Readable(b)  BY <1>2, LogsCompared
  <1>8. pc' = "done"  BY <1>6, <1>7 DEF EndOfLog, Consume
  <1>9. at["patched"] + 1 = 4 + 2 * LastBlock  BY <1>3, <1>4, SMT
  <1> QED BY <1>1, <1>2, <1>8, <1>9, CompareStep

LEMMA NextIInv == IInv /\ [Next]_vars => IInv'
  <1> SUFFICES ASSUME IInv, [Next]_vars PROVE IInv'
    OBVIOUS
  <1>1. CASE UNCHANGED vars
    <2>1. UNCHANGED inputs /\ UNCHANGED ecu /\ at' = at /\ pc' = pc  BY <1>1 DEF vars
    <2>2. /\ symbolic_ready' = symbolic_ready /\ symboic_can_frame' = symboic_can_frame
          /\ g_iteration_number' = g_iteration_number /\ drawn' = drawn /\ frames' = frames
          /\ current_frame_count' = current_frame_count
          /\ output' = output /\ output_idx' = output_idx
      BY <2>1 DEF inputs, ecu
    <2>3. Shape'  BY <2>1, <2>2 DEF IInv, Shape
    <2>4. ASSUME NEW b \in Builds PROVE BuildInv(b)'
      <3>1. Ended(b)' <=> Ended(b)  BY <2>1 DEF Ended
      <3> QED BY <2>1, <2>2, <3>1, OtherBuild
    <2>5. LastBlock' = LastBlock  BY <2>2 DEF LastBlock
    <2>6. CompareInv'  BY <2>1, <2>5 DEF IInv, CompareInv
    <2> QED BY <2>3, <2>4, <2>6 DEF IInv
  <1>2. ASSUME NEW b \in Builds, Main(b) PROVE IInv'
    BY <1>2, SetUpKeepsIInv, IdleKeepsIInv, IterateKeepsIInv, FinishKeepsIInv DEF Main
  <1>3. CASE Compare
    BY <1>3, CheckKeyKeepsIInv, CheckIVKeepsIInv, CheckBlockKeepsIInv,
       CheckNextIVKeepsIInv, EndOfLogKeepsIInv DEF Compare
  <1> QED BY <1>1, <1>2, <1>3 DEF Next

LEMMA SpecIInv == Spec => []IInv
  BY InitIInv, NextIInv, PTL DEF Spec

-----------------------------------------------------------------------------
(* The theorems. *)

LEMMA IInvTypeOK == IInv => TypeOK
  <1> SUFFICES ASSUME IInv PROVE TypeOK
    OBVIOUS
  <1>1. Shape  BY DEF IInv
  <1>2. output_idx \in [Builds -> 0 .. OUTPUT_SIZE - 1]
    <2>1. OUTPUT_SIZE \in Nat  BY SymCmpAssumption
    <2>2. ASSUME NEW b \in Builds PROVE output_idx[b] \in 0 .. OUTPUT_SIZE - 1
      <3>1. CASE NotOpened(b)
        <4>1. 0 \in Nat /\ 0 <= MAX_BLOCKS  BY MaxBlocks, SMT
        <4>2. HEADER_SIZE + 0 * BLOCK_SIZE \in Nat /\ HEADER_SIZE + 0 * BLOCK_SIZE < OUTPUT_SIZE
          BY <4>1, LogFits
        <4>3. output_idx[b] = 0  BY <3>1 DEF NotOpened
        <4> QED BY <2>1, <4>2, <4>3, SMT
      <3>2. CASE Logged(b)
        <4>1. Blocks(b) \in Nat /\ Blocks(b) <= MAX_BLOCKS  BY <1>1, SoFar
        <4>2. output_idx[b] \in Nat /\ output_idx[b] < OUTPUT_SIZE
          BY <3>2, <4>1, LogFits DEF Logged
        <4> QED BY <2>1, <4>2, SMT
      <3>3. BuildInv(b)  BY DEF IInv
      <3> QED BY <3>1, <3>2, <3>3 DEF BuildInv
    <2>3. output_idx \in [Builds -> Nat]  BY <1>1 DEF Shape
    <2> QED BY <2>2, <2>3, Zenon
  <1>3. ASSUME NEW b \in Builds PROVE at[b] \in 1 .. Len(output[b]) + 2
    <2>1. at[b] = at["patched"]
      <3>1. b = "patched" \/ b = "vuln"  BY DEF Builds
      <3> QED BY <3>1, InStep
    <2>2. Len(output[b]) \in Nat
      <3>1. output[b] \in Seq(LogRecords)  BY StateOf
      <3> QED BY <3>1
    <2>3. CASE pc \in {"patched_main", "vuln_main", "key"}
      <3>1. at["patched"] = 1  BY <2>3 DEF IInv, CompareInv
      <3> QED BY <2>1, <2>2, <3>1, SMT
    <2>4. CASE pc \in {"iv", "block", "next_iv", "done"}
      <3>1. Comparing  BY <2>4 DEF Comparing
      <3>2. LastBlock \in Nat /\ Len(output[b]) = 2 + 2 * LastBlock
        BY <3>1, LogsCompared DEF IsLog
      <3>3. \/ at["patched"] = 2
            \/ \E n \in 0 .. LastBlock : at["patched"] = 3 + 2 * n
            \/ \E n \in 1 .. LastBlock : at["patched"] = 2 + 2 * n
            \/ at["patched"] = 4 + 2 * LastBlock
        BY <2>4 DEF IInv, CompareInv
      <3> QED BY <2>1, <3>2, <3>3, SMT
    <2> QED BY <1>1, <2>3, <2>4 DEF Shape
  <1> QED BY <1>1, <1>2, <1>3 DEF Shape, StoredFrames, StoredBytes, TypeOK

(* The variables have their types: output_idx stays within the array and   *)
(* the comparison within the logs, however many frames come.               *)
THEOREM TypeCorrect == Spec => []TypeOK
  BY SpecIInv, IInvTypeOK, PTL

(* No assertion of superglue.c fails on any input, for every length of the *)
(* run, every size of the MBlock and every set of frame bytes: the check   *)
(* of the two builds succeeds.                                             *)
THEOREM AlwaysAssertionsHold == Spec => []AssertionsHold
  <1>1. IInv => AssertionsHold  BY DEF IInv, Shape, AssertionsHold
  <1> QED BY <1>1, SpecIInv, PTL

(* Where the frame of rank r is in the log. *)
LEMMA FrameIsLogged ==
  ASSUME NEW r \in Nat, 0 < r
  PROVE  LET q == (r - 1) \div BUFFER_SIZE
         IN  /\ q + 1 = Written(r)
             /\ q \in Nat
             /\ FrameSlot(r) \in Slots
             /\ q * BUFFER_SIZE + FrameSlot(r) = r
             /\ FrameRecord(r) = 1 + 2 * (q + 1)
  <1> DEFINE k == r - 1
             q == k \div BUFFER_SIZE
             s == k % BUFFER_SIZE
  <1>1. k \in Nat /\ k + 1 = r  BY SMT
  <1> HIDE DEF k
  <1>2. q \in Nat /\ s \in 0 .. BUFFER_SIZE - 1 /\ k = q * BUFFER_SIZE + s
    BY <1>1, BlockAndSlot
  <1>3. FrameSlot(r) = s + 1 /\ FrameRecord(r) = 3 + 2 * q
    BY DEF FrameSlot, FrameRecord, k
  <1> HIDE DEF q, s
  <1>4. q * BUFFER_SIZE \in Nat /\ (q + 1) * BUFFER_SIZE = q * BUFFER_SIZE + BUFFER_SIZE
    BY <1>2, BufferSize, ProductStep
  <1>5. r + BUFFER_SIZE - 1 = (q + 1) * BUFFER_SIZE + s
    BY <1>1, <1>2, <1>4, BufferSize, SMT
  <1>6. Written(r) = q + 1
    <2>1. q + 1 \in Nat  BY <1>2, SMT
    <2> QED BY <1>2, <1>5, <2>1, BlockAndSlotAre DEF Written
  <1>7. FrameSlot(r) \in Slots  BY <1>2, <1>3, BufferSize, SMT DEF Slots
  <1>8. q * BUFFER_SIZE + FrameSlot(r) = r  BY <1>1, <1>2, <1>3, <1>4, BufferSize, SMT
  <1>9. FrameRecord(r) = 1 + 2 * (q + 1)  BY <1>2, <1>3, SMT
  <1> QED BY <1>2, <1>6, <1>7, <1>8, <1>9 DEF q, k

LEMMA IInvChecksEveryFrame == IInv => ChecksEveryFrame
  <1> SUFFICES ASSUME IInv, pc = "done", NEW b \in Builds
               PROVE  /\ at[b] > Len(output[b])
                      /\ Len(output[b]) = 2 + 2 * LastBlock
                      /\ \A i \in Iterations :
                           symbolic_ready[i] > 0 =>
                             FakeDecrypt(Rotation[b], output[b][FrameRecord(Rank(i))].contents,
                                         output[b][1].contents)[FrameOffset(FrameSlot(Rank(i)))]
                               = symboic_can_frame[i]
    BY DEF ChecksEveryFrame, LastBlock, Written, Rank, RankIn
  <1>1. Comparing  BY DEF Comparing
  <1>2. IsLog(b, symbolic_ready, symboic_can_frame, output[b], LastBlock) /\ LastBlock \in Nat
    BY <1>1, LogsCompared
  <1>3. Len(output[b]) = 2 + 2 * LastBlock  BY <1>2 DEF IsLog
  <1>4. at[b] = 4 + 2 * LastBlock
    <2>1. b = "patched" \/ b = "vuln"  BY DEF Builds
    <2> QED BY <2>1, InStep DEF IInv, CompareInv
  <1>5. at[b] > Len(output[b])  BY <1>2, <1>3, <1>4, SMT
  <1>6. ASSUME NEW i \in Iterations, symbolic_ready[i] > 0
        PROVE  FakeDecrypt(Rotation[b], output[b][FrameRecord(Rank(i))].contents,
                           output[b][1].contents)[FrameOffset(FrameSlot(Rank(i)))]
                 = symboic_can_frame[i]
    <2> DEFINE r == Rank(i)
               q == (r - 1) \div BUFFER_SIZE
               f == BlockFrames(symbolic_ready, symboic_can_frame, q + 1)
               s == FrameSlot(r)
    <2>1. r = RankIn(symbolic_ready, i)  BY DEF Rank, RankIn
    <2>2. i \in Nat /\ 0 < i /\ i <= NR_ITERATIONS /\ NR_ITERATIONS \in Nat
      BY IterationsAre, SymCmpAssumption
    <2> HIDE DEF r
    <2>3. r \in Nat /\ 0 < r
      <3>1. RankIn(symbolic_ready, 0) < RankIn(symbolic_ready, i)
        BY <1>6, <2>2, RankLess
      <3> QED BY <2>1, <2>2, <3>1, RankZero, RankType
    <2>4. r <= RankIn(symbolic_ready, NR_ITERATIONS) /\ RankIn(symbolic_ready, NR_ITERATIONS) \in Nat
      BY <2>1, <2>2, RankGrows, RankType
    <2>5. /\ q + 1 = Written(r) /\ q \in Nat
          /\ s \in Slots /\ q * BUFFER_SIZE + s = r
          /\ FrameRecord(r) = 1 + 2 * (q + 1)
      BY <2>3, FrameIsLogged
    <2>6. q + 1 \in 1 .. LastBlock
      <3> DEFINE t == RankIn(symbolic_ready, NR_ITERATIONS)
      <3>1. r + BUFFER_SIZE - 1 \in Nat /\ t + BUFFER_SIZE - 1 \in Nat
            /\ r + BUFFER_SIZE - 1 <= t + BUFFER_SIZE - 1
        BY <2>3, <2>4, BufferSize, SMT
      <3>2. Written(r) <= Written(t)  BY <3>1, QuotientGrows DEF Written
      <3>3. q + 1 <= LastBlock  BY <2>5, <3>2 DEF LastBlock
      <3> HIDE DEF q
      <3> QED BY <1>2, <2>5, <3>3, SMT
    <2>7. FrameOfRank(symbolic_ready, symboic_can_frame, r) = symboic_can_frame[i]
      BY <1>6, <2>1, FrameOfRankIs
    <2> HIDE DEF q, s
    <2>8. f[s] = symboic_can_frame[i]
      <3>1. (q + 1) - 1 = q  BY <2>5, SMT
      <3>2. f[s] = FrameOfRank(symbolic_ready, symboic_can_frame, ((q + 1) - 1) * BUFFER_SIZE + s)
        BY <2>5 DEF BlockFrames
      <3> QED BY <2>5, <2>7, <3>1, <3>2
    <2>9. f \in StoredFrames  BY StateOf, BlockFramesType
    <2>10. output[b][FrameRecord(r)] = Encrypted(b, f, Key)
      BY <1>2, <2>5, <2>6, Zenon DEF IsLog
    <2>11. output[b][1].contents = Key  BY <1>1, HeaderFound, RecordsAre DEF Key
    <2> HIDE DEF f
    <2>12. FakeDecrypt(Rotation[b], Encrypted(b, f, Key).contents, Key)[FrameOffset(s)] = f[s]
      BY <2>5, <2>9, FrameDecrypts
    <2> QED BY <2>8, <2>10, <2>11, <2>12 DEF s, r
  <1> QED BY <1>3, <1>5, <1>6

(* For every input and size: a comparison that ends has been through both  *)
(* logs, and what it has decrypted from them is every frame that was       *)
(* ready, in its place.                                                    *)
THEOREM AlwaysChecksEveryFrame == Spec => []ChecksEveryFrame
  BY SpecIInv, IInvChecksEveryFrame, PTL
=============================================================================
