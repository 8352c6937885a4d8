------------------------------ MODULE StubCiphers ------------------------------
(***************************************************************************)
(* The stand-ins of glue.c for OpenSSL: a generator behind RAND_bytes and  *)
(* two ciphers that rotate every byte to the left, by one bit for AES and  *)
(* by two for DES, and exclusive-or it with the key, which they repeat.    *)
(*                                                                         *)
(* A byte is a function from its bits to BOOLEAN; a text is a function     *)
(* from offsets to bytes, a key one from 0 .. KEY_SIZE - 1.                *)
(***************************************************************************)
EXTENDS Integers

CONSTANT KEY_SIZE   \* bytes in a key

ASSUME CipherAssumption == KEY_SIZE \in Nat \ {0}

BYTE_BITS == 8
Bits == 0 .. BYTE_BITS - 1
Byte == [Bits -> BOOLEAN]
Keys == [0 .. KEY_SIZE - 1 -> Byte]

ByteOf(n) == [i \in Bits |-> (n \div 2 ^ i) % 2 = 1]

-----------------------------------------------------------------------------
(* RAND_bytes: the n-th byte it has handed out. *)
Rand[n \in Nat] == IF n = 0 THEN 42 ELSE (Rand[n - 1] * 167) % 256

RandBytes(from, num) == [j \in 0 .. num - 1 |-> ByteOf(Rand[from + j])]

-----------------------------------------------------------------------------
(* The ciphers; rotation is 1 for fake_aes_* and 2 for fake_des_*. *)

RotateLeft(p, rotation)  == [i \in Bits |-> p[(i - rotation) % BYTE_BITS]]
RotateRight(p, rotation) == [i \in Bits |-> p[(i + rotation) % BYTE_BITS]]

Xor(p, k) == [i \in Bits |-> p[i] # k[i]]

EncryptByte(rotation, p, k) == Xor(RotateLeft(p, rotation), k)
DecryptByte(rotation, c, k) == RotateRight(Xor(c, k), rotation)

FakeEncrypt(rotation, plaintext, key) ==
    [i \in DOMAIN plaintext |-> EncryptByte(rotation, plaintext[i], key[i % KEY_SIZE])]

FakeDecrypt(rotation, ciphertext, key) ==
    [i \in DOMAIN ciphertext |-> DecryptByte(rotation, ciphertext[i], key[i % KEY_SIZE])]

=============================================================================
