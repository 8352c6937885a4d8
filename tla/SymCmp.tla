-------------------------------- MODULE SymCmp --------------------------------
(***************************************************************************)
(* The symbolic comparison of symcmp/superglue.c: the build with AES       *)
(* (patched) and the build with DES (vuln) run one after the other on the  *)
(* same symbolic frames, each with its own copy of the statics of glue.c   *)
(* and logging.c; then their logs are compared record by record.           *)
(*                                                                         *)
(* Of every field of an MBlock one byte is kept: the first of generation   *)
(* and the first of each frame, at their offsets; and one byte of the      *)
(* padding.  Sizes and positions are those of the source, in bytes.        *)
(***************************************************************************)
EXTENDS StubCiphers, Sequences, FiniteSets

CONSTANTS
    NR_ITERATIONS,   \* iterations of the main loop (glue.h)
    BUFFER_SIZE,     \* frames in an MBlock
    MBLOCK_SIZE,     \* sizeof(mblock)
    IV_SIZE,
    OUTPUT_SIZE,     \* bytes of the array that stands for the log file
    FrameBytes       \* bytes a symbolic frame may carry

VARIABLES
    symbolic_ready,       \* what select answers in each iteration
    symboic_can_frame,    \* what read delivers in each iteration
    g_iteration_number,   \* per build, as the variables below
    drawn,                \* bytes RAND_bytes has handed out
    frames,               \* mblock.frames
    current_frame_count,
    output, output_idx,   \* the records written, and their end in bytes
    at,                   \* the record consume_file will read next
    pc

inputs == <<symbolic_ready, symboic_can_frame>>
ecu == <<g_iteration_number, drawn, frames, current_frame_count, output, output_idx>>
vars == <<inputs, ecu, at, pc>>

-----------------------------------------------------------------------------
Builds     == {"patched", "vuln"}
Iterations == 1 .. NR_ITERATIONS
Slots      == 1 .. BUFFER_SIZE

RotationUnpatched == [patched |-> 2, vuln |-> 2]   \* mutant

(* The cipher each build asks for: EVP_aes_256_cbc or EVP_des_ede3_cbc.    *)
Rotation == [patched |-> 1, vuln |-> 2]

INT_SIZE      == 4                        \* sizeof(int)
PADDING       == 8                        \* what EVP_EncryptFinal_ex adds
RECORD_SIZE   == MBLOCK_SIZE + PADDING    \* the length of a ciphertext
FrameOffset(i) == 8 + 16 * (i - 1)        \* of frames[i - 1] in an MBlock
FrameOffsets  == {FrameOffset(i) : i \in Slots}

(* MAX_BLOCKS blocks hold all frames that can come, and the array has room *)
(* for them, for key and iv, and for the zero int behind them.             *)
MAX_BLOCKS == (NR_ITERATIONS + BUFFER_SIZE - 1) \div BUFFER_SIZE
HEADER_SIZE == (INT_SIZE + KEY_SIZE) + (INT_SIZE + IV_SIZE)
BLOCK_SIZE  == (INT_SIZE + RECORD_SIZE) + (INT_SIZE + IV_SIZE)

ASSUME SymCmpAssumption ==
    /\ NR_ITERATIONS \in Nat
    /\ BUFFER_SIZE \in Nat \ {0}
    /\ MBLOCK_SIZE \in Nat
    /\ \A i \in Slots : FrameOffset(i) < MBLOCK_SIZE
    /\ IV_SIZE = PADDING
    /\ OUTPUT_SIZE \in Nat
    /\ HEADER_SIZE + MAX_BLOCKS * BLOCK_SIZE + INT_SIZE <= OUTPUT_SIZE
    /\ FrameBytes \subseteq Byte

GENERATION == [i \in Bits |-> i \in {0, 1, 6}]   \* 'C', the first letter of "CAN2"
PAD_BYTE   == ByteOf(170)                        \* 0xaa
NO_BYTE    == ByteOf(0)

NoFrames == [i \in Slots |-> NO_BYTE]

Plaintext(f) ==
    [k \in {0} \cup FrameOffsets |->
        IF k = 0 THEN GENERATION ELSE f[(k - 8) \div 16 + 1]]

Record(size, contents) == [size |-> size, contents |-> contents]

KeyRecord(from) == Record(KEY_SIZE, RandBytes(from, KEY_SIZE))
IVRecord(from)  == Record(IV_SIZE, RandBytes(from, IV_SIZE))

(* encrypt of either build, and the padding of EVP_EncryptFinal_ex. *)
Encrypted(b, f, key) ==
    LET ciphertext == FakeEncrypt(Rotation[b], Plaintext(f), key)
    IN  Record(RECORD_SIZE,
               [k \in DOMAIN ciphertext \cup {MBLOCK_SIZE} |->
                   IF k = MBLOCK_SIZE THEN PAD_BYTE ELSE ciphertext[k]])

(* The record consume_file finds; behind the last one the array is zero.   *)
NoRecord == Record(0, <<>>)
Found(b) == IF at[b] <= Len(output[b]) THEN output[b][at[b]] ELSE NoRecord

TypeOK ==
    /\ symbolic_ready \in [Iterations -> {0, 1}]
    /\ symboic_can_frame \in [Iterations -> FrameBytes]
    /\ g_iteration_number \in [Builds -> 0 .. NR_ITERATIONS]
    /\ drawn \in [Builds -> Nat]
    /\ frames \in [Builds -> [Slots -> FrameBytes \cup {NO_BYTE}]]
    /\ current_frame_count \in [Builds -> 0 .. BUFFER_SIZE - 1]
    /\ output_idx \in [Builds -> 0 .. OUTPUT_SIZE - 1]
    /\ \A b \in Builds : at[b] \in 1 .. Len(output[b]) + 2
    /\ pc \in {"patched_main", "vuln_main", "key", "iv", "block", "next_iv",
               "done", "aborted"}

Init ==
    /\ symbolic_ready \in [Iterations -> {0, 1}]
    /\ symboic_can_frame \in [Iterations -> FrameBytes]
    /\ g_iteration_number = [b \in Builds |-> 0]
    /\ drawn = [b \in Builds |-> 0]
    /\ frames = [b \in Builds |-> NoFrames]
    /\ current_frame_count = [b \in Builds |-> 0]
    /\ output = [b \in Builds |-> <<>>]
    /\ output_idx = [b \in Builds |-> 0]
    /\ at = [b \in Builds |-> 1]
    /\ pc = "patched_main"

-----------------------------------------------------------------------------
(* The two runs of main. *)

Running(b) == pc = (IF b = "patched" THEN "patched_main" ELSE "vuln_main")
Returned(b) == IF b = "patched" THEN "vuln_main" ELSE "key"

(* fwrite: bytes go to the array one by one; running into its end is a     *)
(* failed assertion, and whatever the call was part of does not go on.     *)
Fwrite(b, records, bytes, next) ==
    /\ output_idx' = [output_idx EXCEPT ![b] = @ + bytes]
    /\ output' = [output EXCEPT ![b] = @ \o records]
    /\ pc' = IF output_idx'[b] < OUTPUT_SIZE THEN next ELSE "aborted"

(* logging_setup. *)
SetUp(b) ==
    /\ Running(b)
    /\ output[b] = <<>>
    /\ Fwrite(b, <<KeyRecord(0), IVRecord(KEY_SIZE)>>, HEADER_SIZE, pc)
    /\ drawn' = [drawn EXCEPT ![b] = KEY_SIZE + IV_SIZE]
    /\ UNCHANGED <<inputs, g_iteration_number, frames, current_frame_count, at>>

(* write_encrypted: the block, and the next iv behind it.                  *)
WriteEncrypted(b, f, next) ==
    /\ Fwrite(b, <<Encrypted(b, f, RandBytes(0, KEY_SIZE)), IVRecord(drawn[b])>>,
              BLOCK_SIZE, next)
    /\ drawn' = [drawn EXCEPT ![b] = @ + IV_SIZE]

(* An iteration without input: select does not answer 1.                   *)
Idle(b) ==
    /\ Running(b)
    /\ output[b] # <<>>
    /\ g_iteration_number[b] < NR_ITERATIONS
    /\ symbolic_ready[g_iteration_number[b] + 1] = 0
    /\ g_iteration_number' = [g_iteration_number EXCEPT ![b] = @ + 1]
    /\ UNCHANGED <<inputs, drawn, frames, current_frame_count, output, output_idx, at, pc>>

DeliveredStale(b) ==   \* mutant
    LET g == g_iteration_number[b] IN symboic_can_frame[IF g = 0 THEN 1 ELSE g]

(* read: select has advanced g_iteration_number, the frame is the one of   *)
(* the iteration select answered for.                                      *)
Delivered(b) == symboic_can_frame[g_iteration_number[b] + 1]

BlockFull(n) == n >= BUFFER_SIZE

(* An iteration with a frame, which logging_handler stores.                *)
Iterate(b) ==
    LET n == current_frame_count[b] + 1
        f == [frames[b] EXCEPT ![n] = Delivered(b)]
    IN  /\ Running(b)
        /\ output[b] # <<>>
        /\ g_iteration_number[b] < NR_ITERATIONS
        /\ symbolic_ready[g_iteration_number[b] + 1] > 0
        /\ g_iteration_number' = [g_iteration_number EXCEPT ![b] = @ + 1]
        /\ IF BlockFull(n)
           THEN /\ WriteEncrypted(b, f, pc)
                /\ frames' = [frames EXCEPT ![b] = NoFrames]
                /\ current_frame_count' = [current_frame_count EXCEPT ![b] = 0]
           ELSE /\ frames' = [frames EXCEPT ![b] = f]
                /\ current_frame_count' = [current_frame_count EXCEPT ![b] = n]
                /\ UNCHANGED <<drawn, output, output_idx, pc>>
        /\ UNCHANGED <<inputs, at>>

(* terminate_logging_gracefully, and main returns.                         *)
Finish(b) ==
    /\ Running(b)
    /\ output[b] # <<>>
    /\ g_iteration_number[b] = NR_ITERATIONS
    /\ IF current_frame_count[b] > 0
       THEN WriteEncrypted(b, frames[b], Returned(b))
       ELSE pc' = Returned(b) /\ UNCHANGED <<drawn, output, output_idx>>
    /\ UNCHANGED <<inputs, g_iteration_number, frames, current_frame_count, at>>

-----------------------------------------------------------------------------
(* The comparison. *)

(* consume_file, once in each log, and then the assertions about what it   *)
(* found.  A length behind the end of the array is an invalid access.      *)
Readable(b) == at[b] <= Len(output[b]) \/ output_idx[b] + INT_SIZE <= OUTPUT_SIZE

ConsumeNothing(assertion, next) ==   \* mutant
    /\ pc' = IF assertion /\ \A b \in Builds : Readable(b) THEN next ELSE "aborted"
    /\ UNCHANGED <<inputs, ecu, at>>

Consume(assertion, next) ==
    /\ pc' = IF assertion /\ \A b \in Builds : Readable(b) THEN next ELSE "aborted"
    /\ at' = [b \in Builds |-> at[b] + 1]
    /\ UNCHANGED <<inputs, ecu>>

SameRecord(size) ==
    /\ Found("vuln").size = Found("patched").size
    /\ Found("vuln").size = size
    /\ Found("vuln").contents = Found("patched").contents

CheckKey ==
    /\ pc = "key"
    /\ Consume(SameRecord(KEY_SIZE), "iv")

CheckIV ==
    /\ pc = "iv"
    /\ Consume(SameRecord(IV_SIZE), "block")

(* What fake_aes_decrypt and fake_des_decrypt make of a block: they run    *)
(* over the first size - IV_SIZE bytes of it, with the key of that log.    *)
Decrypted(b) ==
    LET ciphertext == Found(b).contents
        decrypted  == {k \in DOMAIN ciphertext : k < Found(b).size - IV_SIZE}
    IN  FakeDecrypt(Rotation[b], [k \in decrypted |-> ciphertext[k]],
                    output[b][1].contents)

(* A block: the ciphertexts differ, the plaintexts do not.                 *)
CheckBlock ==
    /\ pc = "block"
    /\ Found("vuln").size # 0
    /\ Consume(/\ Found("patched").size = Found("vuln").size
               /\ Found("vuln").size = RECORD_SIZE
               /\ Found("vuln").contents # Found("patched").contents
               /\ Decrypted("patched") = Decrypted("vuln"),
               "next_iv")

CheckNextIV ==
    /\ pc = "next_iv"
    /\ Consume(SameRecord(IV_SIZE), "block")

(* Both logs end here.                                                     *)
EndOfLog ==
    /\ pc = "block"
    /\ Found("vuln").size = 0
    /\ Consume(Found("patched").size = 0, "done")

Main(b) == SetUp(b) \/ Idle(b) \/ Iterate(b) \/ Finish(b)

Compare == CheckKey \/ CheckIV \/ CheckBlock \/ CheckNextIV \/ EndOfLog

Next == (\E b \in Builds : Main(b)) \/ Compare

Spec == Init /\ [][Next]_vars

(* One sequential program.                                                 *)
FairSpec == Spec /\ WF_vars(Next)

-----------------------------------------------------------------------------
(* Safety. *)

(* No assertion of superglue.c or of the stubs fails, and no length is     *)
(* read behind the array: on every input the two builds write logs of the  *)
(* same shape whose blocks differ and decrypt to the same plaintext.  It   *)
(* is what the comparison is run to establish.                             *)
AssertionsHold == pc # "aborted"

(* The verdict is about every frame: when the comparison has ended, it has *)
(* been through both logs, and decrypting their blocks yields the frames   *)
(* that were ready, in their order and nothing else.                       *)
Rank(i) == Cardinality({j \in 1 .. i : symbolic_ready[j] > 0})

FrameRecord(n) == 3 + 2 * ((n - 1) \div BUFFER_SIZE)
FrameSlot(n)   == ((n - 1) % BUFFER_SIZE) + 1

ChecksEveryFrame ==
    pc = "done" => \A b \in Builds :
        /\ at[b] > Len(output[b])
        /\ Len(output[b]) = 2 + 2 * ((Rank(NR_ITERATIONS) + BUFFER_SIZE - 1) \div BUFFER_SIZE)
        /\ \A i \in Iterations :
               symbolic_ready[i] > 0 =>
                   FakeDecrypt(Rotation[b], output[b][FrameRecord(Rank(i))].contents,
                               output[b][1].contents)[FrameOffset(FrameSlot(Rank(i)))]
                       = symboic_can_frame[i]

(* The comparison comes to its end.                                        *)
Completes == <>(pc = "done")
=============================================================================
