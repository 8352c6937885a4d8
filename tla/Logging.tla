------------------------------- MODULE Logging -------------------------------
(***************************************************************************)
(* The encrypted CAN log of src/logging.c: frames are collected in an      *)
(* MBlock; a full block is encrypted, written, and the file buffer is      *)
(* flushed; what is left over is written when main ends.  The file is      *)
(*     key, iv, block, iv, block, iv, ...                                  *)
(* each block encrypted under the key and the iv that precedes it.         *)
(*                                                                         *)
(* The n-th frame received is the number n; a zeroed slot is 0.  Random    *)
(* bytes are numbers never drawn before.  A record stands for the two      *)
(* fwrites (length, contents) that put it into the file.                   *)
(***************************************************************************)
EXTENDS Integers, Sequences

CONSTANTS
    BUFFER_SIZE,       \* frames in an MBlock
    FLUSH_AT_RUNTIME,  \* 1: fflush after every block
    RX_MOD,            \* rx_counts is uint32_t: 2^32
    MAX_FRAMES         \* bound: frames a behaviour may receive

ASSUME LoggingAssumption ==
    /\ BUFFER_SIZE \in Nat \ {0}
    /\ RX_MOD \in Nat
    /\ BUFFER_SIZE < RX_MOD
    /\ MAX_FRAMES \in Nat

VARIABLES
    mblock,               \* the block being filled: frames, rx_counts[0], crc32
    current_frame_count,
    KEY, IV,
    drawn,                \* random values drawn so far
    file,                 \* records handed to stdio
    durable,              \* how many of them have reached the file itself
    received,             \* ghost: frames passed to logging_handler
    failed,               \* ghost: library calls that have failed so far
    pc

vars ==
    <<mblock, current_frame_count, KEY, IV, drawn, file, durable, received, failed, pc>>

-----------------------------------------------------------------------------
Slots == 1 .. BUFFER_SIZE

MBlock == [frames : [Slots -> Nat], rx_count : 0 .. RX_MOD - 1, crc : BOOLEAN]

NoFrames == [i \in Slots |-> 0]

Param(value) == [kind |-> "param", value |-> value]
Block(m)     == [kind |-> "block", mblock |-> m, key |-> KEY, iv |-> IV]
Garbled      == [kind |-> "garbled"]   \* a length or its contents is missing

Records ==
    [kind : {"param"}, value : Nat]
        \cup [kind : {"block"}, mblock : MBlock, key : Nat, iv : Nat]
        \cup {Garbled}

Running == {"setup_key", "setup_iv", "run", "full", "iv", "flush", "last_iv", "close"}
Ended   == {"closed", "exited", "crashed"}

TypeOK ==
    /\ mblock \in MBlock
    /\ current_frame_count \in 0 .. BUFFER_SIZE
    /\ KEY \in Nat
    /\ IV \in Nat
    /\ drawn \in Nat
    /\ file \in Seq(Records)
    /\ durable \in 0 .. Len(file)
    /\ received \in 0 .. MAX_FRAMES
    /\ failed \subseteq {"rand", "fwrite"}
    /\ pc \in Running \cup Ended

(* Statics: KEY and IV are zero until they are drawn. *)
Init ==
    /\ mblock = [frames |-> NoFrames, rx_count |-> 0, crc |-> FALSE]
    /\ current_frame_count = 0
    /\ KEY = 0
    /\ IV = 0
    /\ drawn = 0
    /\ file = <<>>
    /\ durable = 0
    /\ received = 0
    /\ failed = {}
    /\ pc = "setup_key"

-----------------------------------------------------------------------------
(* fwrite: a failure is reported and otherwise ignored.  before is what    *)
(* has failed by then.                                                     *)
Write(record, before) ==
    \/ file' = Append(file, record) /\ failed' = before
    \/ file' = Append(file, Garbled) /\ failed' = before \cup {"fwrite"}

(* fflush and fclose: nobody does more about a failure than print it.      *)
Flush ==
    \/ durable' = Len(file) /\ UNCHANGED failed
    \/ UNCHANGED durable /\ failed' = failed \cup {"fwrite"}

(* RAND_bytes.  0 ends the program (Crash); -1 passes the test for 0, and  *)
(* the old bytes stay.                                                     *)
InitializeWrite(old, new) ==
    \/ /\ new = drawn + 1
       /\ drawn' = drawn + 1
       /\ Write(Param(new), failed)
    \/ /\ new = old
       /\ UNCHANGED drawn
       /\ Write(Param(new), failed \cup {"rand"})

(* logging_setup. *)
SetupKey ==
    /\ pc = "setup_key"
    /\ KEY' \in {KEY, drawn + 1}
    /\ InitializeWrite(KEY, KEY')
    /\ pc' = "setup_iv"
    /\ UNCHANGED <<mblock, current_frame_count, IV, durable, received>>

RenewIVUnwritten(from, to) ==   \* mutant
    /\ pc = from
    /\ IV' = drawn + 1
    /\ drawn' = drawn + 1
    /\ Write(Param(IV), failed)
    /\ pc' = to
    /\ UNCHANGED <<mblock, current_frame_count, KEY, durable, received>>

RenewIVSame(from, to) ==   \* mutant
    /\ pc = from
    /\ Write(Param(IV), failed)
    /\ pc' = to
    /\ UNCHANGED <<mblock, current_frame_count, KEY, IV, drawn, durable, received>>

RenewIV(from, to) ==
    /\ pc = from
    /\ IV' \in {IV, drawn + 1}
    /\ InitializeWrite(IV, IV')
    /\ pc' = to
    /\ UNCHANGED <<mblock, current_frame_count, KEY, durable, received>>

SetupIV == RenewIV("setup_iv", "run")

-----------------------------------------------------------------------------
(* logging_handler. *)

(* The frame is stored and counted. *)
LogFrame ==
    /\ pc = "run"
    /\ received < MAX_FRAMES
    /\ mblock' = [mblock EXCEPT
                    !.frames[current_frame_count + 1] = received + 1,
                    !.rx_count = (@ + 1) % RX_MOD]
    /\ current_frame_count' = current_frame_count + 1
    /\ received' = received + 1
    /\ pc' = IF current_frame_count + 1 >= BUFFER_SIZE THEN "full" ELSE "run"
    /\ UNCHANGED <<failed, KEY, IV, drawn, file, durable>>

WriteFullBlockAfterReset ==   \* mutant
    /\ pc = "full"
    /\ mblock' = [mblock EXCEPT !.frames = NoFrames, !.crc = TRUE]
    /\ Write(Block(mblock'), failed)
    /\ pc' = "iv"
    /\ UNCHANGED <<current_frame_count, KEY, IV, drawn, durable, received>>

(* A full block: crc32, then write_encrypted, which ends with a new IV.    *)
WriteFullBlock ==
    /\ pc = "full"
    /\ mblock' = [mblock EXCEPT !.crc = TRUE]
    /\ Write(Block(mblock'), failed)
    /\ pc' = "iv"
    /\ UNCHANGED <<current_frame_count, KEY, IV, drawn, durable, received>>

FullBlockIV == RenewIV("iv", "flush")

RefreshKeepsCount ==   \* mutant
    /\ pc = "flush"
    /\ Flush
    /\ mblock' = [mblock EXCEPT !.frames = NoFrames, !.crc = FALSE]
    /\ current_frame_count' = current_frame_count
    /\ pc' = "run"
    /\ UNCHANGED <<KEY, IV, drawn, file, received>>

RefreshKeepsFrames ==   \* mutant
    /\ pc = "flush"
    /\ Flush
    /\ mblock' = [mblock EXCEPT !.crc = FALSE]
    /\ current_frame_count' = 0
    /\ pc' = "run"
    /\ UNCHANGED <<KEY, IV, drawn, file, received>>

RefreshResetsRxCount ==   \* mutant
    /\ pc = "flush"
    /\ Flush
    /\ mblock' = [frames |-> NoFrames, rx_count |-> 0, crc |-> FALSE]
    /\ current_frame_count' = 0
    /\ pc' = "run"
    /\ UNCHANGED <<KEY, IV, drawn, file, received>>

RefreshWithoutFlush ==   \* mutant
    /\ pc = "flush"
    /\ durable' = durable
    /\ mblock' = [mblock EXCEPT !.frames = NoFrames, !.crc = FALSE]
    /\ current_frame_count' = 0
    /\ pc' = "run"
    /\ UNCHANGED <<failed, KEY, IV, drawn, file, received>>

(* fflush, which may fail as fwrite does, and reset_mblock.                *)
Refresh ==
    /\ pc = "flush"
    /\ IF FLUSH_AT_RUNTIME = 1 THEN Flush ELSE UNCHANGED <<durable, failed>>
    /\ mblock' = [mblock EXCEPT !.frames = NoFrames, !.crc = FALSE]
    /\ current_frame_count' = 0
    /\ pc' = "run"
    /\ UNCHANGED <<KEY, IV, drawn, file, received>>

-----------------------------------------------------------------------------
(* terminate_logging_gracefully, after the last iteration of main.         *)
WriteRemainder ==
    /\ pc = "run"
    /\ current_frame_count > 0
    /\ Write(Block(mblock), failed)
    /\ pc' = "last_iv"
    /\ UNCHANGED <<mblock, current_frame_count, KEY, IV, drawn, durable, received>>

NoRemainderDropsFrames ==   \* mutant
    /\ pc = "run"
    /\ pc' = "close"
    /\ UNCHANGED <<failed, mblock, current_frame_count, KEY, IV, drawn, file, durable, received>>

NoRemainder ==
    /\ pc = "run"
    /\ current_frame_count = 0
    /\ pc' = "close"
    /\ UNCHANGED <<failed, mblock, current_frame_count, KEY, IV, drawn, file, durable, received>>

LastIV == RenewIV("last_iv", "close")

(* fclose; it flushes, and nobody looks at its result.                     *)
Close ==
    /\ pc = "close"
    /\ Flush
    /\ pc' = "closed"
    /\ UNCHANGED <<mblock, current_frame_count, KEY, IV, drawn, file, received>>

Terminate == WriteRemainder \/ NoRemainder

-----------------------------------------------------------------------------
(* main returns on a failed read, or err(1) after a failed write: stdio is *)
(* flushed at exit, terminate_logging_gracefully is not called.            *)
ErrorExit ==
    /\ pc = "run"
    /\ Flush
    /\ pc' = "exited"
    /\ UNCHANGED <<mblock, current_frame_count, KEY, IV, drawn, file, received>>

(* The process dies: a signal, a null wfd or buffer, handleErrors.  What   *)
(* stdio still holds is gone.                                              *)
Crash ==
    /\ pc \in Running
    /\ pc' = "crashed"
    /\ UNCHANGED <<failed, mblock, current_frame_count, KEY, IV, drawn, file, durable, received>>

(* stdio empties its buffer on its own account.                            *)
Spill ==
    /\ pc \in Running
    /\ durable' \in durable .. Len(file)
    /\ UNCHANGED <<failed, mblock, current_frame_count, KEY, IV, drawn, file, received, pc>>

LoggingSetup == SetupKey \/ SetupIV

LoggingHandler == LogFrame \/ WriteFullBlock \/ FullBlockIV \/ Refresh

TerminateGracefully == Terminate \/ LastIV \/ Close

Next ==
    \/ LoggingSetup
    \/ LoggingHandler
    \/ TerminateGracefully
    \/ ErrorExit
    \/ Crash
    \/ Spill

Spec == Init /\ [][Next]_vars
-----------------------------------------------------------------------------
(* What a reader of the first n records finds. *)

BlocksIn(n) == {k \in 1 .. n : file[k].kind = "block"}

FramesAt(k) == {file[k].mblock.frames[i] : i \in Slots} \ {0}

FramesLogged(n) == UNION {FramesAt(k) : k \in BlocksIn(n)}

(* The frames of mblock that count.                                        *)
Pending == {mblock.frames[i] : i \in 1 .. current_frame_count}

(* No record up to the k-th was damaged by a failed fwrite.                *)
Clean(k) == \A j \in 1 .. k : file[j] # Garbled

-----------------------------------------------------------------------------
(* Safety. *)

(* Every block can be decrypted by a reader who only has the file: the     *)
(* first record is its key and the record just before it is its iv, also   *)
(* when RAND_bytes left old bytes, and up to the first failed fwrite.      *)
Decryptable ==
    \A k \in BlocksIn(Len(file)) :
        Clean(k) => /\ k > 2
                    /\ file[1] = Param(file[k].key)
                    /\ file[k - 1] = Param(file[k].iv)

(* The blocks hold the received frames in their order, each once, none     *)
(* left over from the block before (reset_mblock), however the last block  *)
(* came to be written.                                                     *)
FramesInOrder ==
    \A k \in BlocksIn(Len(file)), i \in Slots :
        2 * file[k].mblock.frames[i] \in {0, (k - 3) * BUFFER_SIZE + 2 * i}

(* Only the last block may be partly filled, and the reader can tell how   *)
(* many of its frames count: by how far rx_counts, which reset_mblock      *)
(* spares and which wraps, has moved since the block before.               *)
RxCountTellsFrames ==
    \A k \in BlocksIn(Len(file)) :
        Clean(k) =>
            LET before == IF k = 3 THEN 0 ELSE file[k - 2].mblock.rx_count
                moved  == (RX_MOD + file[k].mblock.rx_count - before) % RX_MOD
            IN  {i \in Slots : file[k].mblock.frames[i] # 0} = 1 .. moved

(* While the program runs and no fwrite fails, every frame received is in  *)
(* a block of the file or still in mblock.                                 *)
NothingLost ==
    "fwrite" \notin failed => FramesLogged(Len(file)) \cup Pending = 1 .. received

(* Whenever the process dies, the file itself lacks no more frames than    *)
(* one block holds: the flush is done before the next frame is taken.      *)
BoundedLoss ==
    FLUSH_AT_RUNTIME = 1 /\ "fwrite" \notin failed =>
        \A n \in 1 .. received : n + BUFFER_SIZE <= received => n \in FramesLogged(durable)

(* No two blocks are encrypted under the same iv.                          *)
FreshIVs ==
    "rand" \notin failed =>
        \A j, k \in BlocksIn(Len(file)) : file[j].iv = file[k].iv => j = k

(* After terminate_logging_gracefully every frame received is in the file. *)
CompleteAfterClose ==
    pc = "closed" /\ "fwrite" \notin failed => FramesLogged(durable) = 1 .. received

-----------------------------------------------------------------------------
(* The inductive invariant. *)

(* The buffer: the frames since the last reset, then zeros.                *)
BufferInv ==
    /\ current_frame_count <= received
    /\ \A i \in Slots :
           mblock.frames[i] = IF i <= current_frame_count
                              THEN received - current_frame_count + i
                              ELSE 0
    /\ pc = "run" => current_frame_count < BUFFER_SIZE
    /\ pc \in {"full", "iv", "flush"} => current_frame_count = BUFFER_SIZE
    /\ pc \in {"setup_key", "setup_iv"} => received = 0

(* What the next block will find before it in the file.                    *)
ParamsInv ==
    /\ pc = "setup_key" => Len(file) = 0
    /\ pc = "setup_iv" => Len(file) = 1
    /\ pc \in Running \ {"setup_key"}
         => Len(file) >= 1 /\ file[1] \in {Param(KEY), Garbled}
    /\ pc \in {"run", "full", "flush"}
         => Len(file) >= 2 /\ file[Len(file)] \in {Param(IV), Garbled}

(* Where the next block goes, in frames: two records per block so far.     *)
PlaceInv ==
    LET before == 2 * (received - current_frame_count) IN
    /\ pc \in {"run", "full"} => before = (Len(file) - 2) * BUFFER_SIZE
    /\ pc = "iv" => Len(file) >= 3 /\ before = (Len(file) - 3) * BUFFER_SIZE
    /\ pc = "flush" => Len(file) >= 4 /\ before = (Len(file) - 4) * BUFFER_SIZE

(* How far the file is with the frames.                                    *)
SavedInv ==
    "fwrite" \notin failed =>
        /\ FramesLogged(Len(file)) \cup Pending = 1 .. received
        /\ pc \in {"iv", "flush", "last_iv", "close", "closed"}
             => FramesLogged(Len(file)) = 1 .. received
        /\ pc = "closed" => durable = Len(file)
        /\ FLUSH_AT_RUNTIME = 1
             => \A n \in 1 .. received :
                    n + current_frame_count <= received => n \in FramesLogged(durable)

(* Ivs grow with every draw.                                               *)
IVInv ==
    "rand" \notin failed =>
        /\ IV <= drawn
        /\ \A k \in BlocksIn(Len(file)) :
               /\ file[k].iv <= drawn
               /\ pc \in {"run", "full", "flush"} => file[k].iv # IV

(* What rx_counts says, in mblock and in the last block of the file.       *)
HasRxCount(k, count) ==
    Clean(k) => file[k].kind = "block" /\ file[k].mblock.rx_count = count % RX_MOD

RxInv ==
    /\ mblock.rx_count = received % RX_MOD
    /\ pc \in {"run", "full"} /\ Len(file) > 2
         => HasRxCount(Len(file) - 1, received - current_frame_count)
    /\ pc = "iv" => HasRxCount(Len(file), received)
    /\ pc = "flush" => HasRxCount(Len(file) - 1, received)

IInv ==
    /\ TypeOK
    /\ BufferInv
    /\ ParamsInv
    /\ PlaceInv
    /\ SavedInv
    /\ IVInv
    /\ RxInv
    /\ Decryptable
    /\ FramesInOrder
    /\ FreshIVs
    /\ RxCountTellsFrames

-----------------------------------------------------------------------------
(* What the documentation says and the code does not do. *)

(* Comment of terminate_logging_gracefully: "Call on program exit, will    *)
(* close file properly, ensuring all data is logged out": when main has    *)
(* ended, every frame received is in the file.                             *)
AllLoggedOnExit ==
    pc \in {"closed", "exited"} /\ failed = {}
        => FramesLogged(durable) = 1 .. received
=============================================================================
