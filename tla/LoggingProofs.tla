---------------------------- MODULE LoggingProofs ----------------------------
(***************************************************************************)
(* Theorems about Logging for every block size, wrap of rx_counts, length  *)
(* of the log and failure of a library call.                               *)
(***************************************************************************)
EXTENDS Logging, TLAPS

USE LoggingAssumption

(* What Append does, in the terms the invariant uses. *)
LEMMA AppendFacts ==
    ASSUME NEW S, NEW s \in Seq(S), NEW r \in S
    PROVE  /\ Append(s, r) \in Seq(S)
           /\ Len(Append(s, r)) = Len(s) + 1
           /\ Len(s) \in Nat
           /\ \A k \in 1 .. Len(s) : Append(s, r)[k] = s[k]
           /\ Append(s, r)[Len(s) + 1] = r
  OBVIOUS

-----------------------------------------------------------------------------
(* Types. *)

LEMMA BlockTypes ==
    ASSUME NEW m \in MBlock, KEY \in Nat, IV \in Nat
    PROVE  /\ Block(m) \in Records
           /\ Block(m).kind = "block"
           /\ Block(m).mblock = m
           /\ Block(m).key = KEY
           /\ Block(m).iv = IV
           /\ Block(m) # Garbled
  BY DEF Block, Records, Garbled

LEMMA ParamTypes ==
    ASSUME NEW v \in Nat
    PROVE  Param(v) \in Records /\ Param(v).kind = "param" /\ Param(v) # Garbled
  BY DEF Param, Records, Garbled

LEMMA GarbledType == Garbled \in Records /\ Garbled.kind = "garbled"
  BY DEF Garbled, Records

LEMMA ModType == \A n \in Nat : n % RX_MOD \in 0 .. RX_MOD - 1
  OBVIOUS

(* The steps write after RAND_bytes has failed or without it.              *)
Wrote(r) == \E before \in {failed, failed \cup {"rand"}} : Write(r, before)

(* What that does to the file: one record more, the given one or a garbled *)
(* one; and a failure is remembered.                                       *)
LEMMA WriteFacts ==
    ASSUME file \in Seq(Records), NEW r \in Records, Wrote(r)
    PROVE  /\ file' \in Seq(Records)
           /\ Len(file) \in Nat
           /\ Len(file') = Len(file) + 1
           /\ \A k \in 1 .. Len(file) : file'[k] = file[k]
           /\ file'[Len(file) + 1] \in {r, Garbled}
           /\ "fwrite" \notin failed' => file'[Len(file) + 1] = r
           /\ failed \subseteq failed'
           /\ failed' \subseteq failed \cup {"rand", "fwrite"}
<1>1. file' \in {Append(file, r), Append(file, Garbled)}
  BY DEF Wrote, Write
<1>2. "fwrite" \notin failed' => file' = Append(file, r)
  BY DEF Wrote, Write
<1>3. failed \subseteq failed' /\ failed' \subseteq failed \cup {"rand", "fwrite"}
  BY DEF Wrote, Write
<1> QED BY <1>1, <1>2, <1>3, AppendFacts, GarbledType

LEMMA FlushFacts ==
    ASSUME TypeOK, Flush
    PROVE  /\ durable' \in 0 .. Len(file) /\ durable' \in {durable, Len(file)}
           /\ failed \subseteq failed' /\ failed' \subseteq {"rand", "fwrite"}
           /\ "fwrite" \notin failed' => durable' = Len(file)
<1>1. Len(file) \in Nat /\ durable \in 0 .. Len(file) /\ failed \subseteq {"rand", "fwrite"}
  BY DEF TypeOK
<1>2. CASE durable' = Len(file) /\ UNCHANGED failed
  BY <1>1, <1>2
<1>3. CASE UNCHANGED durable /\ failed' = failed \cup {"fwrite"}
  BY <1>1, <1>3
<1> QED BY <1>2, <1>3 DEF Flush

LEMMA MBlockFields ==
    ASSUME TypeOK
    PROVE  /\ mblock.frames \in [Slots -> Nat]
           /\ mblock.rx_count \in 0 .. RX_MOD - 1
           /\ mblock.rx_count + 1 \in Nat
           /\ mblock.crc \in BOOLEAN
<1>1. mblock \in [frames : [Slots -> Nat], rx_count : 0 .. RX_MOD - 1, crc : BOOLEAN]
  BY Zenon DEF TypeOK, MBlock
<1>2. /\ mblock.frames \in [Slots -> Nat]
      /\ mblock.rx_count \in 0 .. RX_MOD - 1
      /\ mblock.crc \in BOOLEAN
  BY <1>1, Zenon
<1> QED BY <1>2

(* A parameter drawn and written. *)
LEMMA DrawnFacts ==
    ASSUME TypeOK, NEW old \in Nat, NEW new \in Nat, InitializeWrite(old, new)
    PROVE  /\ drawn' \in Nat
           /\ Wrote(Param(new))
           /\ "rand" \notin failed' => new = drawn + 1 /\ drawn' = drawn + 1
<1>1. drawn \in Nat
  BY DEF TypeOK
<1>2. Wrote(Param(new))
  BY DEF InitializeWrite, Wrote
<1> QED BY <1>1, <1>2 DEF InitializeWrite, Write

LEMMA SetupKeyFacts ==
    ASSUME TypeOK, SetupKey
    PROVE  /\ KEY' \in Nat
           /\ Param(KEY') \in Records
           /\ drawn' \in Nat /\ drawn' >= drawn
           /\ Wrote(Param(KEY'))
<1>1. KEY \in Nat /\ drawn \in Nat /\ KEY' \in Nat /\ InitializeWrite(KEY, KEY')
  BY DEF TypeOK, SetupKey
<1>2. drawn' \in {drawn, drawn + 1}
  BY <1>1 DEF InitializeWrite
<1>3. ASSUME NEW v \in Nat, InitializeWrite(KEY, v)
      PROVE  Wrote(Param(v))
  BY <1>1, <1>3, DrawnFacts
<1> QED BY <1>1, <1>2, <1>3, ParamTypes

LEMMA RenewIVFacts ==
    ASSUME TypeOK, NEW from, NEW to, RenewIV(from, to)
    PROVE  /\ IV' \in Nat
           /\ Param(IV') \in Records
           /\ drawn' \in Nat
           /\ Wrote(Param(IV'))
           /\ "rand" \notin failed' => IV' = drawn + 1 /\ drawn' = drawn + 1
<1>1. IV \in Nat /\ drawn \in Nat /\ IV' \in Nat /\ InitializeWrite(IV, IV')
  BY DEF TypeOK, RenewIV
<1>2. ASSUME NEW v \in Nat, InitializeWrite(IV, v)
      PROVE  /\ drawn' \in Nat
             /\ Wrote(Param(v))
             /\ "rand" \notin failed' => v = drawn + 1 /\ drawn' = drawn + 1
  BY <1>1, <1>2, DrawnFacts
<1> QED BY <1>1, <1>2, ParamTypes

LEMMA NoFramesType == NoFrames \in [Slots -> Nat]
  BY DEF NoFrames

-----------------------------------------------------------------------------
(* The type invariant needs the buffer invariant: the index of the next    *)
(* frame is inside mblock.frames.                                          *)
LEMMA TypeStep ==
    ASSUME TypeOK, BufferInv, [Next]_vars
    PROVE  TypeOK'
<1> USE DEF TypeOK
<1>0. failed \subseteq {"rand", "fwrite"}
  OBVIOUS
<1>1. CASE SetupKey
  <2>1. /\ file' \in Seq(Records) /\ Len(file') = Len(file) + 1 /\ Len(file) \in Nat
        /\ failed' \subseteq {"rand", "fwrite"}
    BY <1>0, <1>1, SetupKeyFacts, WriteFacts
  <2> QED BY <1>1, <2>1, SetupKeyFacts DEF SetupKey, Running
<1>2. ASSUME NEW from, NEW to \in Running, RenewIV(from, to)
      PROVE  TypeOK'
  <2>1. /\ file' \in Seq(Records) /\ Len(file') = Len(file) + 1 /\ Len(file) \in Nat
        /\ failed' \subseteq {"rand", "fwrite"}
    BY <1>0, <1>2, RenewIVFacts, WriteFacts
  <2> QED BY <1>2, <2>1, RenewIVFacts DEF RenewIV
<1>3. CASE LogFrame
  <2>1. mblock' \in MBlock
    <3>1. current_frame_count + 1 \in Slots
      BY <1>3 DEF LogFrame, BufferInv, Slots
    <3>2. [mblock.frames EXCEPT ![current_frame_count + 1] = received + 1] \in [Slots -> Nat]
      BY <3>1, MBlockFields
    <3>3. (mblock.rx_count + 1) % RX_MOD \in 0 .. RX_MOD - 1
      BY MBlockFields, ModType
    <3>4. mblock' = [frames |-> [mblock.frames EXCEPT ![current_frame_count + 1] = received + 1],
                     rx_count |-> (mblock.rx_count + 1) % RX_MOD,
                     crc |-> mblock.crc]
      BY <1>3 DEF LogFrame, MBlock
    <3>5. mblock.crc \in BOOLEAN
      BY MBlockFields
    <3> QED BY <3>2, <3>3, <3>4, <3>5, ZenonT(60) DEF MBlock
  <2> QED BY <1>3, <2>1 DEF LogFrame, BufferInv, Running
<1>4. CASE WriteFullBlock
  <2>1. mblock' \in MBlock
    BY <1>4, Zenon DEF WriteFullBlock, MBlock
  <2>2. /\ file' \in Seq(Records) /\ Len(file') = Len(file) + 1 /\ Len(file) \in Nat
        /\ failed' \subseteq {"rand", "fwrite"}
    <3>1. \A m \in MBlock : Block(m) \in Records
      BY BlockTypes
    <3>2. Wrote(Block(mblock'))
      BY <1>4 DEF WriteFullBlock, Wrote
    <3> QED BY <1>0, <2>1, <3>1, <3>2, WriteFacts
  <2> QED BY <1>4, <2>1, <2>2 DEF WriteFullBlock, Running
<1>5. CASE Refresh
  <2>1. mblock' \in MBlock
    <3>1. mblock' = [frames |-> NoFrames, rx_count |-> mblock.rx_count, crc |-> FALSE]
      BY <1>5 DEF Refresh, MBlock
    <3>2. mblock.rx_count \in 0 .. RX_MOD - 1
      BY MBlockFields
    <3> QED BY <3>1, <3>2, NoFramesType, ZenonT(60) DEF MBlock
  <2>2. durable' \in 0 .. Len(file) /\ failed' \subseteq {"rand", "fwrite"}
    BY <1>5 DEF Refresh, Flush
  <2> QED BY <1>5, <2>1, <2>2 DEF Refresh, Running
<1>6. CASE WriteRemainder
  <2>1. /\ file' \in Seq(Records) /\ Len(file') = Len(file) + 1 /\ Len(file) \in Nat
        /\ failed' \subseteq {"rand", "fwrite"}
    BY <1>0, <1>6, BlockTypes, WriteFacts DEF WriteRemainder, Wrote
  <2> QED BY <1>6, <2>1 DEF WriteRemainder, Running
<1>7. CASE NoRemainder
  BY <1>7 DEF NoRemainder, Running
<1>8. CASE Close
  BY <1>8, FlushFacts DEF Close, Ended
<1>9. CASE ErrorExit
  BY <1>9, FlushFacts DEF ErrorExit, Ended
<1>10. CASE Crash
  BY <1>10 DEF Crash, Ended
<1>11. CASE Spill
  BY <1>11 DEF Spill
<1>12. CASE UNCHANGED vars
  BY <1>12 DEF vars
<1> QED
  BY <1>1, <1>2, <1>3, <1>4, <1>5, <1>6, <1>7, <1>8, <1>9, <1>10, <1>11, <1>12
  DEF Next, LoggingSetup, LoggingHandler, TerminateGracefully, Terminate,
      SetupIV, FullBlockIV, LastIV, Running

-----------------------------------------------------------------------------
(* The buffer. *)
LEMMA BufferStep ==
    ASSUME TypeOK, BufferInv, [Next]_vars
    PROVE  BufferInv'
<1> USE DEF BufferInv
<1>0. current_frame_count \in Nat /\ received \in Nat
  BY DEF TypeOK
<1>1. CASE SetupKey
  BY <1>1 DEF SetupKey
<1>2. ASSUME NEW from, NEW to, RenewIV(from, to),
             <<from, to>> \in {<<"setup_iv", "run">>, <<"iv", "flush">>, <<"last_iv", "close">>}
      PROVE  BufferInv'
  BY <1>0, <1>2 DEF RenewIV
<1>3. CASE LogFrame
  <2>1. current_frame_count < BUFFER_SIZE /\ current_frame_count + 1 \in Slots
    BY <1>0, <1>3 DEF LogFrame, Slots
  <2>2. mblock'.frames = [mblock.frames EXCEPT ![current_frame_count + 1] = received + 1]
    BY <1>3, MBlockFields DEF LogFrame, TypeOK, MBlock
  <2>3. \A i \in Slots : mblock'.frames[i] = IF i = current_frame_count + 1
                                              THEN received + 1
                                              ELSE mblock.frames[i]
    BY <2>2, MBlockFields
  <2>4. /\ current_frame_count' = current_frame_count + 1
        /\ received' = received + 1
        /\ pc' = IF current_frame_count + 1 >= BUFFER_SIZE THEN "full" ELSE "run"
    BY <1>3 DEF LogFrame
  <2>5. ASSUME NEW i \in Slots
        PROVE  mblock'.frames[i] = IF i <= current_frame_count'
                                   THEN received' - current_frame_count' + i
                                   ELSE 0
    BY <1>0, <2>3, <2>4, <2>5 DEF Slots
  <2> QED BY <1>0, <2>1, <2>4, <2>5
<1>4. CASE WriteFullBlock
  <2>1. mblock'.frames = mblock.frames
    BY <1>4, Zenon DEF WriteFullBlock, TypeOK, MBlock
  <2> QED BY <1>4, <2>1 DEF WriteFullBlock
<1>5. CASE Refresh
  <2>1. mblock'.frames = NoFrames
    BY <1>5 DEF Refresh, TypeOK, MBlock
  <2> QED BY <1>0, <1>5, <2>1 DEF Refresh, NoFrames, Slots
<1>6. CASE WriteRemainder
  BY <1>6 DEF WriteRemainder
<1>7. CASE NoRemainder
  BY <1>7 DEF NoRemainder
<1>8. CASE Close
  BY <1>8 DEF Close
<1>9. CASE ErrorExit
  BY <1>9 DEF ErrorExit
<1>10. CASE Crash
  BY <1>10 DEF Crash
<1>11. CASE Spill
  BY <1>11 DEF Spill
<1>12. CASE UNCHANGED vars
  BY <1>12 DEF vars
<1> QED
  BY <1>1, <1>2, <1>3, <1>4, <1>5, <1>6, <1>7, <1>8, <1>9, <1>10, <1>11, <1>12
  DEF Next, LoggingSetup, LoggingHandler, TerminateGracefully, Terminate,
      SetupIV, FullBlockIV, LastIV

-----------------------------------------------------------------------------
(* The parameters of the next block. *)
LEMMA ParamsStep ==
    ASSUME TypeOK, BufferInv, ParamsInv, [Next]_vars
    PROVE  ParamsInv'
<1> USE DEF ParamsInv, Running
<1>0. file \in Seq(Records) /\ Len(file) \in Nat /\ mblock \in MBlock
  BY DEF TypeOK
<1>1. CASE SetupKey
  BY <1>0, <1>1, SetupKeyFacts, WriteFacts DEF SetupKey, Param
<1>2. ASSUME NEW from, NEW to, RenewIV(from, to), from \in Running,
             <<from, to>> \in {<<"setup_iv", "run">>, <<"iv", "flush">>, <<"last_iv", "close">>}
      PROVE  ParamsInv'
  <2>1. /\ pc = from /\ pc' = to /\ KEY' = KEY
        /\ from \in {"setup_iv", "iv", "last_iv"}
        /\ to \in {"run", "flush", "close"}
    BY <1>2 DEF RenewIV
  <2>2. /\ Len(file') = Len(file) + 1
        /\ \A k \in 1 .. Len(file) : file'[k] = file[k]
        /\ file'[Len(file) + 1] \in {Param(IV'), Garbled}
    BY <1>0, <1>2, RenewIVFacts, WriteFacts
  <2>3. file[1] \in {Param(KEY), Garbled}
    BY <2>1
  <2>4. Len(file) >= 1
    BY <2>1
  <2>5. file'[1] \in {Param(KEY'), Garbled}
    BY <1>0, <2>1, <2>2, <2>3, <2>4 DEF Param
  <2>6. file'[Len(file')] \in {Param(IV'), Garbled}
    BY <2>2
  <2>7. Len(file') >= 2
    BY <1>0, <2>2, <2>4
  <2> QED BY <2>1, <2>5, <2>6, <2>7 DEF Param
<1>3. CASE LogFrame
  BY <1>3 DEF LogFrame, Param
<1>4. CASE WriteFullBlock
  <2>1. mblock' \in MBlock
    BY TypeStep DEF TypeOK
  <2>2. Block(mblock') \in Records /\ Wrote(Block(mblock'))
    BY <1>4, <2>1, BlockTypes DEF TypeOK, WriteFullBlock, Wrote
  <2> QED BY <1>0, <1>4, <2>2, WriteFacts DEF WriteFullBlock, Param
<1>5. CASE Refresh
  BY <1>5 DEF Refresh, Param
<1>6. CASE WriteRemainder
  <2>1. Block(mblock) \in Records /\ Wrote(Block(mblock))
    BY <1>0, <1>6, BlockTypes DEF TypeOK, WriteRemainder, Wrote
  <2> QED BY <1>0, <1>6, <2>1, WriteFacts DEF WriteRemainder, Param
<1>7. CASE NoRemainder
  BY <1>7 DEF NoRemainder, Param
<1>8. CASE Close
  BY <1>8 DEF Close
<1>9. CASE ErrorExit
  BY <1>9 DEF ErrorExit
<1>10. CASE Crash
  BY <1>10 DEF Crash
<1>11. CASE Spill
  BY <1>11 DEF Spill, Param
<1>12. CASE UNCHANGED vars
  BY <1>12 DEF vars, Param
<1> QED
  BY <1>1, <1>2, <1>3, <1>4, <1>5, <1>6, <1>7, <1>8, <1>9, <1>10, <1>11, <1>12
  DEF Next, LoggingSetup, LoggingHandler, TerminateGracefully, Terminate,
      SetupIV, FullBlockIV, LastIV

-----------------------------------------------------------------------------
(* The place of the next block. *)
LEMMA PlaceStep ==
    ASSUME TypeOK, BufferInv, ParamsInv, PlaceInv, [Next]_vars
    PROVE  PlaceInv'
<1> USE DEF PlaceInv
<1>0. /\ file \in Seq(Records) /\ Len(file) \in Nat
      /\ mblock \in MBlock
      /\ received \in Nat /\ current_frame_count \in Nat
  BY DEF TypeOK
<1>1. CASE SetupKey
  BY <1>1 DEF SetupKey
<1>2. CASE SetupIV
  <2>1. Len(file) = 1 /\ received = 0 /\ current_frame_count = 0
    BY <1>0, <1>2 DEF SetupIV, RenewIV, ParamsInv, BufferInv
  <2>2. Len(file') = 2
    BY <1>0, <1>2, <2>1, RenewIVFacts, WriteFacts DEF SetupIV
  <2> QED BY <1>2, <2>1, <2>2 DEF SetupIV, RenewIV
<1>3. CASE FullBlockIV
  <2>1. Len(file') = Len(file) + 1
    BY <1>0, <1>3, RenewIVFacts, WriteFacts DEF FullBlockIV
  <2> QED BY <1>0, <1>3, <2>1 DEF FullBlockIV, RenewIV
<1>4. CASE LogFrame
  BY <1>0, <1>4 DEF LogFrame
<1>5. CASE WriteFullBlock
  <2>1. mblock' \in MBlock
    BY TypeStep DEF TypeOK
  <2>2. Block(mblock') \in Records /\ Wrote(Block(mblock'))
    BY <1>5, <2>1, BlockTypes DEF TypeOK, WriteFullBlock, Wrote
  <2>3. Len(file') = Len(file) + 1 /\ Len(file) >= 2
    BY <1>0, <1>5, <2>2, WriteFacts DEF WriteFullBlock, ParamsInv
  <2> QED BY <1>0, <1>5, <2>3 DEF WriteFullBlock
<1>6. CASE Refresh
  <2>1. /\ Len(file) >= 4
        /\ 2 * (received - current_frame_count) = (Len(file) - 4) * BUFFER_SIZE
        /\ current_frame_count = BUFFER_SIZE
    BY <1>6 DEF Refresh, BufferInv
  <2>2. (Len(file) - 2) * BUFFER_SIZE = (Len(file) - 4) * BUFFER_SIZE + 2 * BUFFER_SIZE
    BY <1>0
  <2>3. 2 * received = (Len(file) - 2) * BUFFER_SIZE
    <3>1. 2 * (received - BUFFER_SIZE) = 2 * received - 2 * BUFFER_SIZE
      BY <1>0
    <3>2. (Len(file) - 4) * BUFFER_SIZE \in Int
      BY <1>0
    <3> QED BY <1>0, <2>1, <2>2, <3>1, <3>2
  <2> QED BY <1>0, <1>6, <2>3 DEF Refresh
<1>7. CASE WriteRemainder \/ LastIV \/ Close \/ ErrorExit \/ Crash
  BY <1>7 DEF WriteRemainder, LastIV, RenewIV, Close, ErrorExit, Crash
<1>8. CASE NoRemainder
  BY <1>8 DEF NoRemainder
<1>9. CASE Spill
  BY <1>9 DEF Spill
<1>10. CASE UNCHANGED vars
  BY <1>10 DEF vars
<1> QED
  BY <1>1, <1>2, <1>3, <1>4, <1>5, <1>6, <1>7, <1>8, <1>9, <1>10
  DEF Next, LoggingSetup, LoggingHandler, TerminateGracefully, Terminate

-----------------------------------------------------------------------------
(* What a record more means for the blocks of the file. *)
LEMMA ParamAppended ==
    ASSUME TypeOK, NEW r \in Records, r.kind = "param", Wrote(r)
    PROVE  /\ BlocksIn(Len(file))' = BlocksIn(Len(file))
           /\ \A k \in BlocksIn(Len(file)) : k \in 1 .. Len(file)
           /\ \A k \in 1 .. Len(file) : file'[k] = file[k]
<1>1. file \in Seq(Records)
  BY DEF TypeOK
<1>2. /\ Len(file') = Len(file) + 1 /\ Len(file) \in Nat
      /\ \A k \in 1 .. Len(file) : file'[k] = file[k]
      /\ file'[Len(file) + 1] \in {r, Garbled}
  BY <1>1, WriteFacts
<1>3. file'[Len(file) + 1].kind # "block"
  BY <1>2, GarbledType
<1> QED BY <1>2, <1>3 DEF BlocksIn

LEMMA BlockAppended ==
    ASSUME TypeOK, NEW r \in Records, r.kind = "block", Wrote(r)
    PROVE  /\ BlocksIn(Len(file))' \subseteq BlocksIn(Len(file)) \cup {Len(file) + 1}
           /\ \A k \in BlocksIn(Len(file)) : k \in 1 .. Len(file)
           /\ \A k \in 1 .. Len(file) : file'[k] = file[k]
           /\ Len(file) + 1 \in BlocksIn(Len(file))' => file'[Len(file) + 1] = r
           /\ "fwrite" \notin failed'
                => /\ BlocksIn(Len(file))' = BlocksIn(Len(file)) \cup {Len(file) + 1}
                   /\ file'[Len(file) + 1] = r
<1>1. file \in Seq(Records)
  BY DEF TypeOK
<1>2. /\ Len(file') = Len(file) + 1 /\ Len(file) \in Nat
      /\ \A k \in 1 .. Len(file) : file'[k] = file[k]
      /\ file'[Len(file) + 1] \in {r, Garbled}
      /\ "fwrite" \notin failed' => file'[Len(file) + 1] = r
  BY <1>1, WriteFacts
<1>3. Len(file) + 1 \in BlocksIn(Len(file))' => file'[Len(file) + 1] = r
  BY <1>2, GarbledType DEF BlocksIn
<1> QED BY <1>2, <1>3 DEF BlocksIn

(* What each step does to the file: nothing, a parameter more, or a block  *)
(* more, made of mblock under the current key and iv.                      *)
FileSame == file' = file

FileParam ==
    /\ BlocksIn(Len(file))' = BlocksIn(Len(file))
    /\ \A k \in BlocksIn(Len(file)) : k \in 1 .. Len(file)
    /\ \A k \in 1 .. Len(file) : file'[k] = file[k]

FileBlock ==
    /\ pc \in {"run", "full"}
    /\ pc' \in {"last_iv", "iv"}
    /\ mblock'.frames = mblock.frames
    /\ mblock'.rx_count = mblock.rx_count
    /\ UNCHANGED <<current_frame_count, KEY, IV, drawn, durable, received>>
    /\ BlocksIn(Len(file))' \subseteq BlocksIn(Len(file)) \cup {Len(file) + 1}
    /\ \A k \in BlocksIn(Len(file)) : k \in 1 .. Len(file)
    /\ \A k \in 1 .. Len(file) : file'[k] = file[k]
    /\ Len(file) + 1 \in BlocksIn(Len(file))' => file'[Len(file) + 1] = Block(mblock')
    /\ "fwrite" \notin failed'
         => /\ BlocksIn(Len(file))' = BlocksIn(Len(file)) \cup {Len(file) + 1}
            /\ file'[Len(file) + 1] = Block(mblock')

LEMMA SetupKeyAppends ==
    ASSUME TypeOK, SetupKey
    PROVE  FileParam
  BY SetupKeyFacts, ParamTypes, ParamAppended DEF FileParam

LEMMA RenewIVAppends ==
    ASSUME TypeOK, NEW from, NEW to, RenewIV(from, to)
    PROVE  FileParam
  BY RenewIVFacts, ParamTypes, ParamAppended DEF FileParam

LEMMA BlockSteps ==
    ASSUME TypeOK, TypeOK', WriteFullBlock \/ WriteRemainder
    PROVE  FileBlock
<1>1. /\ mblock' \in MBlock
      /\ Wrote(Block(mblock'))
  BY DEF TypeOK, WriteFullBlock, WriteRemainder, Block, Wrote
<1>2. Block(mblock') \in Records /\ Block(mblock').kind = "block"
  BY <1>1, BlockTypes DEF TypeOK
<1>3. mblock'.frames = mblock.frames
  BY Zenon DEF TypeOK, MBlock, WriteFullBlock, WriteRemainder
<1>6. mblock'.rx_count = mblock.rx_count
  BY Zenon DEF TypeOK, MBlock, WriteFullBlock, WriteRemainder
<1>4. /\ BlocksIn(Len(file))' \subseteq BlocksIn(Len(file)) \cup {Len(file) + 1}
      /\ \A k \in BlocksIn(Len(file)) : k \in 1 .. Len(file)
      /\ \A k \in 1 .. Len(file) : file'[k] = file[k]
      /\ Len(file) + 1 \in BlocksIn(Len(file))' => file'[Len(file) + 1] = Block(mblock')
      /\ "fwrite" \notin failed'
           => /\ BlocksIn(Len(file))' = BlocksIn(Len(file)) \cup {Len(file) + 1}
              /\ file'[Len(file) + 1] = Block(mblock')
  <2>1. ASSUME NEW r \in Records, r.kind = "block", Wrote(r)
        PROVE  /\ BlocksIn(Len(file))' \subseteq BlocksIn(Len(file)) \cup {Len(file) + 1}
               /\ \A k \in BlocksIn(Len(file)) : k \in 1 .. Len(file)
               /\ \A k \in 1 .. Len(file) : file'[k] = file[k]
               /\ Len(file) + 1 \in BlocksIn(Len(file))' => file'[Len(file) + 1] = r
               /\ "fwrite" \notin failed'
                    => /\ BlocksIn(Len(file))' = BlocksIn(Len(file)) \cup {Len(file) + 1}
                       /\ file'[Len(file) + 1] = r
    BY <2>1, BlockAppended
  <2> QED BY <1>1, <1>2, <2>1
<1>5. /\ pc \in {"run", "full"} /\ pc' \in {"last_iv", "iv"}
      /\ UNCHANGED <<current_frame_count, KEY, IV, drawn, durable, received>>
  BY DEF WriteFullBlock, WriteRemainder
<1> QED BY <1>3, <1>4, <1>5, <1>6 DEF FileBlock

(* Every step is of one of the three kinds. *)
LEMMA FileSteps ==
    ASSUME TypeOK, TypeOK', [Next]_vars
    PROVE  FileSame \/ FileParam \/ FileBlock
  BY SetupKeyAppends, RenewIVAppends, BlockSteps
  DEF Next, LoggingSetup, LoggingHandler, TerminateGracefully, Terminate, SetupIV,
      FullBlockIV, LastIV, FileSame, LogFrame, Refresh, NoRemainder, Close,
      ErrorExit, Crash, Spill, vars

(* What has failed stays on record. *)
LEMMA FailedGrows ==
    ASSUME TypeOK, [Next]_vars
    PROVE  failed \subseteq failed'
<1>1. CASE SetupKey \/ (\E from, to \in Running : RenewIV(from, to))
  BY <1>1 DEF SetupKey, RenewIV, InitializeWrite, Write
<1>2. CASE WriteFullBlock \/ WriteRemainder
  BY <1>2 DEF WriteFullBlock, WriteRemainder, Write
<1>3. CASE LogFrame \/ Refresh \/ NoRemainder \/ Close \/ ErrorExit \/ Crash \/ Spill \/ UNCHANGED vars
  BY <1>3 DEF LogFrame, Refresh, NoRemainder, Close, ErrorExit, Crash, Spill, Flush, vars
<1> QED
  BY <1>1, <1>2, <1>3
  DEF Next, LoggingSetup, LoggingHandler, TerminateGracefully, Terminate, SetupIV,
      FullBlockIV, LastIV, Running

-----------------------------------------------------------------------------
(* Decryptable: the params that ParamsInv keeps ready are those that the   *)
(* next block is encrypted under.                                          *)
LEMMA DecryptableStep ==
    ASSUME TypeOK, TypeOK', ParamsInv, Decryptable, [Next]_vars
    PROVE  Decryptable'
<1>0. Len(file) \in Nat
  BY DEF TypeOK
<1>1. CASE FileSame
  BY <1>1 DEF FileSame, Decryptable, BlocksIn, Clean, Param
<1>2. ASSUME \A k \in BlocksIn(Len(file)) : k \in 1 .. Len(file),
             \A k \in 1 .. Len(file) : file'[k] = file[k],
             NEW k \in BlocksIn(Len(file)), Clean(k)'
      PROVE  k > 2 /\ file'[1] = Param(file'[k].key) /\ file'[k - 1] = Param(file'[k].iv)
  <2>1. k \in 1 .. Len(file)
    BY <1>2
  <2>2. \A j \in 1 .. k : j \in 1 .. Len(file)
    BY <1>0, <2>1
  <2>3. Clean(k)
    BY <1>2, <2>2 DEF Clean
  <2>4. k > 2 /\ file[1] = Param(file[k].key) /\ file[k - 1] = Param(file[k].iv)
    BY <1>2, <2>3 DEF Decryptable
  <2>5. 1 \in 1 .. Len(file) /\ k - 1 \in 1 .. Len(file)
    BY <1>0, <2>1, <2>4
  <2>6. file'[1] = file[1] /\ file'[k - 1] = file[k - 1] /\ file'[k] = file[k]
    BY <1>2, <2>1, <2>5
  <2> QED BY <2>4, <2>6
<1>3. CASE FileParam
  <2>1. SUFFICES ASSUME NEW k \in BlocksIn(Len(file)), Clean(k)'
                 PROVE  k > 2 /\ file'[1] = Param(file'[k].key) /\ file'[k - 1] = Param(file'[k].iv)
    BY <1>3 DEF FileParam, Decryptable
  <2> QED BY <1>2, <1>3, <2>1 DEF FileParam
<1>4. CASE FileBlock
  <2>1. SUFFICES ASSUME NEW k \in BlocksIn(Len(file)) \cup {Len(file) + 1},
                        k \in BlocksIn(Len(file))', Clean(k)'
                 PROVE  k > 2 /\ file'[1] = Param(file'[k].key) /\ file'[k - 1] = Param(file'[k].iv)
    BY <1>4 DEF FileBlock, Decryptable
  <2>2. CASE k \in BlocksIn(Len(file))
    BY <1>2, <1>4, <2>1, <2>2 DEF FileBlock
  <2>3. CASE k = Len(file) + 1
    <3>1. file'[k] = Block(mblock') /\ file'[k].key = KEY /\ file'[k].iv = IV
      BY <1>4, <2>1, <2>3 DEF FileBlock, Block
    <3>2. /\ Len(file) >= 2
          /\ file[1] \in {Param(KEY), Garbled}
          /\ file[Len(file)] \in {Param(IV), Garbled}
      BY <1>4 DEF FileBlock, ParamsInv, Running
    <3>3. file'[1] = file[1] /\ file'[Len(file)] = file[Len(file)]
      BY <1>0, <1>4, <3>2 DEF FileBlock
    <3>4. file'[1] # Garbled /\ file'[Len(file)] # Garbled
      <4>1. 1 \in 1 .. k /\ Len(file) \in 1 .. k
        BY <1>0, <2>3, <3>2
      <4> QED BY <2>1, <4>1 DEF Clean
    <3>5. k - 1 = Len(file)
      BY <1>0, <2>3
    <3> QED BY <1>0, <2>3, <3>1, <3>2, <3>3, <3>4, <3>5
  <2> QED BY <2>2, <2>3
<1> QED BY <1>1, <1>3, <1>4, FileSteps

-----------------------------------------------------------------------------
(* FramesInOrder: PlaceInv is the order for the block still in memory.     *)
LEMMA OrderStep ==
    ASSUME TypeOK, TypeOK', BufferInv, PlaceInv, FramesInOrder, [Next]_vars
    PROVE  FramesInOrder'
<1>0. /\ Len(file) \in Nat /\ received \in Nat /\ current_frame_count \in Nat
      /\ BUFFER_SIZE \in Nat
  BY DEF TypeOK
<1>1. CASE FileSame
  BY <1>1 DEF FileSame, FramesInOrder, BlocksIn
<1>2. CASE FileParam
  BY <1>2 DEF FileParam, FramesInOrder
<1>3. CASE FileBlock
  <2>1. SUFFICES ASSUME NEW k \in BlocksIn(Len(file)) \cup {Len(file) + 1},
                        k \in BlocksIn(Len(file))', NEW i \in Slots
                 PROVE  2 * file'[k].mblock.frames[i] \in {0, (k - 3) * BUFFER_SIZE + 2 * i}
    BY <1>3 DEF FileBlock, FramesInOrder
  <2>2. CASE k \in BlocksIn(Len(file))
    BY <1>3, <2>2 DEF FileBlock, FramesInOrder
  <2>3. CASE k = Len(file) + 1
    <3>1. file'[k].mblock.frames[i] = mblock.frames[i]
      BY <1>3, <2>1, <2>3 DEF FileBlock, Block
    <3>2. 2 * (received - current_frame_count) = (k - 3) * BUFFER_SIZE
      <4>1. k - 3 = Len(file) - 2
        BY <1>0, <2>3
      <4> QED BY <1>3, <4>1 DEF FileBlock, PlaceInv
    <3>3. mblock.frames[i] \in {0, received - current_frame_count + i}
      BY DEF BufferInv
    <3>4. 2 * (received - current_frame_count + i) = 2 * (received - current_frame_count) + 2 * i
      BY <1>0 DEF Slots
    <3> QED BY <3>1, <3>2, <3>3, <3>4
  <2> QED BY <2>2, <2>3
<1> QED BY <1>1, <1>2, <1>3, FileSteps

-----------------------------------------------------------------------------
(* RxCountTellsFrames: arithmetic modulo RX_MOD, and the counter of the    *)
(* last block, from which the one in mblock has moved on.                  *)

LEMMA RemainderType ==
    ASSUME NEW n \in Nat
    PROVE  /\ n % RX_MOD \in 0 .. RX_MOD - 1
           /\ n \div RX_MOD \in Nat
           /\ n = (n \div RX_MOD) * RX_MOD + (n % RX_MOD)
<1>1. RX_MOD \in Nat /\ RX_MOD > 0
  BY SMT
<1> QED BY <1>1, SMT

LEMMA QuotientNotLess ==
    ASSUME NEW p \in Nat, NEW q \in Nat, p < q,
           NEW c \in 0 .. RX_MOD - 1, NEW d \in Nat
    PROVE  p * RX_MOD + c < q * RX_MOD + d
<1>1. RX_MOD \in Nat /\ RX_MOD > 0
  BY SMT
<1>2. PICK e \in Nat : q = p + 1 + e
  BY SMT
<1>3. q * RX_MOD = p * RX_MOD + RX_MOD + e * RX_MOD
  BY <1>1, <1>2, SMT
<1>4. e * RX_MOD >= 0 /\ e * RX_MOD \in Int /\ p * RX_MOD \in Int
  BY <1>1, <1>2, SMT
<1> QED BY <1>1, <1>3, <1>4, SMT

LEMMA RemainderIs ==
    ASSUME NEW q \in Nat, NEW c \in 0 .. RX_MOD - 1
    PROVE  (q * RX_MOD + c) % RX_MOD = c
<1> DEFINE r == q * RX_MOD + c
           p == r \div RX_MOD
           d == r % RX_MOD
<1>1. RX_MOD \in Nat /\ RX_MOD > 0 /\ c \in Nat
  BY SMT
<1>2. q * RX_MOD \in Nat /\ r \in Nat
  BY <1>1, SMT
<1>3. p \in Nat /\ d \in 0 .. RX_MOD - 1 /\ r = p * RX_MOD + d
  BY <1>2, RemainderType
<1>4. r = q * RX_MOD + c
  OBVIOUS
<1> HIDE DEF r, p, d
<1>5. d \in Nat
  BY <1>1, <1>3, SMT
<1>6. ~ (p < q)
  BY <1>1, <1>3, <1>4, QuotientNotLess, SMT
<1>7. ~ (q < p)
  BY <1>3, <1>4, <1>5, QuotientNotLess, SMT
<1>8. p = q
  BY <1>3, <1>6, <1>7, SMT
<1>9. d = c
  BY <1>1, <1>2, <1>3, <1>4, <1>5, <1>8, SMT
<1> QED BY <1>9 DEF d, r

(* c more than n, in the counter that wraps.                               *)
LEMMA RemainderMoves ==
    ASSUME NEW n \in Nat, NEW c \in 0 .. RX_MOD - 1
    PROVE  (n + c) % RX_MOD = IF (n % RX_MOD) + c < RX_MOD
                              THEN (n % RX_MOD) + c
                              ELSE (n % RX_MOD) + c - RX_MOD
<1> DEFINE a == n % RX_MOD
           q == n \div RX_MOD
<1>1. RX_MOD \in Nat /\ RX_MOD > 0 /\ c \in Nat
  BY SMT
<1>2. a \in 0 .. RX_MOD - 1 /\ q \in Nat /\ n = q * RX_MOD + a
  BY RemainderType
<1> HIDE DEF a, q
<1>3. q * RX_MOD \in Nat /\ (q + 1) * RX_MOD = q * RX_MOD + RX_MOD
  BY <1>1, <1>2, SMT
<1>4. CASE a + c < RX_MOD
  <2>1. a + c \in 0 .. RX_MOD - 1 /\ n + c = q * RX_MOD + (a + c)
    BY <1>1, <1>2, <1>3, <1>4, SMT
  <2> QED BY <1>2, <1>4, <2>1, RemainderIs DEF a
<1>5. CASE ~ (a + c < RX_MOD)
  <2>1. a + c - RX_MOD \in 0 .. RX_MOD - 1 /\ n + c = (q + 1) * RX_MOD + (a + c - RX_MOD)
    BY <1>1, <1>2, <1>3, <1>5, SMT
  <2>2. q + 1 \in Nat
    BY <1>2, SMT
  <2>3. (n + c) % RX_MOD = a + c - RX_MOD
    BY <2>1, <2>2, RemainderIs
  <2> QED BY <1>5, <2>3 DEF a
<1> QED BY <1>4, <1>5

LEMMA RxCountNext ==
    ASSUME NEW n \in Nat
    PROVE  ((n % RX_MOD) + 1) % RX_MOD = (n + 1) % RX_MOD
<1>1. RX_MOD \in Nat /\ RX_MOD > 1 /\ 1 \in 0 .. RX_MOD - 1
  BY SMT
<1> DEFINE a == n % RX_MOD
<1>2. a \in 0 .. RX_MOD - 1
  BY RemainderType
<1>3. (n + 1) % RX_MOD = IF a + 1 < RX_MOD THEN a + 1 ELSE a + 1 - RX_MOD
  BY <1>1, RemainderMoves
<1> HIDE DEF a
<1>4. CASE a + 1 < RX_MOD
  <2>1. a + 1 = 0 * RX_MOD + (a + 1) /\ a + 1 \in 0 .. RX_MOD - 1 /\ 0 \in Nat
    BY <1>1, <1>2, <1>4, SMT
  <2>2. (a + 1) % RX_MOD = a + 1
    BY <2>1, RemainderIs
  <2> QED BY <1>3, <1>4, <2>2 DEF a
<1>5. CASE ~ (a + 1 < RX_MOD)
  <2>1. a + 1 = 1 * RX_MOD + 0 /\ 0 \in 0 .. RX_MOD - 1 /\ 1 \in Nat /\ a + 1 - RX_MOD = 0
    BY <1>1, <1>2, <1>5, SMT
  <2>2. (a + 1) % RX_MOD = 0
    BY <2>1, RemainderIs
  <2> QED BY <1>3, <1>5, <2>1, <2>2 DEF a
<1> QED BY <1>4, <1>5

(* How far the counter has moved is how many frames came.                  *)
LEMMA RxCountMoved ==
    ASSUME NEW n \in Nat, NEW c \in 0 .. RX_MOD - 1
    PROVE  (RX_MOD + ((n + c) % RX_MOD) - (n % RX_MOD)) % RX_MOD = c
<1> DEFINE a == n % RX_MOD
           b == (n + c) % RX_MOD
           m == RX_MOD + b - a
<1>1. RX_MOD \in Nat /\ RX_MOD > 0 /\ c \in Nat /\ c < RX_MOD
  BY SMT
<1>2. a \in 0 .. RX_MOD - 1
  BY RemainderType
<1>3. b = IF a + c < RX_MOD THEN a + c ELSE a + c - RX_MOD
  BY RemainderMoves
<1>4. m = RX_MOD + b - a
  OBVIOUS
<1> HIDE DEF a, b, m
<1>5. CASE a + c < RX_MOD
  <2>1. m = 1 * RX_MOD + c /\ 1 \in Nat
    BY <1>1, <1>2, <1>3, <1>4, <1>5, SMT
  <2> QED BY <2>1, RemainderIs DEF m, a, b
<1>6. CASE ~ (a + c < RX_MOD)
  <2>1. m = 0 * RX_MOD + c /\ 0 \in Nat
    BY <1>1, <1>2, <1>3, <1>4, <1>6, SMT
  <2> QED BY <2>1, RemainderIs DEF m, a, b
<1> QED BY <1>5, <1>6

(* The records there are stay, and so does what is known of their counters. *)
Kept == \A j \in 1 .. Len(file) : file'[j] = file[j]

CleanNext(k) == \A j \in 1 .. k : file'[j] # Garbled

HasRxCountNext(k, count) ==
    CleanNext(k) => file'[k].kind = "block" /\ file'[k].mblock.rx_count = count % RX_MOD

LEMMA CleanKept ==
    ASSUME Kept, Len(file) \in Nat, NEW k \in Nat, k <= Len(file), CleanNext(k)
    PROVE  Clean(k)
<1>1. \A j \in 1 .. k : j \in 1 .. Len(file)
  BY SMT
<1> QED BY <1>1, Zenon DEF Kept, Clean, CleanNext, Garbled

LEMMA RxKept ==
    ASSUME Kept, Len(file) \in Nat, NEW k \in 1 .. Len(file), NEW count,
           HasRxCount(k, count)
    PROVE  HasRxCountNext(k, count)
<1> SUFFICES ASSUME CleanNext(k)
             PROVE  file'[k].kind = "block" /\ file'[k].mblock.rx_count = count % RX_MOD
  BY DEF HasRxCountNext
<1>1. Clean(k)
  BY CleanKept, SMT
<1>2. file'[k] = file[k]
  BY DEF Kept
<1> QED BY <1>1, <1>2 DEF HasRxCount

(* What there is to show after a step.                                     *)
LEMMA RxInvNext ==
    ASSUME mblock'.rx_count = received' % RX_MOD,
           pc' \in {"run", "full"} /\ Len(file') > 2
             => HasRxCountNext(Len(file') - 1, received' - current_frame_count'),
           pc' = "iv" => HasRxCountNext(Len(file'), received'),
           pc' = "flush" => HasRxCountNext(Len(file') - 1, received')
    PROVE  RxInv'
  BY DEF RxInv, HasRxCount, HasRxCountNext, Clean, CleanNext, Garbled

LEMMA KeptFacts ==
    ASSUME TypeOK
    PROVE  /\ FileSame => Kept
           /\ FileParam => Kept
           /\ FileBlock => Kept
  BY DEF FileSame, FileParam, FileBlock, Kept

LEMMA RxStep ==
    ASSUME TypeOK, TypeOK', BufferInv, ParamsInv, PlaceInv, RxInv, [Next]_vars
    PROVE  RxInv'
<1>0. /\ Len(file) \in Nat /\ received \in Nat /\ current_frame_count \in Nat
      /\ file \in Seq(Records)
  BY DEF TypeOK
<1>1. CASE SetupKey
  BY <1>1 DEF SetupKey, RxInv
<1>2. CASE SetupIV
  <2>1. Len(file) = 1
    BY <1>2 DEF SetupIV, RenewIV, ParamsInv
  <2>2. Len(file') = 2
    BY <1>0, <1>2, <2>1, RenewIVFacts, WriteFacts DEF SetupIV
  <2>3. ~ (Len(file') > 2)
    BY <2>2, SMT
  <2> QED BY <1>2, <2>3 DEF SetupIV, RenewIV, RxInv
<1>3. CASE FullBlockIV
  <2>1. Len(file') = Len(file) + 1
    BY <1>0, <1>3, RenewIVFacts, WriteFacts DEF FullBlockIV
  <2>2. Kept
    BY <1>3, RenewIVAppends, KeptFacts DEF FullBlockIV
  <2>3. pc = "iv" /\ pc' = "flush" /\ mblock' = mblock /\ received' = received
    BY <1>3 DEF FullBlockIV, RenewIV
  <2>4. Len(file) \in 1 .. Len(file) /\ Len(file') - 1 = Len(file)
    BY <1>0, <2>1, <2>3, SMT DEF PlaceInv
  <2>5. HasRxCount(Len(file), received)
    BY <2>3 DEF RxInv
  <2>7. HasRxCountNext(Len(file') - 1, received')
    BY <1>0, <2>2, <2>3, <2>4, <2>5, RxKept
  <2>8. mblock'.rx_count = received' % RX_MOD
    BY <2>3 DEF RxInv
  <2> QED BY <2>3, <2>7, <2>8, RxInvNext
<1>4. CASE LogFrame
  <2>1. /\ pc = "run" /\ pc' \in {"run", "full"} /\ file' = file
        /\ received' = received + 1 /\ current_frame_count' = current_frame_count + 1
        /\ mblock' = [mblock EXCEPT !.frames[current_frame_count + 1] = received + 1,
                                    !.rx_count = (@ + 1) % RX_MOD]
    BY <1>4 DEF LogFrame
  <2>2. mblock'.rx_count = (mblock.rx_count + 1) % RX_MOD
    BY <2>1, Zenon DEF TypeOK, MBlock
  <2>3. mblock'.rx_count = received' % RX_MOD
    BY <1>0, <2>1, <2>2, RxCountNext DEF RxInv
  <2>4. received' - current_frame_count' = received - current_frame_count
    BY <1>0, <2>1, SMT
  <2>5. Kept
    BY <2>1 DEF Kept
  <2>6. Len(file) > 2 => HasRxCountNext(Len(file) - 1, received - current_frame_count)
    <3>1. Len(file) > 2 => Len(file) - 1 \in 1 .. Len(file)
      BY <1>0, SMT
    <3>2. Len(file) > 2 => HasRxCount(Len(file) - 1, received - current_frame_count)
      BY <2>1 DEF RxInv
    <3> QED BY <1>0, <2>5, <3>1, <3>2, RxKept
  <2> QED BY <2>1, <2>3, <2>4, <2>6, RxInvNext
<1>5. CASE WriteFullBlock
  <2>1. FileBlock
    BY <1>5, BlockSteps
  <2>2. pc' = "iv" /\ received' = received
    BY <1>5 DEF WriteFullBlock
  <2>3. Block(mblock') \in Records /\ Wrote(Block(mblock'))
    BY <1>5, BlockTypes DEF TypeOK, WriteFullBlock, Wrote
  <2>4. Len(file') = Len(file) + 1 /\ file'[Len(file) + 1] \in {Block(mblock'), Garbled}
    BY <1>0, <2>3, WriteFacts
  <2>5. mblock'.rx_count = received' % RX_MOD
    BY <2>1, <2>2 DEF FileBlock, RxInv
  <2>6. HasRxCountNext(Len(file'), received')
    <3> SUFFICES ASSUME CleanNext(Len(file'))
                 PROVE  /\ file'[Len(file')].kind = "block"
                        /\ file'[Len(file')].mblock.rx_count = received' % RX_MOD
      BY DEF HasRxCountNext
    <3>1. Len(file') \in 1 .. Len(file')
      BY <1>0, <2>4, SMT
    <3>2. file'[Len(file')] # Garbled
      BY <3>1, Zenon DEF CleanNext
    <3>3. file'[Len(file')] = Block(mblock')
      BY <2>4, <3>2
    <3> QED BY <2>5, <3>3 DEF Block
  <2> QED BY <2>2, <2>5, <2>6, RxInvNext
<1>6. CASE Refresh
  <2>1. /\ pc = "flush" /\ pc' = "run" /\ file' = file
        /\ received' = received /\ current_frame_count' = 0
        /\ mblock' = [mblock EXCEPT !.frames = NoFrames, !.crc = FALSE]
    BY <1>6 DEF Refresh
  <2>2. mblock'.rx_count = mblock.rx_count
    BY <2>1, Zenon DEF TypeOK, MBlock
  <2>3. mblock'.rx_count = received' % RX_MOD
    BY <2>1, <2>2 DEF RxInv
  <2>4. received' - current_frame_count' = received
    BY <1>0, <2>1, SMT
  <2>5. Kept
    BY <2>1 DEF Kept
  <2>6. HasRxCountNext(Len(file) - 1, received)
    <3>1. Len(file) - 1 \in 1 .. Len(file)
      BY <1>0, <2>1, SMT DEF PlaceInv
    <3>2. HasRxCount(Len(file) - 1, received)
      BY <2>1 DEF RxInv
    <3> QED BY <1>0, <2>5, <3>1, <3>2, RxKept
  <2> QED BY <2>1, <2>3, <2>4, <2>6, RxInvNext
<1>7. CASE WriteRemainder \/ NoRemainder \/ LastIV \/ Close \/ ErrorExit \/ Crash
  <2>1. received' = received /\ mblock' = mblock
        /\ pc' \in {"last_iv", "close", "closed", "exited", "crashed"}
    BY <1>7 DEF WriteRemainder, NoRemainder, LastIV, RenewIV, Close, ErrorExit, Crash
  <2> QED BY <2>1 DEF RxInv
<1>8. CASE Spill \/ UNCHANGED vars
  <2>1. /\ received' = received /\ mblock' = mblock /\ pc' = pc /\ file' = file
        /\ current_frame_count' = current_frame_count
    BY <1>8 DEF Spill, vars
  <2> QED BY <2>1 DEF RxInv, HasRxCount, Clean
<1> QED
  BY <1>1, <1>2, <1>3, <1>4, <1>5, <1>6, <1>7, <1>8
  DEF Next, LoggingSetup, LoggingHandler, TerminateGracefully, Terminate

LEMMA NumberAbove ==
    ASSUME NEW l \in Nat, l >= 2, l # 2
    PROVE  l > 2 /\ l - 1 \in 1 .. l
  OBVIOUS

LEMMA NumberAfter ==
    ASSUME NEW l \in Nat, NEW k, k = l + 1
    PROVE  (k = 3 <=> l = 2) /\ k - 2 = l - 1
  OBVIOUS

(* The block to come is told apart by the counter of the one before. *)
LEMMA NextBlockTold ==
    ASSUME TypeOK, BufferInv, ParamsInv, PlaceInv, RxInv, Kept, pc \in {"run", "full"},
           CleanNext(Len(file))
    PROVE  LET before == IF Len(file) = 2 THEN 0 ELSE file'[Len(file) - 1].mblock.rx_count
           IN  {i \in Slots : mblock.frames[i] # 0}
                 = 1 .. (RX_MOD + mblock.rx_count - before) % RX_MOD
<1>1. /\ Len(file) \in Nat /\ received \in Nat
      /\ current_frame_count \in 0 .. BUFFER_SIZE /\ current_frame_count <= received
  BY DEF TypeOK, BufferInv
<1> DEFINE n == received - current_frame_count
<1>2. n \in Nat /\ n + current_frame_count = received
  BY <1>1, SMT
<1>3. Len(file) >= 2
  BY DEF ParamsInv
<1>4. (IF Len(file) = 2 THEN 0 ELSE file'[Len(file) - 1].mblock.rx_count) = n % RX_MOD
  <2>1. CASE Len(file) = 2
    <3>1. 2 * n = (Len(file) - 2) * BUFFER_SIZE
      BY DEF PlaceInv
    <3>2. (Len(file) - 2) * BUFFER_SIZE = 0
      BY <2>1, SMT
    <3>3. n = 0
      BY <1>2, <3>1, <3>2, SMT
    <3>4. 0 = 0 * RX_MOD + 0 /\ 0 \in Nat /\ 0 \in 0 .. RX_MOD - 1
      BY SMT
    <3>5. 0 % RX_MOD = 0
      BY <3>4, RemainderIs
    <3> QED BY <2>1, <3>3, <3>5
  <2>2. CASE Len(file) # 2
    <3>1. Len(file) > 2 /\ Len(file) - 1 \in 1 .. Len(file)
      BY <1>1, <1>3, <2>2, NumberAbove
    <3>2. HasRxCount(Len(file) - 1, n)
      BY <3>1 DEF RxInv
    <3> HIDE DEF n
    <3>3. HasRxCountNext(Len(file) - 1, n)
      BY <1>1, <3>1, <3>2, RxKept
    <3>4. CleanNext(Len(file) - 1)
      <4>1. \A j \in 1 .. Len(file) - 1 : j \in 1 .. Len(file)
        BY <1>1, SMT
      <4> QED BY <4>1, Zenon DEF CleanNext
    <3> QED BY <2>2, <3>3, <3>4 DEF HasRxCountNext
  <2> QED BY <2>1, <2>2
<1>5. mblock.rx_count = (n + current_frame_count) % RX_MOD
  BY <1>2 DEF RxInv
<1> HIDE DEF n
<1>6. current_frame_count \in 0 .. RX_MOD - 1
  BY <1>1, SMT
<1>7. (RX_MOD + mblock.rx_count - (n % RX_MOD)) % RX_MOD = current_frame_count
  BY <1>2, <1>5, <1>6, RxCountMoved
<1>8. {i \in Slots : mblock.frames[i] # 0} = 1 .. current_frame_count
  <2>1. \A i \in Slots : mblock.frames[i] = IF i <= current_frame_count
                                              THEN n + i ELSE 0
    BY DEF BufferInv, n
  <2>2. \A i \in Slots : mblock.frames[i] # 0 <=> i <= current_frame_count
    BY <1>2, <2>1, SMT DEF Slots
  <2>3. \A i : i \in 1 .. current_frame_count <=> i \in Slots /\ i <= current_frame_count
    BY <1>1, SMT DEF Slots
  <2> QED BY <2>2, <2>3, Zenon
<1> QED BY <1>4, <1>7, <1>8

LEMMA RxCountStep ==
    ASSUME TypeOK, TypeOK', BufferInv, ParamsInv, PlaceInv, RxInv,
           Decryptable, RxCountTellsFrames, [Next]_vars
    PROVE  RxCountTellsFrames'
<1> DEFINE Told(k) ==
      LET before == IF k = 3 THEN 0 ELSE file'[k - 2].mblock.rx_count
      IN  {i \in Slots : file'[k].mblock.frames[i] # 0}
            = 1 .. (RX_MOD + file'[k].mblock.rx_count - before) % RX_MOD
<1>0. Len(file) \in Nat
  BY DEF TypeOK
<1>1. CASE FileSame
  BY <1>1 DEF FileSame, RxCountTellsFrames, BlocksIn, Clean, Garbled
<1>2. ASSUME Kept, NEW k \in BlocksIn(Len(file)), k \in 1 .. Len(file), CleanNext(k)
      PROVE  Told(k)
  <2>1. k \in Nat /\ k <= Len(file)
    BY <1>0, <1>2, SMT
  <2>2. Clean(k)
    BY <1>0, <1>2, <2>1, CleanKept
  <2>3. k > 2
    BY <2>2 DEF Decryptable
  <2>4. file'[k] = file[k]
    BY <1>2 DEF Kept
  <2>5. k # 3 => file'[k - 2] = file[k - 2]
    <3>1. k # 3 => k - 2 \in 1 .. Len(file)
      BY <2>1, <2>3, SMT
    <3> QED BY <1>2, <3>1 DEF Kept
  <2>6. LET before == IF k = 3 THEN 0 ELSE file[k - 2].mblock.rx_count
        IN  {i \in Slots : file[k].mblock.frames[i] # 0}
              = 1 .. (RX_MOD + file[k].mblock.rx_count - before) % RX_MOD
    BY <2>2 DEF RxCountTellsFrames
  <2> QED BY <2>4, <2>5, <2>6, Zenon
<1>3. CASE FileParam
  <2>1. Kept /\ \A k \in BlocksIn(Len(file)) : k \in 1 .. Len(file)
    BY <1>3 DEF FileParam, Kept
  <2>2. BlocksIn(Len(file))' = BlocksIn(Len(file))
    BY <1>3 DEF FileParam
  <2>3. ASSUME NEW k \in BlocksIn(Len(file)), CleanNext(k) PROVE Told(k)
    BY <1>2, <2>1, <2>3
  <2> QED BY <2>2, <2>3, Zenon DEF RxCountTellsFrames, Clean, CleanNext, Garbled
<1>4. CASE FileBlock
  <2>1. /\ Kept /\ \A k \in BlocksIn(Len(file)) : k \in 1 .. Len(file)
        /\ BlocksIn(Len(file))' \subseteq BlocksIn(Len(file)) \cup {Len(file) + 1}
        /\ pc \in {"run", "full"}
    BY <1>4 DEF FileBlock, Kept
  <2>2. ASSUME NEW k \in BlocksIn(Len(file)), CleanNext(k) PROVE Told(k)
    BY <1>2, <2>1, <2>2
  <2>3. ASSUME NEW k, k = Len(file) + 1, k \in BlocksIn(Len(file))', CleanNext(k)
        PROVE  Told(k)
    <3>1. file'[k] = Block(mblock')
      BY <1>4, <2>3 DEF FileBlock
    <3>2. file'[k].mblock.frames = mblock.frames /\ file'[k].mblock.rx_count = mblock.rx_count
      BY <1>4, <3>1 DEF FileBlock, Block
    <3>3. CleanNext(Len(file))
      <4>1. \A j \in 1 .. Len(file) : j \in 1 .. k
        BY <1>0, <2>3, SMT
      <4> QED BY <2>3, <4>1, Zenon DEF CleanNext
    <3>4. (k = 3 <=> Len(file) = 2) /\ k - 2 = Len(file) - 1
      BY <1>0, <2>3, NumberAfter
    <3>5. LET before == IF Len(file) = 2 THEN 0 ELSE file'[Len(file) - 1].mblock.rx_count
          IN  {i \in Slots : mblock.frames[i] # 0}
                = 1 .. (RX_MOD + mblock.rx_count - before) % RX_MOD
      BY <2>1, <3>3, NextBlockTold
    <3> QED BY <3>2, <3>4, <3>5
  <2>4. ASSUME NEW k \in BlocksIn(Len(file))', CleanNext(k) PROVE Told(k)
    BY <2>1, <2>2, <2>3, <2>4
  <2> QED BY <2>4, Zenon DEF RxCountTellsFrames, Clean, CleanNext, Garbled
<1> QED BY <1>1, <1>3, <1>4, FileSteps

-----------------------------------------------------------------------------
(* FreshIVs: an iv is greater than those of all the blocks before it.      *)
LEMMA IVStep ==
    ASSUME TypeOK, TypeOK', IVInv, FreshIVs, [Next]_vars
    PROVE  IVInv' /\ FreshIVs'
<1>0. SUFFICES ASSUME "rand" \notin failed'
               PROVE  IVInv' /\ FreshIVs'
  BY DEF IVInv, FreshIVs
<1>1. /\ drawn \in Nat /\ IV \in Nat /\ IV <= drawn
      /\ \A k \in BlocksIn(Len(file)) : file[k].iv <= drawn
      /\ pc \in {"run", "full", "flush"} => \A k \in BlocksIn(Len(file)) : file[k].iv # IV
      /\ \A j, k \in BlocksIn(Len(file)) : file[j].iv = file[k].iv => j = k
  BY <1>0, FailedGrows DEF TypeOK, IVInv, FreshIVs
<1>2. CASE SetupKey
  <2>1. FileParam
    BY <1>2, SetupKeyAppends
  <2>2. drawn' >= drawn /\ IV' = IV /\ pc' = "setup_iv"
    BY <1>2, SetupKeyFacts DEF SetupKey
  <2>3. drawn' \in Nat
    BY DEF TypeOK
  <2>4. \A k \in BlocksIn(Len(file)) : file[k].iv <= drawn'
    <3>1. \A k \in BlocksIn(Len(file)) : file[k].iv \in Nat
      BY DEF TypeOK, BlocksIn, Records, Garbled
    <3> QED BY <1>1, <2>2, <2>3, <3>1
  <2> QED BY <1>1, <2>1, <2>2, <2>3, <2>4 DEF FileParam, IVInv, FreshIVs
<1>3. ASSUME NEW from, NEW to, RenewIV(from, to)
      PROVE  IVInv' /\ FreshIVs'
  <2>1. FileParam
    BY <1>3, RenewIVAppends
  <2>2. IV' = drawn + 1 /\ drawn' = drawn + 1
    BY <1>0, <1>1, <1>3, RenewIVFacts
  <2>3. \A k \in BlocksIn(Len(file)) : file[k].iv \in Nat
    BY DEF TypeOK, BlocksIn, Records, Garbled
  <2>4. \A k \in BlocksIn(Len(file)) : file[k].iv <= drawn' /\ file[k].iv # IV'
    BY <1>1, <2>2, <2>3
  <2> QED BY <1>1, <2>1, <2>2, <2>4 DEF FileParam, IVInv, FreshIVs
<1>4. CASE WriteFullBlock \/ WriteRemainder
  <2>1. FileBlock
    BY <1>4, BlockSteps
  <2>2. /\ pc \in {"run", "full"} /\ pc' \in {"last_iv", "iv"}
        /\ IV' = IV /\ drawn' = drawn
        /\ BlocksIn(Len(file))' \subseteq BlocksIn(Len(file)) \cup {Len(file) + 1}
        /\ \A k \in BlocksIn(Len(file)) : file'[k] = file[k]
        /\ Len(file) + 1 \in BlocksIn(Len(file))' => file'[Len(file) + 1].iv = IV
    BY <2>1 DEF FileBlock, Block
  <2>3. \A k \in BlocksIn(Len(file))' :
           \/ k \in BlocksIn(Len(file)) /\ file'[k] = file[k] /\ file'[k].iv # IV
           \/ k = Len(file) + 1 /\ file'[k].iv = IV
    BY <1>1, <2>2
  <2> QED BY <1>1, <2>2, <2>3 DEF IVInv, FreshIVs
<1>5. CASE /\ FileSame /\ UNCHANGED <<IV, drawn>>
           /\ pc' \in {"run", "full", "flush"} => pc \in {"run", "full", "flush"}
  BY <1>1, <1>5 DEF FileSame, IVInv, FreshIVs, BlocksIn
<1>6. CASE LogFrame \/ Refresh \/ NoRemainder \/ Close \/ ErrorExit \/ Crash \/ Spill \/ UNCHANGED vars
  BY <1>5, <1>6
  DEF FileSame, LogFrame, Refresh, NoRemainder, Close, ErrorExit, Crash, Spill, vars
<1> QED
  BY <1>2, <1>3, <1>4, <1>6
  DEF Next, LoggingSetup, LoggingHandler, TerminateGracefully, Terminate,
      SetupIV, FullBlockIV, LastIV

-----------------------------------------------------------------------------
(* Where the frames are. *)

(* Under the buffer invariant the frames a block made of mblock holds are  *)
(* the pending ones.                                                       *)
LEMMA PendingFrames ==
    ASSUME TypeOK, BufferInv
    PROVE  {mblock.frames[i] : i \in Slots} \ {0} = Pending
<1>1. /\ current_frame_count \in 0 .. BUFFER_SIZE /\ received \in Nat
      /\ current_frame_count <= received
      /\ \A i \in Slots : mblock.frames[i] = IF i <= current_frame_count
                                             THEN received - current_frame_count + i
                                             ELSE 0
  BY DEF TypeOK, BufferInv
<1>2. \A i \in Slots : i <= current_frame_count => mblock.frames[i] # 0
  BY <1>1 DEF Slots
<1>3. \A i \in 1 .. current_frame_count : i \in Slots /\ i <= current_frame_count
  BY <1>1 DEF Slots
<1>4. \A i \in Slots : i <= current_frame_count => i \in 1 .. current_frame_count
  BY <1>1 DEF Slots
<1> QED BY <1>1, <1>2, <1>3, <1>4 DEF Pending

LEMMA LoggedSame ==
    ASSUME FileSame \/ FileParam, Len(file) \in Nat
    PROVE  FramesLogged(Len(file))' = FramesLogged(Len(file))
<1>1. CASE FileSame
  BY <1>1 DEF FileSame, FramesLogged, BlocksIn, FramesAt
<1>2. CASE FileParam
  BY <1>2 DEF FileParam, FramesLogged, FramesAt
<1> QED BY <1>1, <1>2

LEMMA LoggedBlock ==
    ASSUME TypeOK, BufferInv, FileBlock, "fwrite" \notin failed'
    PROVE  FramesLogged(Len(file))' = FramesLogged(Len(file)) \cup Pending
<1>1. /\ BlocksIn(Len(file))' = BlocksIn(Len(file)) \cup {Len(file) + 1}
      /\ \A k \in BlocksIn(Len(file)) : file'[k] = file[k]
      /\ file'[Len(file) + 1].mblock.frames = mblock.frames
  BY DEF FileBlock, Block
<1>2. \A k \in BlocksIn(Len(file)) : FramesAt(k)' = FramesAt(k)
  BY <1>1 DEF FramesAt
<1>3. {file'[Len(file) + 1].mblock.frames[i] : i \in Slots} \ {0} = Pending
  BY <1>1, PendingFrames
<1> QED BY <1>1, <1>2, <1>3 DEF FramesLogged, FramesAt

(* The part of the file that is durable does not change under it. *)
LEMMA LoggedDurable ==
    ASSUME TypeOK, FileSame \/ FileParam \/ FileBlock, durable' = durable
    PROVE  FramesLogged(durable)' = FramesLogged(durable)
<1>1. \A k \in 1 .. durable : file'[k] = file[k]
  BY DEF TypeOK, FileSame, FileParam, FileBlock
<1>2. BlocksIn(durable)' = BlocksIn(durable)
  BY <1>1 DEF BlocksIn
<1>3. \A k \in BlocksIn(durable) : k \in 1 .. durable
  BY DEF BlocksIn
<1> QED BY <1>1, <1>2, <1>3 DEF FramesLogged, FramesAt

(* A longer part holds no less. *)
LEMMA LoggedMonotone ==
    ASSUME NEW m \in Nat, NEW n \in Nat, m <= n
    PROVE  FramesLogged(m) \subseteq FramesLogged(n)
<1>1. BlocksIn(m) \subseteq BlocksIn(n)
  BY DEF BlocksIn
<1> QED BY <1>1 DEF FramesLogged

(* SavedInv: what a block takes from mblock is what mblock still holds     *)
(* until Refresh, and Refresh comes after the flush.                       *)
LEMMA SavedStep ==
    ASSUME TypeOK, TypeOK', BufferInv, SavedInv, [Next]_vars
    PROVE  SavedInv'
<1>0. SUFFICES ASSUME "fwrite" \notin failed' PROVE SavedInv'
  BY DEF SavedInv
<1> DEFINE L     == FramesLogged(Len(file))
           D     == FramesLogged(durable)
           After == {"iv", "flush", "last_iv", "close", "closed"}
<1>1. /\ L \cup Pending = 1 .. received
      /\ pc \in After => L = 1 .. received
      /\ pc = "closed" => durable = Len(file)
      /\ FLUSH_AT_RUNTIME = 1
           => \A n \in 1 .. received : n + current_frame_count <= received => n \in D
  BY <1>0, FailedGrows DEF SavedInv
<1>2. SUFFICES /\ L' \cup Pending' = 1 .. received'
               /\ pc' \in After => L' = 1 .. received'
               /\ pc' = "closed" => durable' = Len(file')
               /\ FLUSH_AT_RUNTIME = 1
                    => \A n \in 1 .. received' :
                           n + current_frame_count' <= received' => n \in D'
  BY DEF SavedInv
<1>3. /\ Len(file) \in Nat /\ durable \in Nat /\ durable <= Len(file)
      /\ received \in Nat /\ current_frame_count \in Nat
  BY DEF TypeOK
<1>4. D \subseteq L
  BY <1>3, LoggedMonotone
<1> HIDE DEF L, D
<1>5. ASSUME FileParam, UNCHANGED <<mblock, current_frame_count, durable, received>>,
             pc' \in After => pc \in After, pc' # "closed"
      PROVE  /\ L' \cup Pending' = 1 .. received'
             /\ pc' \in After => L' = 1 .. received'
             /\ pc' = "closed" => durable' = Len(file')
             /\ FLUSH_AT_RUNTIME = 1
                  => \A n \in 1 .. received' :
                         n + current_frame_count' <= received' => n \in D'
  <2>1. L' = L
    BY <1>3, <1>5, LoggedSame DEF L
  <2>2. D' = D
    BY <1>5, LoggedDurable DEF D
  <2>3. Pending' = Pending
    BY <1>5 DEF Pending
  <2> QED BY <1>1, <1>5, <2>1, <2>2, <2>3
<1>6. CASE LoggingSetup \/ FullBlockIV \/ LastIV
  <2>1. FileParam
    BY <1>6, SetupKeyAppends, RenewIVAppends DEF LoggingSetup, SetupIV, FullBlockIV, LastIV
  <2> QED BY <1>5, <1>6, <2>1 DEF LoggingSetup, SetupKey, SetupIV, FullBlockIV, LastIV, RenewIV
<1>7. CASE LogFrame
  <2>1. /\ FileSame /\ durable' = durable
        /\ current_frame_count' = current_frame_count + 1
        /\ received' = received + 1
        /\ pc' \notin After
    BY <1>7 DEF LogFrame, FileSame
  <2>2. current_frame_count + 1 \in Slots
    BY <1>7 DEF LogFrame, BufferInv, TypeOK, Slots
  <2>3. mblock'.frames = [mblock.frames EXCEPT ![current_frame_count + 1] = received + 1]
    BY <1>7, MBlockFields DEF LogFrame, TypeOK, MBlock
  <2>4. \A i \in Slots : mblock'.frames[i] = IF i = current_frame_count + 1
                                              THEN received + 1
                                              ELSE mblock.frames[i]
    BY <2>3, MBlockFields
  <2>5. 1 .. (current_frame_count + 1) = (1 .. current_frame_count) \cup {current_frame_count + 1}
    BY <1>3
  <2>6. 1 .. current_frame_count \subseteq Slots /\ current_frame_count + 1 \notin 1 .. current_frame_count
    BY <1>3, <2>2 DEF Slots
  <2>7. Pending' = Pending \cup {received + 1}
    <3>1. \A i \in 1 .. current_frame_count : mblock'.frames[i] = mblock.frames[i]
      BY <2>4, <2>6
    <3>2. mblock'.frames[current_frame_count + 1] = received + 1
      BY <2>2, <2>4
    <3> QED BY <2>1, <2>5, <3>1, <3>2 DEF Pending
  <2>8. L' = L /\ D' = D
    BY <1>3, <2>1, LoggedSame, LoggedDurable DEF L, D
  <2>9. 1 .. (received + 1) = (1 .. received) \cup {received + 1}
    BY <1>3
  <2>10. L' \cup Pending' = 1 .. received'
    BY <1>1, <2>1, <2>7, <2>8, <2>9
  <2>11. ASSUME FLUSH_AT_RUNTIME = 1, NEW n \in 1 .. received', n + current_frame_count' <= received'
         PROVE  n \in D'
    <3>1. n + current_frame_count <= received /\ n \in 1 .. received
      BY <1>3, <2>1, <2>11
    <3> QED BY <1>1, <2>8, <2>11, <3>1
  <2> QED BY <2>1, <2>10, <2>11
<1>8. CASE WriteFullBlock \/ WriteRemainder
  <2>1. FileBlock
    BY <1>8, BlockSteps
  <2>2. L' = L \cup Pending
    BY <1>0, <2>1, LoggedBlock DEF L
  <2>3. /\ UNCHANGED <<current_frame_count, durable, received>>
        /\ mblock'.frames = mblock.frames /\ pc' # "closed"
    BY <2>1 DEF FileBlock
  <2>4. D' = D
    BY <2>1, <2>3, LoggedDurable DEF D
  <2>5. Pending' = Pending
    BY <2>3 DEF Pending
  <2> QED BY <1>1, <2>2, <2>3, <2>4, <2>5
<1>9. CASE Refresh
  <2>1. /\ FileSame /\ received' = received /\ current_frame_count' = 0
        /\ pc' = "run" /\ pc = "flush"
        /\ FLUSH_AT_RUNTIME = 1 => durable' = Len(file')
    BY <1>0, <1>9 DEF Refresh, Flush, FileSame
  <2>2. L' = L
    BY <1>3, <2>1, LoggedSame DEF L
  <2>3. Pending' = {}
    BY <2>1 DEF Pending
  <2>4. FLUSH_AT_RUNTIME = 1 => D' = L'
    BY <2>1 DEF D, L
  <2> QED BY <1>1, <2>1, <2>2, <2>3, <2>4
<1>10. CASE NoRemainder
  <2>1. /\ FileSame /\ pc' = "close" /\ current_frame_count = 0
        /\ UNCHANGED <<mblock, current_frame_count, durable, received>>
    BY <1>10 DEF NoRemainder, FileSame
  <2>2. Pending = {} /\ Pending' = {}
    BY <2>1 DEF Pending
  <2>3. L' = L /\ D' = D
    BY <1>3, <2>1, LoggedSame, LoggedDurable DEF L, D
  <2> QED BY <1>1, <2>1, <2>2, <2>3
<1>11. CASE Close \/ ErrorExit \/ Spill
  <2>1. /\ FileSame /\ UNCHANGED <<mblock, current_frame_count, received>>
        /\ pc' \in After => pc \in After
        /\ pc' = "closed" => durable' = Len(file')
        /\ durable' \in Nat /\ durable <= durable' /\ durable' <= Len(file)
    BY <1>0, <1>1, <1>3, <1>11 DEF Close, ErrorExit, Flush, Spill, FileSame, Running
  <2>2. L' = L
    BY <1>3, <2>1, LoggedSame DEF L
  <2>3. Pending' = Pending
    BY <2>1 DEF Pending
  <2>4. D \subseteq D'
    <3>1. \A m, n \in Nat : m <= n => FramesLogged(m) \subseteq FramesLogged(n)
      BY LoggedMonotone
    <3>2. FramesLogged(durable) \subseteq FramesLogged(durable')
      BY <1>3, <2>1, <3>1
    <3>3. D' = FramesLogged(durable')
      BY <2>1 DEF D, FramesLogged, BlocksIn, FramesAt, FileSame
    <3> QED BY <3>2, <3>3 DEF D
  <2> QED BY <1>1, <2>1, <2>2, <2>3, <2>4
<1>12. CASE Crash \/ UNCHANGED vars
  <2>1. /\ FileSame /\ UNCHANGED <<mblock, current_frame_count, durable, received>>
        /\ pc' \in After => pc \in After
        /\ pc' = "closed" => pc = "closed"
    BY <1>12 DEF Crash, vars, FileSame
  <2>2. L' = L /\ D' = D /\ Pending' = Pending
    BY <1>3, <2>1, LoggedSame, LoggedDurable DEF L, D, Pending
  <2> QED BY <1>1, <2>1, <2>2 DEF FileSame
<1> QED
  BY <1>6, <1>7, <1>8, <1>9, <1>10, <1>11, <1>12
  DEF Next, LoggingHandler, TerminateGracefully, Terminate

-----------------------------------------------------------------------------
(* The initial state. *)
LEMMA InitInv ==
    ASSUME Init
    PROVE  IInv
<1> USE DEF Init
<1>1. Len(file) = 0 /\ file \in Seq(Records) /\ durable = 0 /\ current_frame_count = 0
  BY DEF Init
<1>2. mblock \in MBlock
  <2>1. 0 \in 0 .. RX_MOD - 1
    OBVIOUS
  <2> QED BY <2>1, NoFramesType, ZenonT(60) DEF MBlock
<1>3. TypeOK
  BY <1>1, <1>2 DEF TypeOK, Running
<1>4. \A n \in {Len(file), durable} : BlocksIn(n) = {} /\ FramesLogged(n) = {}
  BY <1>1 DEF BlocksIn, FramesLogged
<1>5. Pending = {}
  BY <1>1 DEF Pending
<1>6. BufferInv /\ ParamsInv /\ PlaceInv
  BY <1>1 DEF BufferInv, ParamsInv, PlaceInv, NoFrames, Slots
<1>7. SavedInv
  BY <1>4, <1>5 DEF SavedInv
<1>8. IVInv /\ Decryptable /\ FramesInOrder /\ FreshIVs /\ RxCountTellsFrames
  BY <1>4 DEF IVInv, Decryptable, FramesInOrder, FreshIVs, RxCountTellsFrames
<1>9. RxInv
  <2>1. 0 = 0 * RX_MOD + 0 /\ 0 \in Nat /\ 0 \in 0 .. RX_MOD - 1
    BY SMT
  <2>2. 0 % RX_MOD = 0
    BY <2>1, RemainderIs
  <2> QED BY <2>2 DEF RxInv
<1> QED BY <1>3, <1>6, <1>7, <1>8, <1>9 DEF IInv

(* Each conjunct of IInv is preserved on the strength of the others.       *)
LEMMA StepInv ==
    ASSUME IInv, [Next]_vars
    PROVE  IInv'
<1>1. TypeOK'
  BY TypeStep DEF IInv
<1> QED
  BY <1>1, BufferStep, ParamsStep, PlaceStep, SavedStep, IVStep, RxStep,
     DecryptableStep, OrderStep, RxCountStep
  DEF IInv

-----------------------------------------------------------------------------
(* The inductive invariant of logging.c. *)
THEOREM Invariance == Spec => []IInv
<1>1. IInv /\ UNCHANGED vars => IInv'
  BY StepInv
<1> QED BY InitInv, StepInv, PTL DEF Spec

(* Every buffer index, count and record of logging.c is of its type: the   *)
(* frames of a block never overrun mblock.frames.                          *)
THEOREM TypeCorrect == Spec => []TypeOK
<1>1. IInv => TypeOK
  BY DEF IInv
<1> QED BY <1>1, Invariance, PTL

(* Every undamaged block of the file can be decrypted with what the file   *)
(* holds before it, also when RAND_bytes or fwrite fail.                   *)
THEOREM LogIsDecryptable == Spec => []Decryptable
<1>1. IInv => Decryptable
  BY DEF IInv
<1> QED BY <1>1, Invariance, PTL

(* The file holds the frames in the order of their arrival, none twice.    *)
THEOREM LogIsInOrder == Spec => []FramesInOrder
<1>1. IInv => FramesInOrder
  BY DEF IInv
<1> QED BY <1>1, Invariance, PTL

(* How many frames of a block count can be told from rx_counts alone, for  *)
(* every size of the block below the one at which the counter wraps.       *)
THEOREM RxCountsTell == Spec => []RxCountTellsFrames
<1>1. IInv => RxCountTellsFrames
  BY DEF IInv
<1> QED BY <1>1, Invariance, PTL

(* No iv is used for two blocks.                                           *)
THEOREM IVsAreFresh == Spec => []FreshIVs
<1>1. IInv => FreshIVs
  BY DEF IInv
<1> QED BY <1>1, Invariance, PTL

(* Between logging_handler and the file no frame gets lost.                *)
THEOREM NoFrameLost == Spec => []NothingLost
<1>1. IInv => NothingLost
  BY DEF IInv, SavedInv, NothingLost
<1> QED BY <1>1, Invariance, PTL

(* A crash costs at most the frames of one block.                          *)
THEOREM LossIsBounded == Spec => []BoundedLoss
<1>1. ASSUME IInv PROVE BoundedLoss
  <2>1. current_frame_count \in 0 .. BUFFER_SIZE /\ received \in Nat
    BY <1>1 DEF IInv, TypeOK
  <2>2. SUFFICES ASSUME FLUSH_AT_RUNTIME = 1, "fwrite" \notin failed,
                        NEW n \in 1 .. received, n + BUFFER_SIZE <= received
                 PROVE  n \in FramesLogged(durable)
    BY DEF BoundedLoss
  <2>3. n + current_frame_count <= received
    BY <2>1, <2>2
  <2> QED BY <1>1, <2>2, <2>3 DEF IInv, SavedInv
<1> QED BY <1>1, Invariance, PTL

(* terminate_logging_gracefully leaves every frame received in the file.   *)
THEOREM ClosedIsComplete == Spec => []CompleteAfterClose
<1>1. IInv => CompleteAfterClose
  BY DEF IInv, SavedInv, CompleteAfterClose
<1> QED BY <1>1, Invariance, PTL
=============================================================================
