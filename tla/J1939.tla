------------------------------- MODULE J1939 -------------------------------
(***************************************************************************)
(* The bytes of a struct can_frame and what src/main.c reads from them:    *)
(* parse_J1939 with the masks of inc/local_defs.h, and the fields its      *)
(* receive routines cut out of the data.                                   *)
(*                                                                         *)
(* A frame is a sequence of 16 bytes: 1 .. 4 the identifier, low byte      *)
(* first, 5 the dlc, 6 .. 8 padding, 9 .. 16 the data.                     *)
(***************************************************************************)
EXTENDS Integers, Sequences

FRAME_SIZE == 16
BYTE       == 256

Bytes  == 0 .. BYTE - 1
Frames == [1 .. FRAME_SIZE -> Bytes]

PGN_CruiseControlVehicleSpeed1     == 65265   \* 0xFEF1
PGN_OperatorsExternalLightControls == 64972   \* 0xFDCC
J1939_PGN_REQUEST                  == 59904   \* 0xEA00
J1939_PGN_CLAIM                    == 60928   \* 0xEE00

-----------------------------------------------------------------------------
(* cf.can_id &= 0x1FFFFFFF: the three flags at the top of byte 4 go.       *)
WithoutFlags(frame) == [frame EXCEPT ![4] = @ % 32]

(* The identifier of a frame without flags. *)
CanId(frame) ==
    frame[1] + (frame[2] * 256) + (frame[3] * 65536) + (frame[4] * 16777216)

(* can_id & PDU2_PGN_MASK >> 8, and can_id & PDU1_PGN_MASK >> 8. *)
PDU2WithoutPages(can_id) == (can_id % 16777216) \div 256   \* mutant

PDU2(can_id) == (can_id % 67108864) \div 256
PDU1(can_id) == ((can_id % 67108864) \div 65536) * 256

PF(can_id) == (can_id \div 65536) % 256
PS(can_id) == (can_id \div 256) % 256

parse_J1939(can_id) ==
    [priority |-> can_id \div 67108864,
     pgn      |-> IF PF(can_id) >= 240 THEN PDU2(can_id) ELSE PDU1(can_id),
     da       |-> IF PF(can_id) >= 240 THEN 255 ELSE PS(can_id),
     sa       |-> can_id % 256]

-----------------------------------------------------------------------------
(* rx_brake_routine: buff[3], buff[2], and two bits of buff[4]. *)
Speed(frame)       == (frame[12] * 256) + frame[11]
BrakeSwitch(frame) == (frame[13] \div 4) % 4

(* rx_signal_routine: the high half of buff[1]. *)
Signal(frame) == frame[10] \div 16

(* rx_claim_routine: the data, be64toh, has a smaller value than name.     *)
NameBelow(frame, name) ==
    \E n \in 1 .. 8 :
        /\ frame[8 + n] < name[n]
        /\ \A m \in 1 .. n - 1 : frame[8 + m] = name[m]
=============================================================================
