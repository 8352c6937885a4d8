--------------------------- MODULE MainLoopProofs ---------------------------
(***************************************************************************)
(* Proofs about MainLoop, for every set of frames, length of a read,       *)
(* number of iterations, timer limit and address range.  First that the    *)
(* program implements Bumper and AddressClaim, step by step, so that what  *)
(* is proved of them holds of it; then that what it does agrees with what  *)
(* it has logged.                                                          *)
(***************************************************************************)
EXTENDS MainLoop, TLAPS

(* The theorems about the two components. *)
LP == INSTANCE BumperProofs WITH
    SpeedValues  <- Speeds,
    SignalValues <- 0 .. 15,
    pc           <- LightsPc(pc)

CP == INSTANCE AddressClaimProofs WITH
    NAME  <- 1,
    Names <- {0, 2},
    pc    <- ClaimsPc(pc)

(* The lemmas about the address pool. *)
Search == INSTANCE ChooseNewSaProofs WITH
    current_index <- conf.current_sa,
    iterations    <- 0,
    current_sa    <- conf.current_sa,
    returned      <- FALSE,
    start         <- conf.current_sa,
    pool          <- avail_addrs

-----------------------------------------------------------------------------
(* The assumptions of the components. *)

LEMMA ByteRange == \A x : x \in Bytes <=> x \in Int /\ 0 <= x /\ x <= 255
  <1>1. BYTE = 256
    BY DEF BYTE
  <1> QED BY <1>1 DEF Bytes

LEMMA SpeedBytesRange == SpeedBytes \subseteq Bytes
  <1>1. ASSUME NEW f \in BusFrames \cup StackFrames
        PROVE  f[11] \in Bytes /\ f[12] \in Bytes
    <2>1. f \in Frames
      BY MainLoopAssumption DEF MainLoopAssumption
    <2> QED BY <2>1 DEF Frames, FRAME_SIZE
  <1>2. 0 \in Bytes /\ 255 \in Bytes
    BY ByteRange
  <1> QED BY <1>1, <1>2 DEF SpeedBytes

LEMMA SearchAssumption == Search!AddressPoolAssumption
  BY AddressPoolAssumption DEF AddressPoolAssumption, Search!AddressPoolAssumption

LEMMA LightsAssumption == LP!BumperAssumption
  <1>1. FLASH_TIME \in Nat /\ SIGNAL_TIME \in Nat
    BY MainLoopAssumption DEF MainLoopAssumption
  <1>2. ASSUME NEW high \in SpeedBytes, NEW low \in SpeedBytes
        PROVE  (high * 256) + low \in 0 .. LP!UINT16_MAX
    <2>1. LP!UINT16_MAX \in Int /\ 65535 <= LP!UINT16_MAX
      BY DEF LP!UINT16_MAX
    <2>2. high \in Bytes /\ low \in Bytes
      BY SpeedBytesRange
    <2> QED BY <2>1, <2>2, ByteRange
  <1> QED BY <1>1, <1>2 DEF LP!BumperAssumption, Speeds

LEMMA ClaimsAssumption == CP!AddressClaimAssumption /\ CP!AddressPoolAssumption
  BY MainLoopAssumption, AddressPoolAssumption
     DEF MainLoopAssumption, AddressPoolAssumption,
         CP!AddressClaimAssumption, CP!AddressPoolAssumption

-----------------------------------------------------------------------------
(* Lights and LP, Claims and CP are instances of the same specifications. *)

LEMMA SameFunctions ==
  /\ \A b, s, w : Lights!BrakeFrame(b, s, w) = LP!BrakeFrame(b, s, w)
  /\ \A b, s : Lights!SignalFrame(b, s) = LP!SignalFrame(b, s)
  /\ \A b : Lights!TurnSignal(b) = LP!TurnSignal(b)
  /\ \A b : Lights!Brake(b) = LP!Brake(b)
  /\ \A b : Lights!BrakeFlash(b) = LP!BrakeFlash(b)
  /\ \A b : Lights!BrakeRoutine(b) = LP!BrakeRoutine(b)
  /\ \A b : Lights!Ticked(b) = LP!Ticked(b)
  /\ \A b : [pin \in 1 .. 4 |-> Lights!Duty(Lights!Leds(b)[pin])]
               = [pin \in 1 .. 4 |-> LP!Duty(LP!Leds(b)[pin])]
  <1>1. \A b, s, w : Lights!BrakeFrame(b, s, w) = LP!BrakeFrame(b, s, w)
    BY Zenon DEF Lights!BrakeFrame, LP!BrakeFrame
  <1>2. \A b, s : Lights!SignalFrame(b, s) = LP!SignalFrame(b, s)
    BY Zenon DEF Lights!SignalFrame, LP!SignalFrame
  <1>3. \A b : Lights!TurnSignal(b) = LP!TurnSignal(b)
    BY Zenon DEF Lights!TurnSignal, LP!TurnSignal, Lights!Signalled, LP!Signalled,
       Lights!Hazards, LP!Hazards, Lights!TurnLeft, LP!TurnLeft,
       Lights!TurnRight, LP!TurnRight, Lights!NoTurn, LP!NoTurn,
       Lights!HAZARD, LP!HAZARD, Lights!LEFT, LP!LEFT, Lights!RIGHT, LP!RIGHT,
       Lights!NOT_AVAILABLE, LP!NOT_AVAILABLE
  <1>4. \A b : Lights!Brake(b) = LP!Brake(b)
    BY Zenon DEF Lights!Brake, LP!Brake, Lights!BrakeApplied, LP!BrakeApplied,
       Lights!BrakeReleased, LP!BrakeReleased
  <1>5. \A b : Lights!BrakeFlash(b) = LP!BrakeFlash(b)
    BY Zenon DEF Lights!BrakeFlash, LP!BrakeFlash, Lights!LastFlash, LP!LastFlash
  <1>6. \A b : Lights!BrakeRoutine(b) = LP!BrakeRoutine(b)
    BY <1>4, <1>5, Zenon DEF Lights!BrakeRoutine, LP!BrakeRoutine
  <1>7. \A b : Lights!Ticked(b) = LP!Ticked(b)
    BY Zenon DEF Lights!Ticked, LP!Ticked
  <1>8. \A b : [pin \in 1 .. 4 |-> Lights!Duty(Lights!Leds(b)[pin])]
                 = [pin \in 1 .. 4 |-> LP!Duty(LP!Leds(b)[pin])]
    BY Zenon DEF Lights!Duty, LP!Duty, Lights!Leds, LP!Leds,
       Lights!PWM_LOW, LP!PWM_LOW, Lights!PWM_HIGH, LP!PWM_HIGH
  <1> QED BY <1>1, <1>2, <1>3, <1>4, <1>5, <1>6, <1>7, <1>8, Zenon

LEMMA SameLights == Lights!Spec => LP!Spec
  <1>1. Lights!Init => LP!Init
    BY DEF Lights!Init, LP!Init, Lights!InitBumper, LP!InitBumper,
           Lights!PWM_LOW, LP!PWM_LOW
  <1>2. [Lights!Next]_(Lights!vars) => [LP!Next]_(LP!vars)
    <2>1. Lights!Receive => LP!Receive
      BY SameFunctions, Zenon DEF Lights!Receive, LP!Receive, Lights!RxBrake, LP!RxBrake,
         Lights!RxSignal, LP!RxSignal, Lights!RxNothing, LP!RxNothing,
         Lights!Exit, LP!Exit
    <2> QED
      BY <2>1, SameFunctions, Zenon
         DEF Lights!Next, LP!Next, Lights!Main, LP!Main, Lights!vars, LP!vars,
             Lights!RunTurnSignal, LP!RunTurnSignal, Lights!RunBrake, LP!RunBrake,
             Lights!SetDuty, LP!SetDuty, Lights!Tick, LP!Tick
  <1> QED BY <1>1, <1>2, PTL DEF Lights!Spec, LP!Spec

LEMMA SameConstants ==
  /\ Claims!STATE_INITIAL = CP!STATE_INITIAL
  /\ Claims!STATE_OPERATIONAL = CP!STATE_OPERATIONAL
  /\ Claims!STATE_DEFUNCT = CP!STATE_DEFUNCT
  /\ Claims!NoFrame = CP!NoFrame
  /\ \A m : Claims!ClaimFrame(m) = CP!ClaimFrame(m)
  /\ \A a : Claims!StatusFrame(a) = CP!StatusFrame(a)
  /\ Dynamic = CP!Dynamic
  /\ \A i, avail : ChooseNewSA(i, avail) = CP!ChooseNewSA(i, avail)
  <1>1. Dynamic = CP!Dynamic
    BY DEF Dynamic, CP!Dynamic
  <1>2. \A i, avail : FirstAvailable(i, avail) = CP!FirstAvailable(i, avail)
    BY Zenon DEF FirstAvailable, CP!FirstAvailable, Distance, CP!Distance
  <1> QED
    BY <1>1, <1>2, Zenon
       DEF Claims!STATE_INITIAL, CP!STATE_INITIAL, Claims!STATE_OPERATIONAL,
           CP!STATE_OPERATIONAL, Claims!STATE_DEFUNCT, CP!STATE_DEFUNCT,
           Claims!NoFrame, CP!NoFrame, Claims!ClaimFrame, CP!ClaimFrame,
           Claims!StatusFrame, CP!StatusFrame, ChooseNewSA, CP!ChooseNewSA

(* An action of the one is the action of the other. *)
LEMMA SameClaimSteps ==
  /\ Claims!Init => CP!Init
  /\ [Claims!Next]_(Claims!vars) => [CP!Next]_(CP!vars)
  <1>1. Claims!Init => CP!Init
    BY SameConstants, Zenon
       DEF Claims!Init, CP!Init, Claims!InitialClaim, CP!InitialClaim,
           Claims!Dynamic, CP!Dynamic
  <1>2. \A a : Claims!Holding(a) = CP!Holding(a)
    BY SameConstants, Zenon DEF Claims!Holding, CP!Holding
  <1>3. /\ \A m : Claims!SendClaim(m) <=> CP!SendClaim(m)
        /\ Claims!SendNothing <=> CP!SendNothing
    BY SameConstants, Zenon
       DEF Claims!SendClaim, CP!SendClaim, Claims!SendNothing, CP!SendNothing
  <1>4. Claims!Dynamic = CP!Dynamic /\ Claims!Addresses = CP!Addresses
    BY Zenon DEF Claims!Dynamic, CP!Dynamic, Claims!Addresses, CP!Addresses
  <1>5. \A i, avail : Claims!ChooseNewSA(i, avail) = CP!ChooseNewSA(i, avail)
    <2>1. \A i, avail : Claims!FirstAvailable(i, avail) = CP!FirstAvailable(i, avail)
      BY Zenon DEF Claims!FirstAvailable, CP!FirstAvailable,
                   Claims!Distance, CP!Distance
    <2> QED BY <2>1, Zenon DEF Claims!ChooseNewSA, CP!ChooseNewSA
  <1>6. Claims!RxClaim => CP!RxClaim
    <2>1. Claims!LoseAddress => CP!LoseAddress
      BY <1>2, <1>3, <1>5, Zenon DEF Claims!LoseAddress, CP!LoseAddress
    <2>2. Claims!DefendAddress => CP!DefendAddress
      BY <1>2, <1>3, Zenon DEF Claims!DefendAddress, CP!DefendAddress
    <2>3. Claims!OtherClaim => CP!OtherClaim
      BY <1>3, <1>4, Zenon DEF Claims!OtherClaim, CP!OtherClaim
    <2> QED BY <2>1, <2>2, <2>3 DEF Claims!RxClaim, CP!RxClaim
  <1>7. Claims!Receive => CP!Receive
    BY <1>3, <1>4, <1>6, SameConstants, Zenon
       DEF Claims!Receive, CP!Receive, Claims!RxRequest, CP!RxRequest,
           Claims!RxOther, CP!RxOther, Claims!Exit, CP!Exit
  <1>8. Claims!Report => CP!Report
    BY SameConstants, Zenon
       DEF Claims!Report, CP!Report, Claims!GoOperational, CP!GoOperational,
           Claims!ReportStatus, CP!ReportStatus, Claims!NoReport, CP!NoReport
  <1>9. Claims!Boot => CP!Boot
    BY SameConstants, Zenon DEF Claims!Boot, CP!Boot
  <1>10. Claims!Alarm => CP!Alarm
    BY Zenon DEF Claims!Alarm, CP!Alarm
  <1> QED
    BY <1>1, <1>7, <1>8, <1>9, <1>10, Zenon
       DEF Claims!Next, CP!Next, Claims!vars, CP!vars

-----------------------------------------------------------------------------
(* The invariant of the loop: TypeOK, the count of iterations against the  *)
(* length of the log, and the bytes the speed is made of.                  *)

Middle == {"dispatch", "turn", "brake", "gpio", "report"}

LoopInv ==
    /\ TypeOK
    /\ cf[11] \in SpeedBytes /\ cf[12] \in SpeedBytes
    /\ pc \in Middle => iteration < NR_ITERATIONS
    /\ pc \in {"socket", "boot", "select"} => Len(log) <= iteration
    /\ pc \in {"socket", "boot"} =>
           tx = Claims!NoFrame /\ conf = [conf EXCEPT !.sig_alrm = FALSE]

LEMMA FrameBytes ==
  ASSUME NEW f \in Frames, NEW k \in 1 .. 16
  PROVE  f[k] \in Bytes
  BY DEF Frames, FRAME_SIZE

LEMMA FlagsGone ==
  ASSUME NEW f \in Frames
  PROVE  /\ WithoutFlags(f) \in Frames
         /\ \A k \in 1 .. 16 : k # 4 => WithoutFlags(f)[k] = f[k]
         /\ WithoutFlags(f)[4] = f[4] % 32
  <1>1. f[4] % 32 \in Bytes
    BY FrameBytes, ByteRange
  <1> QED BY <1>1 DEF WithoutFlags, Frames, FRAME_SIZE

LEMMA OverlaidOK ==
  ASSUME cf \in Frames, cf[11] \in SpeedBytes, cf[12] \in SpeedBytes,
         NEW frame \in BusFrames, NEW n
  PROVE  /\ Overlaid(frame, n) \in Frames
         /\ Overlaid(frame, n)[11] \in SpeedBytes
         /\ Overlaid(frame, n)[12] \in SpeedBytes
  <1>1. frame \in Frames
    BY MainLoopAssumption DEF MainLoopAssumption
  <1>2. frame[11] \in SpeedBytes /\ frame[12] \in SpeedBytes
    BY DEF SpeedBytes
  <1> QED BY <1>1, <1>2 DEF Overlaid, Frames, FRAME_SIZE

LEMMA ReportOK ==
  ASSUME cf \in Frames, conf.current_sa \in Dynamic
  PROVE  /\ StatusReport \in Frames
         /\ StatusReport[11] \in SpeedBytes
         /\ StatusReport[12] \in SpeedBytes
  <1> DEFINE led(k) == IF Lights!Leds(bumper)[k] THEN 255 ELSE 0
  <1>1. \A k : led(k) \in {0, 255}
    OBVIOUS
  <1>2. conf.current_sa \in Bytes
    BY AddressPoolAssumption, MainLoopAssumption, ByteRange
       DEF AddressPoolAssumption, MainLoopAssumption, Dynamic
  <1>3. cf[6] \in Bytes /\ cf[7] \in Bytes /\ cf[8] \in Bytes
    BY FrameBytes
  <1>4. StatusReport = <<conf.current_sa, 64, 254, 156, 8, cf[6], cf[7], cf[8],
                         0, led(1), 0, led(2), 0, led(3), 0, led(4)>>
    BY Zenon DEF StatusReport
  <1>0. \A x \in {64, 254, 156, 8, 0, led(1), led(2), led(3), led(4)} : x \in Bytes
    BY <1>1, ByteRange
  <1> HIDE DEF led
  <1>5. StatusReport \in Frames
    BY <1>0, <1>2, <1>3, <1>4 DEF Frames, FRAME_SIZE
  <1>6. StatusReport[11] = 0 /\ StatusReport[12] = led(2)
    BY <1>4
  <1>7. 0 \in SpeedBytes /\ 255 \in SpeedBytes
    BY DEF SpeedBytes
  <1> QED BY <1>1, <1>5, <1>6, <1>7

-----------------------------------------------------------------------------
(* Every step of main is a step of each component, or none of its business. *)

LEMMA LightsPcIs ==
  /\ LightsPc("socket") = "rx" /\ LightsPc("boot") = "rx"
  /\ LightsPc("select") = "rx" /\ LightsPc("dispatch") = "rx" /\ LightsPc("report") = "rx"
  /\ LightsPc("exited") = "exited" /\ LightsPc("ended") = "exited"
  /\ LightsPc("turn") = "turn" /\ LightsPc("brake") = "brake" /\ LightsPc("gpio") = "gpio"
  BY Zenon DEF LightsPc

LEMMA ClaimsPcIs ==
  /\ ClaimsPc("socket") = "boot" /\ ClaimsPc("boot") = "boot"
  /\ ClaimsPc("select") = "rx" /\ ClaimsPc("dispatch") = "rx"
  /\ ClaimsPc("turn") = "report" /\ ClaimsPc("brake") = "report"
  /\ ClaimsPc("gpio") = "report" /\ ClaimsPc("report") = "report"
  /\ ClaimsPc("exited") = "exited" /\ ClaimsPc("ended") = "exited"
  BY Zenon DEF ClaimsPc

(* What the receive routines cut out of the data is in range. *)
LEMMA FieldsInRange ==
  ASSUME cf \in Frames, cf[11] \in SpeedBytes, cf[12] \in SpeedBytes
  PROVE  /\ Speed(cf) \in Speeds
         /\ BrakeSwitch(cf) \in 0 .. 3
         /\ Signal(cf) \in 0 .. 15
         /\ Parsed.sa \in 0 .. GLOBAL_ADDR
         /\ Parsed.da \in 0 .. GLOBAL_ADDR
  <1>1. Speed(cf) \in Speeds
    BY DEF Speed, Speeds
  <1>2. BrakeSwitch(cf) \in 0 .. 3
    BY FrameBytes, ByteRange DEF BrakeSwitch
  <1>3. Signal(cf) \in 0 .. 15
    BY FrameBytes, ByteRange DEF Signal
  <1>4. CanId(cf) \in Nat
    BY FrameBytes, ByteRange DEF CanId
  <1>5. GLOBAL_ADDR \in Int /\ 255 <= GLOBAL_ADDR
    BY MainLoopAssumption DEF MainLoopAssumption
  <1>6. \A n \in Nat : n % 256 \in 0 .. GLOBAL_ADDR
    BY <1>5
  <1>7. Parsed.sa = CanId(cf) % 256
    BY SMT DEF Parsed, parse_J1939
  <1>8. Parsed.da = IF PF(CanId(cf)) >= 240 THEN 255 ELSE PS(CanId(cf))
    BY SMT DEF Parsed, parse_J1939
  <1>9. PS(CanId(cf)) \in 0 .. GLOBAL_ADDR
    BY <1>4, <1>6 DEF PS
  <1> QED BY <1>1, <1>2, <1>3, <1>4, <1>5, <1>6, <1>7, <1>8, <1>9

(* Between the iterations the lights stay as they are, or main has exited.  *)
LEMMA RestsOrExits ==
  ASSUME bumper' = bumper, duty' = duty,
         LightsPc(pc) = "rx", LightsPc(pc') \in {"rx", "exited"}
  PROVE  [Lights!Next]_(Lights!vars)
  <1>1. CASE LightsPc(pc') = "rx"
    BY <1>1 DEF Lights!vars
  <1>2. CASE LightsPc(pc') = "exited"
    <2>1. Lights!Exit
      BY <1>2, Zenon DEF Lights!Exit
    <2> QED BY <2>1 DEF Lights!Next, Lights!Main, Lights!Receive
  <1> QED BY <1>1, <1>2

LEMMA LightsSimulation ==
  ASSUME LoopInv, [Next]_vars
  PROVE  [Lights!Next]_(Lights!vars)
  <1> USE LightsPcIs
  <1>t. cf \in Frames /\ cf[11] \in SpeedBytes /\ cf[12] \in SpeedBytes
    BY DEF LoopInv, TypeOK
  <1>1. CASE RxBrake
    <2>1. bumper' = Lights!BrakeFrame(bumper, Speed(cf), BrakeSwitch(cf))
      BY <1>1 DEF RxBrake
    <2>2. pc = "dispatch" /\ pc' = "turn" /\ duty' = duty
      BY <1>1 DEF RxBrake, Dispatched, SendNothing
    <2>3. Lights!RxBrake
      BY <1>t, <2>1, <2>2, FieldsInRange, Zenon DEF Lights!RxBrake
    <2> QED BY <2>3 DEF Lights!Next, Lights!Main, Lights!Receive
  <1>2. CASE RxSignal
    <2>1. bumper' = Lights!SignalFrame(bumper, Signal(cf))
      BY <1>2 DEF RxSignal
    <2>2. pc = "dispatch" /\ pc' = "turn" /\ duty' = duty
      BY <1>2 DEF RxSignal, Dispatched, SendNothing
    <2>3. Lights!RxSignal
      BY <1>t, <2>1, <2>2, FieldsInRange, Zenon DEF Lights!RxSignal
    <2> QED BY <2>3 DEF Lights!Next, Lights!Main, Lights!Receive
  <1>3. CASE SelectNothing \/ RxClaim \/ RxRequest \/ RxUnknown
    <2>1. bumper' = bumper /\ duty' = duty
      BY <1>3 DEF SelectNothing, RxClaim, RxRequest, RxUnknown, lightVars
    <2>2. pc \in {"select", "dispatch"} /\ pc' \in {"turn", "exited"}
      BY <1>3, Zenon DEF SelectNothing, RxClaim, LoseAddress, DefendAddress, OtherClaim,
                  RxRequest, RxUnknown, Dispatched, SendClaim, SendNothing
    <2>3. Lights!RxNothing \/ Lights!Exit
      BY <2>1, <2>2, Zenon DEF Lights!RxNothing, Lights!Exit
    <2> QED BY <2>3 DEF Lights!Next, Lights!Main, Lights!Receive
  <1>4. CASE RunTurnSignal
    <2>1. Lights!RunTurnSignal
      BY <1>4, Zenon DEF RunTurnSignal, Lights!RunTurnSignal
    <2> QED BY <2>1 DEF Lights!Next, Lights!Main
  <1>5. CASE RunBrake
    <2>1. Lights!RunBrake
      BY <1>5, Zenon DEF RunBrake, Lights!RunBrake
    <2> QED BY <2>1 DEF Lights!Next, Lights!Main
  <1>6. CASE SetDuty
    <2>1. Lights!SetDuty
      BY <1>6, Zenon DEF SetDuty, Lights!SetDuty
    <2> QED BY <2>1 DEF Lights!Next, Lights!Main
  <1>7. CASE Tick
    <2>1. LightsPc(pc) # "exited" /\ LightsPc(pc') = LightsPc(pc)
      BY <1>7 DEF Tick, InLoop
    <2>2. Lights!Tick
      BY <1>7, <2>1, Zenon DEF Tick, Lights!Tick
    <2> QED BY <2>2 DEF Lights!Next
  <1>8. CASE InitCan \/ Killed \/ Boot \/ Read \/ ReadFails \/ Finish
    <2>1. bumper' = bumper /\ duty' = duty
      BY <1>8 DEF InitCan, Killed, Boot, Read, ReadFails, Finish, lightVars
    <2>2. LightsPc(pc) = "rx" /\ LightsPc(pc') \in {"rx", "exited"}
      BY <1>8, Zenon DEF InitCan, Killed, Boot, Read, ReadFails, Finish
    <2> QED BY <2>1, <2>2, RestsOrExits
  <1>9. CASE Report
    <2>1. bumper' = bumper /\ duty' = duty
      BY <1>9 DEF Report, lightVars
    <2>2. LightsPc(pc) = "rx" /\ LightsPc(pc') \in {"rx", "exited"}
      BY <1>9, Zenon DEF Report, GoOperational, NotOperational, ReportStatus
    <2> QED BY <2>1, <2>2, RestsOrExits
  <1>10. CASE Alarm \/ Terminate \/ UNCHANGED vars
    <2>1. bumper' = bumper /\ duty' = duty /\ pc' = pc
      BY <1>10 DEF Alarm, Terminate, vars, lightVars
    <2> QED BY <2>1 DEF Lights!vars
  <1> QED
    BY <1>1, <1>2, <1>3, <1>4, <1>5, <1>6, <1>7, <1>8, <1>9, <1>10
       DEF Next, Setup, Main, Receive, Dispatch

LEMMA SamePool ==
  /\ Dynamic = Claims!Dynamic
  /\ \A i, avail : ChooseNewSA(i, avail) = Claims!ChooseNewSA(i, avail)
  <1>1. \A i, avail : FirstAvailable(i, avail) = Claims!FirstAvailable(i, avail)
    BY Zenon DEF FirstAvailable, Claims!FirstAvailable, Distance, Claims!Distance
  <1> QED
    BY <1>1, Zenon DEF Dynamic, Claims!Dynamic, ChooseNewSA, Claims!ChooseNewSA

(* Both know the frame that is written and who is told. *)
LEMMA SameSends ==
  ASSUME pc = "dispatch"
  PROVE  /\ \A m : SendClaim(m) => Claims!SendClaim(m)
         /\ SendNothing => Claims!SendNothing
  BY ClaimsPcIs, Zenon
     DEF SendClaim, Claims!SendClaim, SendNothing, Claims!SendNothing

LEMMA ClaimsSimulation ==
  ASSUME LoopInv, [Next]_vars
  PROVE  [Claims!Next]_(Claims!vars)
  <1> USE ClaimsPcIs
  <1>t. cf \in Frames /\ cf[11] \in SpeedBytes /\ cf[12] \in SpeedBytes
    BY DEF LoopInv, TypeOK
  <1>1. CASE InitCan \/ Read \/ RunTurnSignal \/ RunBrake \/ SetDuty \/ Terminate \/ Tick
    <2>1. UNCHANGED claimVars /\ tx' = tx
      BY <1>1, Zenon DEF InitCan, Read, RunTurnSignal, RunBrake, SetDuty, Terminate, Tick
    <2>2. ClaimsPc(pc') = ClaimsPc(pc)
      BY <1>1, Zenon DEF InitCan, Read, RunTurnSignal, RunBrake, SetDuty, Terminate, Tick
    <2> QED BY <2>1, <2>2 DEF claimVars, Claims!vars
  <1>2. CASE Boot
    <2>1. Claims!Boot
      BY <1>2, Zenon DEF Boot, Claims!Boot
    <2> QED BY <2>1 DEF Claims!Next
  <1>3. CASE SelectNothing \/ RxBrake \/ RxSignal \/ RxUnknown
    <2>1. Claims!RxOther
      BY <1>3, SameSends, Zenon
         DEF SelectNothing, RxBrake, RxSignal, RxUnknown, Dispatched, claimVars,
             Claims!RxOther, Claims!SendNothing
    <2> QED BY <2>1 DEF Claims!Next, Claims!Receive
  <1>4. CASE ReadFails \/ Finish
    <2>1. Claims!Exit
      BY <1>4, Zenon DEF ReadFails, Finish, claimVars, Claims!Exit
    <2> QED BY <2>1 DEF Claims!Next, Claims!Receive
  <1>5. CASE RxClaim
    <2>0. pc = "dispatch" /\ armed' = armed
      BY <1>5 DEF RxClaim, Dispatched
    <2>1. CASE LoseAddress
      <3>1. \E name \in {0, 2} : name < 1
        OBVIOUS
      <3>2. Claims!LoseAddress
        BY <2>0, <2>1, <3>1, SameSends, SamePool, Zenon
           DEF LoseAddress, Claims!LoseAddress
      <3> QED BY <3>2 DEF Claims!Next, Claims!Receive, Claims!RxClaim
    <2>2. CASE DefendAddress
      <3>1. \E name \in {0, 2} : name >= 1
        OBVIOUS
      <3>2. Claims!DefendAddress
        BY <2>0, <2>2, <3>1, SameSends, Zenon DEF DefendAddress, Claims!DefendAddress
      <3> QED BY <3>2 DEF Claims!Next, Claims!Receive, Claims!RxClaim
    <2>3. CASE OtherClaim
      <3>1. Parsed.sa \in Claims!Addresses \ {conf.current_sa}
        BY <1>t, <2>3, FieldsInRange DEF OtherClaim, Claims!Addresses
      <3>2. PICK name \in {0, 2} : name < 1 <=> NameBelow(cf, NAME)
        <4>1. CASE NameBelow(cf, NAME)
          <5>1. 0 \in {0, 2} /\ 0 < 1
            OBVIOUS
          <5> QED BY <4>1, <5>1, Zenon
        <4>2. CASE ~NameBelow(cf, NAME)
          <5>1. 2 \in {0, 2} /\ ~(2 < 1)
            OBVIOUS
          <5> QED BY <4>2, <5>1, Zenon
        <4> QED BY <4>1, <4>2
      <3>3. Claims!OtherClaim
        BY <2>0, <2>3, <3>1, <3>2, SameSends, SamePool, Zenon
           DEF OtherClaim, Claims!OtherClaim
      <3> QED BY <3>3 DEF Claims!Next, Claims!Receive, Claims!RxClaim
    <2> QED BY <1>5, <2>1, <2>2, <2>3 DEF RxClaim
  <1>6. CASE RxRequest
    <2>0. pc = "dispatch"
      BY <1>6 DEF RxRequest, Dispatched
    <2>1. Parsed.da \in Claims!Addresses
      BY <1>t, FieldsInRange DEF Claims!Addresses
    <2>2. Claims!RxRequest
      BY <1>6, <2>0, <2>1, SameSends, Zenon DEF RxRequest, Claims!RxRequest
    <2> QED BY <2>2 DEF Claims!Next, Claims!Receive
  <1>7. CASE Killed
    <2>1. UNCHANGED claimVars /\ tx' = tx /\ pc \in {"socket", "boot"} /\ pc' = "exited"
      BY <1>7 DEF Killed
    <2>2. tx = Claims!NoFrame /\ conf = [conf EXCEPT !.sig_alrm = FALSE]
      BY <2>1 DEF LoopInv
    <2>3. Claims!Boot
      BY <2>1, <2>2, Zenon DEF claimVars, Claims!Boot
    <2> QED BY <2>3 DEF Claims!Next
  <1>8. CASE Report
    <2>1. CASE GoOperational
      <3>1. Claims!GoOperational
        BY <1>8, <2>1, Zenon DEF Report, GoOperational, Claims!GoOperational
      <3> QED BY <3>1 DEF Claims!Next, Claims!Report
    <2>2. CASE NotOperational
      <3>1. Claims!NoReport
        BY <1>8, <2>2, Zenon DEF Report, NotOperational, Claims!NoReport
      <3> QED BY <3>1 DEF Claims!Next, Claims!Report
    <2>3. CASE ReportStatus
      <3>1. Claims!STATE_OPERATIONAL # Claims!STATE_INITIAL
        BY DEF Claims!STATE_OPERATIONAL, Claims!STATE_INITIAL
      <3>2. Claims!ReportStatus \/ Claims!NoReport
        BY <1>8, <2>3, <3>1, Zenon
           DEF Report, ReportStatus, Claims!ReportStatus, Claims!NoReport
      <3> QED BY <3>2 DEF Claims!Next, Claims!Report
    <2> QED BY <1>8, <2>1, <2>2, <2>3 DEF Report
  <1>9. CASE Alarm
    <2>1. ClaimsPc(pc) # "exited" /\ ClaimsPc(pc') = ClaimsPc(pc)
      BY <1>9, Zenon DEF Alarm, InLoop
    <2>2. Claims!Alarm
      BY <1>9, <2>1, Zenon DEF Alarm, Claims!Alarm
    <2> QED BY <2>2 DEF Claims!Next
  <1>10. CASE UNCHANGED vars
    <2>1. UNCHANGED claimVars /\ tx' = tx /\ pc' = pc
      BY <1>10 DEF vars, claimVars
    <2> QED BY <2>1 DEF claimVars, Claims!vars
  <1> QED
    BY <1>1, <1>2, <1>3, <1>4, <1>5, <1>6, <1>7, <1>8, <1>9, <1>10
       DEF Next, Setup, Main, Receive, Dispatch

-----------------------------------------------------------------------------
(* The loop keeps its invariant, given that of the address claim: the      *)
(* status report puts the address into cf.                                 *)
LEMMA LoopStep ==
  ASSUME LoopInv, conf.current_sa \in Dynamic, [Next]_vars
  PROVE  LoopInv'
  <1> USE DEF LoopInv
  <1>t. /\ sig_term \in BOOLEAN /\ cf \in Frames
        /\ pc \in {"socket", "boot", "exited", "ended"} \cup InLoop
        /\ iteration \in 0 .. NR_ITERATIONS
        /\ log \in Seq(Frames) /\ Len(log) <= iteration + 1
        /\ wfd \in {"open", "closed"}
    BY DEF TypeOK
  <1>n. NR_ITERATIONS \in Nat
    BY MainLoopAssumption DEF MainLoopAssumption
  <1>1. CASE InitCan \/ Killed \/ Boot
    <2>1. UNCHANGED <<sig_term, iteration, log, wfd, cf>>
      BY <1>1 DEF InitCan, Killed, Boot, loopVars
    <2>2. CASE InitCan
      <3>1. pc = "socket" /\ pc' = "boot" /\ tx' = tx /\ conf' = conf
        BY <2>2 DEF InitCan, claimVars
      <3> QED BY <1>t, <2>1, <3>1 DEF TypeOK, InLoop, Middle
    <2>3. CASE Killed
      <3>1. pc' = "exited"
        BY <2>3 DEF Killed
      <3> QED BY <1>t, <2>1, <3>1 DEF TypeOK, InLoop, Middle
    <2>4. CASE Boot
      <3>1. pc = "boot" /\ pc' \in {"select", "exited"}
        BY <2>4 DEF Boot
      <3> QED BY <1>t, <2>1, <3>1 DEF TypeOK, InLoop, Middle
    <2> QED BY <1>1, <2>2, <2>3, <2>4
  <1>2. CASE SelectNothing \/ ReadFails
    <2>1. UNCHANGED <<sig_term, iteration, log, wfd, cf>>
      BY <1>2 DEF SelectNothing, ReadFails, loopVars
    <2>2. pc = "select" /\ iteration < NR_ITERATIONS /\ pc' \in {"turn", "exited"}
      BY <1>2 DEF SelectNothing, ReadFails
    <2> QED BY <1>t, <2>1, <2>2 DEF TypeOK, InLoop, Middle
  <1>3. CASE Read
    <2>1. PICK frame \in BusFrames, n \in ReadLengths :
              /\ log' = Append(log, Overlaid(frame, n))
              /\ cf' = WithoutFlags(Overlaid(frame, n))
      BY <1>3 DEF Read
    <2> DEFINE f == Overlaid(frame, n)
    <2>2. f \in Frames /\ f[11] \in SpeedBytes /\ f[12] \in SpeedBytes
      BY <1>t, OverlaidOK
    <2>3. log' = Append(log, f) /\ cf' = WithoutFlags(f)
      BY <2>1
    <2> HIDE DEF f
    <2>4. cf' \in Frames /\ cf'[11] \in SpeedBytes /\ cf'[12] \in SpeedBytes
      BY <2>2, <2>3, FlagsGone
    <2>5. log' \in Seq(Frames) /\ Len(log') = Len(log) + 1
      BY <1>t, <2>2, <2>3
    <2>6. /\ pc = "select" /\ iteration < NR_ITERATIONS /\ pc' = "dispatch"
          /\ UNCHANGED <<sig_term, iteration, wfd>>
      BY <1>3 DEF Read
    <2> QED BY <1>t, <2>4, <2>5, <2>6 DEF TypeOK, InLoop, Middle
  <1>4. CASE Finish
    <2>1. UNCHANGED <<sig_term, iteration, log, cf>> /\ wfd' = "closed" /\ pc' = "ended"
      BY <1>4 DEF Finish
    <2> QED BY <1>t, <2>1 DEF TypeOK, InLoop, Middle
  <1>5. CASE RxBrake \/ RxSignal \/ RxClaim \/ RxRequest \/ RxUnknown
    <2>1. UNCHANGED <<sig_term, iteration, log, wfd, cf>>
      BY <1>5 DEF RxBrake, RxSignal, RxClaim, RxRequest, RxUnknown, loopVars
    <2>2. pc = "dispatch" /\ pc' \in {"turn", "exited"}
      BY <1>5, Zenon DEF RxBrake, RxSignal, RxClaim, LoseAddress, DefendAddress,
                  OtherClaim, RxRequest, RxUnknown, Dispatched, SendClaim, SendNothing
    <2> QED BY <1>t, <2>1, <2>2 DEF TypeOK, InLoop, Middle
  <1>6. CASE RunTurnSignal \/ RunBrake \/ SetDuty
    <2>1. UNCHANGED <<sig_term, iteration, log, wfd, cf>>
      BY <1>6 DEF RunTurnSignal, RunBrake, SetDuty, loopVars
    <2>2. pc \in {"turn", "brake", "gpio"} /\ pc' \in {"brake", "gpio", "report"}
      BY <1>6 DEF RunTurnSignal, RunBrake, SetDuty
    <2> QED BY <1>t, <2>1, <2>2 DEF TypeOK, InLoop, Middle
  <1>7. CASE Report
    <2>1. /\ UNCHANGED <<sig_term, log, wfd>> /\ iteration' = iteration + 1
          /\ pc = "report"
      BY <1>7 DEF Report, NextIteration
    <2>2. pc' \in {"select", "exited"}
      BY <1>7, Zenon DEF Report, GoOperational, ReportStatus, NotOperational
    <2>3. cf' = cf \/ cf' = StatusReport
      BY <1>7, Zenon DEF Report, GoOperational, ReportStatus, NotOperational
    <2>4. cf' \in Frames /\ cf'[11] \in SpeedBytes /\ cf'[12] \in SpeedBytes
      BY <1>t, <2>3, ReportOK
    <2>5. iteration < NR_ITERATIONS
      BY <2>1 DEF Middle
    <2>6. iteration' \in 0 .. NR_ITERATIONS /\ Len(log') <= iteration'
      BY <1>t, <1>n, <2>1, <2>5
    <2> QED BY <1>t, <2>1, <2>2, <2>4, <2>6 DEF TypeOK, InLoop, Middle
  <1>8. CASE Alarm \/ Terminate \/ Tick
    <2>1. UNCHANGED <<iteration, log, wfd, cf, pc>> /\ sig_term' \in BOOLEAN
      BY <1>8, <1>t DEF Alarm, Terminate, Tick, loopVars
    <2>2. pc \in InLoop
      BY <1>8 DEF Alarm, Terminate, Tick
    <2> QED BY <1>t, <2>1, <2>2 DEF TypeOK, InLoop, Middle
  <1>9. CASE UNCHANGED vars
    BY <1>9, <1>t DEF vars, TypeOK, InLoop, Middle
  <1> QED
    BY <1>1, <1>2, <1>3, <1>4, <1>5, <1>6, <1>7, <1>8, <1>9
       DEF Next, Setup, Main, Receive, Dispatch

LEMMA WritesItself ==
  ASSUME NEW c \in CP!ConfType, c.sig_alrm = FALSE
  PROVE  c = [c EXCEPT !.sig_alrm = FALSE]
  BY Zenon DEF CP!ConfType

LEMMA LoopInit == Init => LoopInv
  <1> SUFFICES ASSUME Init PROVE LoopInv  OBVIOUS
  <1>1. cf \in Frames
    BY MainLoopAssumption DEF Init, MainLoopAssumption
  <1>2. cf[11] \in SpeedBytes /\ cf[12] \in SpeedBytes
    BY DEF Init, SpeedBytes
  <1>3. tx = Claims!NoFrame /\ conf = [conf EXCEPT !.sig_alrm = FALSE]
    <2>1. conf = [current_sa |-> DYNAMIC_MIN, state |-> Claims!STATE_INITIAL,
                  sig_alrm |-> FALSE, claim_msg |-> Claims!InitialClaim]
      BY Zenon DEF Init, Claims!Init
    <2>2. conf \in CP!ConfType
      BY SameClaimSteps, CP!InitOK, ClaimsAssumption DEF Init, CP!IInv, CP!TypeOK
    <2>4. conf.sig_alrm = FALSE
      BY <2>1
    <2>5. conf = [conf EXCEPT !.sig_alrm = FALSE]
      BY <2>2, <2>4, WritesItself
    <2>3. tx = Claims!NoFrame
      BY Zenon DEF Init, Claims!Init
    <2> QED BY <2>3, <2>5
  <1>4. /\ pc = "socket" /\ sig_term = FALSE /\ iteration = 0
        /\ log = <<>> /\ wfd = "open"
    BY DEF Init
  <1>5. NR_ITERATIONS \in Nat
    BY MainLoopAssumption DEF MainLoopAssumption
  <1>6. TypeOK
    <2>1. <<>> \in Seq(Frames) /\ Len(<<>>) = 0
      OBVIOUS
    <2>2. log \in Seq(Frames) /\ Len(log) = 0
      BY <1>4, <2>1, Zenon
    <2>3. iteration \in 0 .. NR_ITERATIONS /\ Len(log) <= iteration + 1
      BY <1>4, <1>5, <2>2
    <2>4. sig_term \in BOOLEAN /\ pc = "socket" /\ wfd = "open"
      BY <1>4
    <2> QED BY <1>1, <2>2, <2>3, <2>4 DEF TypeOK, InLoop
  <1>7. Len(log) <= iteration
    BY <1>4
  <1> QED BY <1>2, <1>3, <1>4, <1>6, <1>7 DEF LoopInv, Middle

(* The address claim and the loop around it keep each other in order.      *)
LEMMA JointInvariance == Spec => [](LoopInv /\ CP!IInv)
  <1>1. Init => LoopInv /\ CP!IInv
    BY LoopInit, SameClaimSteps, CP!InitOK, ClaimsAssumption DEF Init
  <1>2. LoopInv /\ CP!IInv /\ [Next]_vars => LoopInv' /\ CP!IInv'
    <2> SUFFICES ASSUME LoopInv, CP!IInv, [Next]_vars PROVE LoopInv' /\ CP!IInv'
      OBVIOUS
    <2>1. conf.current_sa \in Dynamic
      BY SameConstants DEF CP!IInv, CP!TypeOK, CP!ConfType
    <2>2. LoopInv'
      BY <2>1, LoopStep
    <2>3. [CP!Next]_(CP!vars)
      BY ClaimsSimulation, SameClaimSteps
    <2>4. CP!IInv'
      BY <2>3, CP!StepOK, ClaimsAssumption
    <2> QED BY <2>2, <2>4
  <1> QED BY <1>1, <1>2, PTL DEF Spec

(* main implements its two components: through the frame buffer they       *)
(* share, the ways out of the loop and the signal handler, every step is   *)
(* one that Bumper allows and one that AddressClaim allows.                *)
THEOREM Refinement == Spec => RunsComponents
  <1>1. Init => Lights!Init /\ Claims!Init
    BY DEF Init
  <1>2. LoopInv /\ [Next]_vars => /\ [Lights!Next]_(Lights!vars)
                                 /\ [Claims!Next]_(Claims!vars)
    BY LightsSimulation, ClaimsSimulation
  <1> QED
    BY <1>1, <1>2, JointInvariance, PTL DEF Spec, RunsComponents, Lights!Spec, Claims!Spec

(* The frame buffer holds a frame and the log frames, at most one for each *)
(* iteration begun, in every state of main.                                *)
THEOREM TypeCorrect == Spec => []TypeOK
  <1>1. LoopInv => TypeOK
    BY DEF LoopInv
  <1> QED BY <1>1, JointInvariance, PTL

LEMMA BumperTyped == Spec => []LP!TypeOK
  BY Refinement, SameLights, LP!TypeCorrect, LightsAssumption, PTL DEF RunsComponents

-----------------------------------------------------------------------------
(* What one more frame changes in the reading of a log. *)

LEMMA AppendedLog ==
  ASSUME NEW l \in Seq(Frames), NEW f \in Frames
  PROVE  /\ Append(l, f) \in Seq(Frames)
         /\ Len(l) \in Nat
         /\ Len(Append(l, f)) = Len(l) + 1
         /\ Append(l, f)[Len(l) + 1] = f
         /\ \A n \in 1 .. Len(l) : Append(l, f)[n] = l[n]
  OBVIOUS

(* The last of some positions of a log exists. *)
LEMMA LastIs ==
  ASSUME NEW N \in Nat, NEW S, S \subseteq 1 .. N
  PROVE  /\ S # {} => Last(S) \in S
         /\ \A n \in S : (\A m \in S : m <= n) => Last(S) = n
  <1>1. ASSUME S # {} PROVE \E n \in S : \A m \in S : m <= n
    <2> DEFINE D == {N - n : n \in S}
    <2>1. D \subseteq Nat /\ D # {}
      <3>1. ASSUME NEW n \in S PROVE N - n \in Nat
        <4>1. n \in 1 .. N
          OBVIOUS
        <4> QED BY <4>1
      <3> QED BY <1>1, <3>1
    <2>2. PICK d \in D : \A e \in D : d <= e
      BY <2>1, SearchAssumption, Search!LeastNatural
    <2>3. PICK n \in S : d = N - n
      BY <2>2
    <2>4. ASSUME NEW m \in S PROVE m <= n
      <3>1. N - m \in D
        OBVIOUS
      <3>2. d <= N - m
        BY <2>2, <3>1
      <3>3. m \in 1 .. N /\ n \in 1 .. N
        OBVIOUS
      <3> HIDE DEF D
      <3> QED BY <2>3, <3>2, <3>3
    <2> QED BY <2>4, Zenon
  <1>2. ASSUME S # {} PROVE Last(S) \in S /\ \A m \in S : m <= Last(S)
    BY <1>1, <1>2, Zenon DEF Last
  <1>3. ASSUME NEW n \in S, \A m \in S : m <= n PROVE Last(S) = n
    <2>1. Last(S) \in S /\ n <= Last(S)
      BY <1>2
    <2>2. Last(S) <= n
      BY <1>3, <2>1
    <2>3. Last(S) \in 1 .. N /\ n \in 1 .. N
      BY <2>1
    <2> QED BY <2>1, <2>2, <2>3
  <1> QED BY <1>2, <1>3

LEMMA GroupAppend ==
  ASSUME NEW l \in Seq(Frames), NEW f \in Frames, NEW pf \in Int, NEW ps \in Int
  PROVE  /\ InGroup(l, pf, ps) \subseteq 1 .. Len(l)
         /\ OfGroup(f, pf, ps) =>
               InGroup(Append(l, f), pf, ps) = InGroup(l, pf, ps) \cup {Len(l) + 1}
         /\ ~OfGroup(f, pf, ps) =>
               InGroup(Append(l, f), pf, ps) = InGroup(l, pf, ps)
  <1> DEFINE P(n) == OfGroup(Append(l, f)[n], pf, ps)
             Q(n) == OfGroup(l[n], pf, ps)
  <1>1. P(Len(l) + 1) <=> OfGroup(f, pf, ps)
    BY AppendedLog
  <1>2. \A n \in 1 .. Len(l) : P(n) <=> Q(n)
    BY AppendedLog
  <1>3. /\ InGroup(l, pf, ps) = {n \in 1 .. Len(l) : Q(n)}
        /\ InGroup(Append(l, f), pf, ps) = {n \in 1 .. Len(l) + 1 : P(n)}
    BY AppendedLog, Zenon DEF InGroup
  <1>4. Len(l) \in Nat
    BY AppendedLog
  <1> HIDE DEF P, Q
  <1> QED BY <1>1, <1>2, <1>3, <1>4

(* The last frame of a group is the new one, or the one it was. *)
LEMMA NewIsLast ==
  ASSUME NEW l \in Seq(Frames), NEW f \in Frames, NEW pf \in Int, NEW ps \in Int,
         OfGroup(f, pf, ps)
  PROVE  Append(l, f)[Last(InGroup(Append(l, f), pf, ps))] = f
  <1> DEFINE N == Len(l)
             g == InGroup(l, pf, ps)
             h == InGroup(Append(l, f), pf, ps)
  <1>1. N \in Nat /\ g \subseteq 1 .. N /\ h = g \cup {N + 1}
    BY AppendedLog, GroupAppend
  <1>2. Last(h) = N + 1
    <2> HIDE DEF N, g, h
    <2>1. ASSUME NEW m \in h PROVE m \in 1 .. (N + 1) /\ m <= N + 1
      <3>1. CASE m \in g
        <4>1. m \in 1 .. N
          BY <1>1, <3>1
        <4> QED BY <1>1, <4>1
      <3>2. CASE m = N + 1
        BY <1>1, <3>2
      <3> QED BY <1>1, <3>1, <3>2
    <2>2. h \subseteq 1 .. (N + 1)
      BY <2>1, Zenon
    <2>3. N + 1 \in h
      BY <1>1, Zenon
    <2>4. N + 1 \in Nat
      BY <1>1
    <2> QED BY <2>1, <2>2, <2>3, <2>4, LastIs
  <1>3. Append(l, f)[N + 1] = f
    BY AppendedLog
  <1> QED BY <1>2, <1>3, Zenon

LEMMA GroupGrows ==
  ASSUME NEW l \in Seq(Frames), NEW f \in Frames, NEW pf \in Int, NEW ps \in Int,
         OfGroup(f, pf, ps)
  PROVE  InGroup(Append(l, f), pf, ps) # {}
  BY GroupAppend

LEMMA GroupKept ==
  ASSUME NEW l \in Seq(Frames), NEW f \in Frames, NEW pf \in Int, NEW ps \in Int,
         ~OfGroup(f, pf, ps)
  PROVE  InGroup(Append(l, f), pf, ps) = InGroup(l, pf, ps)
  BY GroupAppend

LEMMA LastKept ==
  ASSUME NEW l \in Seq(Frames), NEW f \in Frames, NEW pf \in Int, NEW ps \in Int,
         InGroup(l, pf, ps) # {}
  PROVE  Append(l, f)[Last(InGroup(l, pf, ps))] = l[Last(InGroup(l, pf, ps))]
  <1> DEFINE g == InGroup(l, pf, ps)
  <1>1. Len(l) \in Nat /\ g \subseteq 1 .. Len(l)
    BY AppendedLog, GroupAppend
  <1> HIDE DEF g
  <1>2. Last(g) \in 1 .. Len(l)
    <2>1. g # {}
      BY DEF g
    <2> QED BY <1>1, <2>1, LastIs
  <1>3. Append(l, f)[Last(g)] = l[Last(g)]
    BY <1>2, AppendedLog
  <1> QED BY <1>3 DEF g

LEMMA BrakesAppend ==
  ASSUME NEW l \in Seq(Frames), NEW f \in Frames
  PROVE  /\ OfGroup(f, 254, 241) => BrakesLogged(Append(l, f)) = (f[13] % 16 >= 4)
         /\ ~OfGroup(f, 254, 241) => BrakesLogged(Append(l, f)) = BrakesLogged(l)
  <1>0. PICK pf \in Int, ps \in Int : pf = 254 /\ ps = 241
    OBVIOUS
  <1> DEFINE g == InGroup(l, pf, ps)
             h == InGroup(Append(l, f), pf, ps)
             braking(x) == x[13] % 16 >= 4
  <1>1. /\ BrakesLogged(l) = (g # {} /\ braking(l[Last(g)]))
        /\ BrakesLogged(Append(l, f)) = (h # {} /\ braking(Append(l, f)[Last(h)]))
    BY <1>0, Zenon DEF BrakesLogged
  <1>2. ASSUME OfGroup(f, pf, ps)
        PROVE  BrakesLogged(Append(l, f)) = braking(f)
    <2>1. h # {}
      BY <1>2, GroupGrows
    <2>2. Append(l, f)[Last(h)] = f
      BY <1>2, NewIsLast
    <2> HIDE DEF g, h
    <2> QED BY <1>1, <2>1, <2>2
  <1>3. ASSUME ~OfGroup(f, pf, ps)
        PROVE  BrakesLogged(Append(l, f)) = BrakesLogged(l)
    <2>1. h = g
      BY <1>3, GroupKept
    <2>2. CASE g = {}
      <3> HIDE DEF g, h
      <3> QED BY <1>1, <2>1, <2>2
    <2>3. CASE g # {}
      <3>1. Append(l, f)[Last(g)] = l[Last(g)]
        BY <2>3, LastKept
      <3> DEFINE old == braking(l[Last(g)])
                 now == braking(Append(l, f)[Last(h)])
      <3>2. now = old
        <4> HIDE DEF g, h, braking
        <4> QED BY <2>1, <3>1, Zenon
      <3> HIDE DEF g, h, old, now
      <3>3. BrakesLogged(l) = old /\ BrakesLogged(Append(l, f)) = now
        <4>1. old \in BOOLEAN /\ now \in BOOLEAN
            BY SMT DEF old, now, braking
        <4> QED BY <1>1, <2>1, <2>3, <4>1 DEF old, now
      <3> QED BY <3>2, <3>3
    <2> QED BY <2>2, <2>3
  <1> QED BY <1>0, <1>2, <1>3

LEMMA SignalAppend ==
  ASSUME NEW l \in Seq(Frames), NEW f \in Frames
  PROVE  /\ OfGroup(f, 253, 204) => SignalLogged(Append(l, f)) = (f[10] \div 16)
         /\ ~OfGroup(f, 253, 204) => SignalLogged(Append(l, f)) = SignalLogged(l)
  <1>0. PICK pf \in Int, ps \in Int : pf = 253 /\ ps = 204
    OBVIOUS
  <1> DEFINE g == InGroup(l, pf, ps)
             h == InGroup(Append(l, f), pf, ps)
             half(x) == x[10] \div 16
  <1>1. /\ SignalLogged(l) = IF g = {} THEN 0 ELSE half(l[Last(g)])
        /\ SignalLogged(Append(l, f)) = IF h = {} THEN 0 ELSE half(Append(l, f)[Last(h)])
    BY <1>0, Zenon DEF SignalLogged
  <1>2. ASSUME OfGroup(f, pf, ps)
        PROVE  SignalLogged(Append(l, f)) = half(f)
    <2>1. h # {}
      BY <1>2, GroupGrows
    <2>2. Append(l, f)[Last(h)] = f
      BY <1>2, NewIsLast
    <2> HIDE DEF g, h
    <2> QED BY <1>1, <2>1, <2>2
  <1>3. ASSUME ~OfGroup(f, pf, ps)
        PROVE  SignalLogged(Append(l, f)) = SignalLogged(l)
    <2>1. h = g
      BY <1>3, GroupKept
    <2>2. CASE g = {}
      <3> HIDE DEF g, h
      <3> QED BY <1>1, <2>1, <2>2
    <2>3. CASE g # {}
      <3>1. Append(l, f)[Last(g)] = l[Last(g)]
        BY <2>3, LastKept
      <3> DEFINE old == half(l[Last(g)])
                 now == half(Append(l, f)[Last(h)])
      <3>2. now = old
        <4> HIDE DEF g, h, half
        <4> QED BY <2>1, <3>1, Zenon
      <3> HIDE DEF g, h, old, now
      <3>3. SignalLogged(l) = old /\ SignalLogged(Append(l, f)) = now
        BY <1>1, <2>1, <2>3 DEF old, now
      <3> QED BY <3>2, <3>3
    <2> QED BY <2>2, <2>3
  <1> QED BY <1>0, <1>2, <1>3

LEMMA LostAppend ==
  ASSUME NEW l \in Seq(Frames), NEW f \in Frames
  PROVE  /\ WinningClaim(f) => LostLogged(Append(l, f)) = LostLogged(l) \cup {f[1]}
         /\ ~WinningClaim(f) => LostLogged(Append(l, f)) = LostLogged(l)
  <1> DEFINE P(n) == WinningClaim(Append(l, f)[n])
             Q(n) == WinningClaim(l[n])
             a(n) == Append(l, f)[n][1]
             b(n) == l[n][1]
  <1>1. /\ P(Len(l) + 1) <=> WinningClaim(f)
        /\ a(Len(l) + 1) = f[1]
    BY AppendedLog, Zenon
  <1>2. \A n \in 1 .. Len(l) : (P(n) <=> Q(n)) /\ a(n) = b(n)
    BY AppendedLog, Zenon
  <1>3. /\ LostLogged(l) = {b(n) : n \in {k \in 1 .. Len(l) : Q(k)}}
        /\ LostLogged(Append(l, f)) = {a(n) : n \in {k \in 1 .. Len(l) + 1 : P(k)}}
    BY AppendedLog, Zenon DEF LostLogged
  <1>4. Len(l) \in Nat
    BY AppendedLog
  <1> HIDE DEF P, Q, a, b
  <1> QED BY <1>1, <1>2, <1>3, <1>4

(* What the masks and shifts of parse_J1939 make of the bytes of a frame. *)
LEMMA ParsedBytes ==
  ASSUME NEW f \in Frames, cf = WithoutFlags(f)
  PROVE  /\ Parsed.sa = f[1]
         /\ f[3] >= 240 => Parsed.pgn = ((f[4] % 4) * 65536) + (f[3] * 256) + f[2]
         /\ f[3] < 240 => Parsed.pgn = (((f[4] % 4) * 256) + f[3]) * 256
  <1>1. PICK b1 \in Int, b2 \in Int, b3 \in Int, b4 \in Int :
          /\ b1 = f[1] /\ b2 = f[2] /\ b3 = f[3] /\ b4 = f[4] % 32
          /\ 0 <= b1 /\ b1 <= 255 /\ 0 <= b2 /\ b2 <= 255
          /\ 0 <= b3 /\ b3 <= 255 /\ 0 <= b4 /\ b4 <= 31
          /\ b4 % 4 = f[4] % 4
    <2>1. /\ f[1] \in Int /\ 0 <= f[1] /\ f[1] <= 255
          /\ f[2] \in Int /\ 0 <= f[2] /\ f[2] <= 255
          /\ f[3] \in Int /\ 0 <= f[3] /\ f[3] <= 255
          /\ f[4] \in Int /\ 0 <= f[4] /\ f[4] <= 255
      BY FrameBytes, ByteRange
    <2>2. /\ f[4] % 32 \in Int /\ 0 <= f[4] % 32 /\ f[4] % 32 <= 31
          /\ (f[4] % 32) % 4 = f[4] % 4
      BY <2>1, SMT
    <2> QED BY <2>1, <2>2, Zenon
  <1> DEFINE id == CanId(cf)
  <1>2. id = b1 + (b2 * 256) + (b3 * 65536) + (b4 * 16777216)
    <2>1. cf[1] = b1 /\ cf[2] = b2 /\ cf[3] = b3 /\ cf[4] = b4
      BY <1>1, FlagsGone
    <2> QED BY <2>1, SMT DEF CanId
  <1> HIDE DEF id
  <1>3. 0 <= b1 /\ b1 <= 255 /\ 0 <= b2 /\ b2 <= 255
    BY <1>1
  <1>4. 0 <= b3 /\ b3 <= 255 /\ 0 <= b4 /\ b4 <= 31
    BY <1>1
  <1>5. id % 256 = b1
    BY <1>2, <1>3, <1>4, SMT
  <1>6. PF(id) = b3
    BY <1>2, <1>3, <1>4, SMT DEF PF
  <1>7. PDU2(id) = ((b4 % 4) * 65536) + (b3 * 256) + b2
    BY <1>2, <1>3, <1>4, SMT DEF PDU2
  <1>8. PDU1(id) = (((b4 % 4) * 256) + b3) * 256
    <2>1. (id % 67108864) \div 65536 = ((b4 % 4) * 256) + b3
      BY <1>2, <1>3, <1>4, SMT
    <2> QED BY <2>1, SMT DEF PDU1
  <1>9. /\ Parsed.sa = id % 256
        /\ Parsed.pgn = IF PF(id) >= 240 THEN PDU2(id) ELSE PDU1(id)
    BY SMT DEF Parsed, parse_J1939, id
  <1> QED BY <1>1, <1>5, <1>6, <1>7, <1>8, <1>9, SMT

(* The dispatch on the PGN is the reading of the log. *)
LEMMA FrameMeaning ==
  ASSUME NEW f \in Frames, cf = WithoutFlags(f)
  PROVE  /\ OfGroup(f, 254, 241) <=> Parsed.pgn = PGN_CruiseControlVehicleSpeed1
         /\ OfGroup(f, 253, 204) <=> Parsed.pgn = PGN_OperatorsExternalLightControls
         /\ f[4] % 4 = 0 /\ f[3] = 238 <=> Parsed.pgn = J1939_PGN_CLAIM
         /\ NameBelow(f, NAME) <=> NameBelow(cf, NAME)
         /\ Parsed.sa = f[1]
         /\ BrakeSwitch(cf) # 0 <=> f[13] % 16 >= 4
         /\ Signal(cf) = f[10] \div 16
  <1>1. /\ f[2] \in Int /\ 0 <= f[2] /\ f[2] <= 255
        /\ f[3] \in Int /\ 0 <= f[3] /\ f[3] <= 255
        /\ f[4] % 4 \in Int /\ 0 <= f[4] % 4 /\ f[4] % 4 <= 3
        /\ f[13] \in Int /\ 0 <= f[13]
    BY FrameBytes, ByteRange
  <1>2. /\ Parsed.sa = f[1]
        /\ f[3] >= 240 => Parsed.pgn = ((f[4] % 4) * 65536) + (f[3] * 256) + f[2]
        /\ f[3] < 240 => Parsed.pgn = (((f[4] % 4) * 256) + f[3]) * 256
    BY ParsedBytes
  <1> DEFINE pgn == Parsed.pgn
             q == f[4] % 4
  <1>3. /\ (q = 0 /\ f[3] = 254 /\ f[2] = 241) <=> pgn = 65265
        /\ (q = 0 /\ f[3] = 253 /\ f[2] = 204) <=> pgn = 64972
        /\ (q = 0 /\ f[3] = 238) <=> pgn = 60928
    <2> HIDE DEF q, pgn
    <2>1. CASE f[3] >= 240
      BY <1>1, <1>2, <2>1, SMT DEF q, pgn
    <2>2. CASE f[3] < 240
      BY <1>1, <1>2, <2>2, SMT DEF q, pgn
    <2> QED BY <1>1, <2>1, <2>2
  <1>4. \A k \in 1 .. 16 : k # 4 => cf[k] = f[k]
    BY FlagsGone
  <1>5. NameBelow(f, NAME) <=> NameBelow(cf, NAME)
    <2>1. \A k \in 1 .. 8 : cf[8 + k] = f[8 + k]
      BY <1>4
    <2>2. \A n \in 1 .. 8 : \A m \in 1 .. n - 1 : cf[8 + m] = f[8 + m]
      BY <2>1
    <2> QED BY <2>1, <2>2, Zenon DEF NameBelow
  <1>6. BrakeSwitch(cf) # 0 <=> f[13] % 16 >= 4
    <2>1. cf[13] = f[13]
      BY <1>4
    <2> QED BY <1>1, <2>1, SMT DEF BrakeSwitch
  <1>7. Signal(cf) = f[10] \div 16
    <2>1. cf[10] = f[10]
      BY <1>4
    <2> QED BY <2>1 DEF Signal
  <1>8. /\ OfGroup(f, 254, 241) <=> Parsed.pgn = PGN_CruiseControlVehicleSpeed1
        /\ OfGroup(f, 253, 204) <=> Parsed.pgn = PGN_OperatorsExternalLightControls
        /\ f[4] % 4 = 0 /\ f[3] = 238 <=> Parsed.pgn = J1939_PGN_CLAIM
    BY <1>3, SMT DEF OfGroup, PGN_CruiseControlVehicleSpeed1,
       PGN_OperatorsExternalLightControls, J1939_PGN_CLAIM
  <1> QED BY <1>2, <1>5, <1>6, <1>7, <1>8

-----------------------------------------------------------------------------
(* The log accounts for the state, up to the frame being dispatched.       *)

ActInv ==
    /\ pc # "dispatch" => AccountedFor(log)
    /\ pc = "dispatch" =>
          \E l \in Seq(Frames), f \in Frames :
              log = Append(l, f) /\ cf = WithoutFlags(f) /\ AccountedFor(l)

(* A step that reads no frame and dispatches none. *)
LEMMA Undisturbed ==
  ASSUME ActInv, log' = log,
         pc = "dispatch" <=> pc' = "dispatch",
         pc = "dispatch" => cf' = cf,
         bumper'.brake_state = bumper.brake_state,
         bumper'.signal = bumper.signal,
         avail_addrs' = avail_addrs,
         conf'.current_sa = conf.current_sa
  PROVE  ActInv'
  <1>1. ASSUME NEW l, AccountedFor(l) PROVE AccountedFor(l)'
    BY <1>1, Zenon DEF AccountedFor
  <1>2. ASSUME pc' # "dispatch" PROVE AccountedFor(log)'
    <2>1. PICK l : l = log
      OBVIOUS
    <2>2. AccountedFor(l)
      BY <1>2, <2>1 DEF ActInv
    <2>3. AccountedFor(l)' /\ log' = l
      BY <1>1, <2>1, <2>2
    <2> QED BY <2>3, Zenon DEF AccountedFor
  <1>3. ASSUME pc' = "dispatch"
        PROVE  (\E l \in Seq(Frames), f \in Frames :
                  log = Append(l, f) /\ cf = WithoutFlags(f) /\ AccountedFor(l))'
    <2>1. PICK l \in Seq(Frames), f \in Frames :
              log = Append(l, f) /\ cf = WithoutFlags(f) /\ AccountedFor(l)
      BY <1>3, Zenon DEF ActInv
    <2>2. AccountedFor(l)'
      BY <1>1, <2>1
    <2>3. log' = Append(l, f) /\ cf' = WithoutFlags(f)
      BY <1>3, <2>1
    <2> QED BY <2>2, <2>3, Zenon
  <1> QED BY <1>2, <1>3 DEF ActInv

(* The dispatch of frame f, the last of the log, brings the state up to    *)
(* date with it.                                                           *)
LEMMA DispatchFollows ==
  ASSUME NEW l \in Seq(Frames), NEW f \in Frames,
         cf = WithoutFlags(f), AccountedFor(l), Dispatch,
         bumper \in LP!BumperType, conf \in CP!ConfType
  PROVE  AccountedFor(Append(l, f))'
  <1> DEFINE pgn == Parsed.pgn
             L == Append(l, f)
  <1>b. bumper.brake_state \in BOOLEAN
    BY LightsAssumption, LP!FieldTypes
  <1>1. /\ bumper.brake_state = BrakesLogged(l)
        /\ bumper.signal = SignalLogged(l)
        /\ avail_addrs = Dynamic \ (LostLogged(l) \cup {conf.current_sa})
    BY Zenon DEF AccountedFor
  <1>2. /\ pgn = PGN_CruiseControlVehicleSpeed1 =>
              BrakesLogged(L) = (f[13] % 16 >= 4)
        /\ pgn # PGN_CruiseControlVehicleSpeed1 => BrakesLogged(L) = BrakesLogged(l)
    BY FrameMeaning, BrakesAppend
  <1>3. /\ pgn = PGN_OperatorsExternalLightControls => SignalLogged(L) = Signal(cf)
        /\ pgn # PGN_OperatorsExternalLightControls => SignalLogged(L) = SignalLogged(l)
    BY FrameMeaning, SignalAppend
  <1>4. /\ pgn = J1939_PGN_CLAIM /\ NameBelow(cf, NAME) =>
              LostLogged(L) = LostLogged(l) \cup {Parsed.sa}
        /\ ~(pgn = J1939_PGN_CLAIM /\ NameBelow(cf, NAME)) => LostLogged(L) = LostLogged(l)
    <2>1. WinningClaim(f) <=> pgn = J1939_PGN_CLAIM /\ NameBelow(cf, NAME)
      BY FrameMeaning DEF WinningClaim
    <2> QED BY <2>1, FrameMeaning, LostAppend
  <1>5. BrakeSwitch(cf) # 0 <=> f[13] % 16 >= 4
    BY FrameMeaning
  <1>6. /\ PGN_CruiseControlVehicleSpeed1 # PGN_OperatorsExternalLightControls
        /\ PGN_CruiseControlVehicleSpeed1 # J1939_PGN_CLAIM
        /\ PGN_OperatorsExternalLightControls # J1939_PGN_CLAIM
        /\ J1939_PGN_REQUEST \notin {PGN_CruiseControlVehicleSpeed1,
              PGN_OperatorsExternalLightControls, J1939_PGN_CLAIM}
    BY SMT DEF PGN_CruiseControlVehicleSpeed1, PGN_OperatorsExternalLightControls,
               J1939_PGN_CLAIM, J1939_PGN_REQUEST
  <1>7. SUFFICES /\ bumper'.brake_state = BrakesLogged(L)
                 /\ bumper'.signal = SignalLogged(L)
                 /\ avail_addrs' = Dynamic \ (LostLogged(L) \cup {conf'.current_sa})
    BY Zenon DEF AccountedFor
  <1> HIDE DEF pgn, L
  <1>8. CASE RxBrake
    <2>1. pgn = PGN_CruiseControlVehicleSpeed1
      BY <1>8 DEF RxBrake, Dispatched, pgn
    <2>2. /\ bumper' = Lights!BrakeFrame(bumper, Speed(cf), BrakeSwitch(cf))
          /\ avail_addrs' = avail_addrs /\ conf' = conf
      BY <1>8 DEF RxBrake
    <2>3. bumper' = LP!BrakeFrame(bumper, Speed(cf), BrakeSwitch(cf))
      BY <2>2, SameFunctions, Zenon
    <2>4. /\ bumper'.brake_state = (BrakeSwitch(cf) # 0)
          /\ bumper'.signal = bumper.signal
      <3> DEFINE e == bumper.flash_lock \/ (Speed(cf) > 0 /\ ~bumper.has_flashed)
      <3>1. bumper' = IF BrakeSwitch(cf) # 0
                      THEN [bumper EXCEPT !.brake_state = TRUE, !.flash_lock = e]
                      ELSE [bumper EXCEPT !.brake_state = FALSE, !.flash_lock = FALSE,
                                          !.has_flashed = FALSE]
        BY <2>3, Zenon DEF LP!BrakeFrame
      <3> HIDE DEF e
      <3>2. CASE BrakeSwitch(cf) # 0
        <4>1. bumper' = [bumper EXCEPT !.brake_state = TRUE, !.flash_lock = e]
          BY <3>1, <3>2
        <4> QED BY <3>2, <4>1 DEF LP!BumperType
      <3>3. CASE BrakeSwitch(cf) = 0
        <4>1. bumper' = [bumper EXCEPT !.brake_state = FALSE, !.flash_lock = FALSE,
                                       !.has_flashed = FALSE]
          BY <3>1, <3>3
        <4> QED BY <3>3, <4>1 DEF LP!BumperType
      <3> QED BY <3>2, <3>3
    <2>5. bumper'.brake_state = BrakesLogged(L)
      BY <1>2, <1>5, <2>1, <2>4
    <2>6. SignalLogged(L) = SignalLogged(l) /\ LostLogged(L) = LostLogged(l)
      BY <1>3, <1>4, <1>6, <2>1
    <2> QED BY <1>1, <2>2, <2>4, <2>5, <2>6
  <1>9. CASE RxSignal
    <2>1. pgn = PGN_OperatorsExternalLightControls
      BY <1>9 DEF RxSignal, Dispatched, pgn
    <2>2. /\ bumper' = Lights!SignalFrame(bumper, Signal(cf))
          /\ avail_addrs' = avail_addrs /\ conf' = conf
      BY <1>9 DEF RxSignal
    <2>3. bumper' = [bumper EXCEPT !.signal = Signal(cf)]
      BY <2>2, Zenon DEF Lights!SignalFrame
    <2>4. /\ bumper'.signal = Signal(cf)
          /\ bumper'.brake_state = bumper.brake_state
      BY <2>3 DEF LP!BumperType
    <2>5. SignalLogged(L) = Signal(cf)
      BY <1>3, <2>1
    <2>6. BrakesLogged(L) = BrakesLogged(l) /\ LostLogged(L) = LostLogged(l)
      BY <1>2, <1>4, <1>6, <2>1
    <2> QED BY <1>1, <2>2, <2>4, <2>5, <2>6
  <1>10. CASE RxClaim
    <2>1. pgn = J1939_PGN_CLAIM /\ bumper' = bumper
      BY <1>10 DEF RxClaim, Dispatched, pgn, lightVars
    <2>2. BrakesLogged(L) = BrakesLogged(l) /\ SignalLogged(L) = SignalLogged(l)
      BY <1>2, <1>3, <1>6, <2>1
    <2>3. avail_addrs' = Dynamic \ (LostLogged(L) \cup {conf'.current_sa})
      <3>1. CASE LoseAddress
        <4> DEFINE new == ChooseNewSA(conf.current_sa, avail_addrs)
        <4>1. /\ Parsed.sa = conf.current_sa /\ NameBelow(cf, NAME)
              /\ conf' = Claims!Holding(new) /\ avail_addrs' = avail_addrs \ {new}
          BY <3>1, Zenon DEF LoseAddress
        <4> HIDE DEF new
        <4>2. conf'.current_sa = new
          BY <4>1 DEF Claims!Holding, CP!ConfType
        <4>3. LostLogged(L) = LostLogged(l) \cup {conf.current_sa}
          BY <1>4, <2>1, <4>1
        <4> QED BY <1>1, <4>1, <4>2, <4>3
      <3>2. CASE DefendAddress
        <4>1. /\ ~NameBelow(cf, NAME) /\ avail_addrs' = avail_addrs
              /\ conf' = [conf EXCEPT !.claim_msg = Claims!Holding(conf.current_sa).claim_msg]
          BY <3>2, Zenon DEF DefendAddress
        <4>2. conf'.current_sa = conf.current_sa
          BY <4>1 DEF CP!ConfType
        <4>3. LostLogged(L) = LostLogged(l)
          BY <1>4, <4>1
        <4> QED BY <1>1, <4>1, <4>2, <4>3
      <3>3. CASE OtherClaim
        <4>1. /\ conf' = conf
              /\ avail_addrs' = avail_addrs \
                    (IF NameBelow(cf, NAME) THEN {Parsed.sa} \cap Dynamic ELSE {})
          BY <3>3, Zenon DEF OtherClaim
        <4>2. CASE NameBelow(cf, NAME)
          BY <1>1, <1>4, <2>1, <4>1, <4>2
        <4>3. CASE ~NameBelow(cf, NAME)
          BY <1>1, <1>4, <4>1, <4>3
        <4> QED BY <4>2, <4>3
      <3> QED BY <1>10, <3>1, <3>2, <3>3 DEF RxClaim
    <2> QED BY <1>1, <2>1, <2>2, <2>3
  <1>11. CASE RxRequest \/ RxUnknown
    <2>1. pgn \notin {PGN_CruiseControlVehicleSpeed1,
                     PGN_OperatorsExternalLightControls, J1939_PGN_CLAIM}
      BY <1>6, <1>11, Zenon DEF RxRequest, RxUnknown, Dispatched, pgn
    <2>2. bumper' = bumper /\ avail_addrs' = avail_addrs /\ conf' = conf
      BY <1>11 DEF RxRequest, RxUnknown, lightVars
    <2>3. /\ BrakesLogged(L) = BrakesLogged(l) /\ SignalLogged(L) = SignalLogged(l)
          /\ LostLogged(L) = LostLogged(l)
      BY <1>2, <1>3, <1>4, <2>1
    <2> QED BY <1>1, <2>2, <2>3
  <1> QED BY <1>8, <1>9, <1>10, <1>11 DEF Dispatch

LEMMA ActStep ==
  ASSUME LoopInv, CP!IInv, LP!TypeOK, ActInv, [Next]_vars
  PROVE  ActInv'
  <1>t. /\ cf \in Frames /\ log \in Seq(Frames)
        /\ cf[11] \in SpeedBytes /\ cf[12] \in SpeedBytes
    BY DEF LoopInv, TypeOK
  <1>c. conf \in CP!ConfType
    BY DEF CP!IInv, CP!TypeOK
  <1>b. bumper \in LP!BumperType
    BY DEF LP!TypeOK
  <1>1. CASE Read
    <2>1. /\ pc = "select" /\ pc' = "dispatch"
          /\ UNCHANGED <<lightVars, claimVars>>
      BY <1>1 DEF Read
    <2>2. PICK frame \in BusFrames, n \in ReadLengths :
              /\ log' = Append(log, Overlaid(frame, n))
              /\ cf' = WithoutFlags(Overlaid(frame, n))
      BY <1>1, Zenon DEF Read
    <2>3. PICK l \in Seq(Frames), f \in Frames : l = log /\ f = Overlaid(frame, n)
      BY <1>t, OverlaidOK
    <2>4. log' = Append(l, f) /\ cf' = WithoutFlags(f)
      BY <2>2, <2>3
    <2>5. AccountedFor(l)
      BY <2>1, <2>3 DEF ActInv
    <2>6. AccountedFor(l)'
      BY <2>1, <2>5, Zenon DEF AccountedFor, lightVars, claimVars
    <2> QED BY <2>1, <2>4, <2>6, Zenon DEF ActInv
  <1>2. CASE Dispatch
    <2>1. pc = "dispatch" /\ pc' # "dispatch" /\ log' = log
      BY <1>2 DEF Dispatch, RxBrake, RxSignal, RxClaim, RxRequest, RxUnknown, Dispatched,
         LoseAddress, DefendAddress, OtherClaim, SendClaim, SendNothing, loopVars
    <2>2. PICK l \in Seq(Frames), f \in Frames :
              log = Append(l, f) /\ cf = WithoutFlags(f) /\ AccountedFor(l)
      BY <2>1, Zenon DEF ActInv
    <2>3. AccountedFor(Append(l, f))'
      BY <1>2, <1>b, <1>c, <2>2, DispatchFollows
    <2>4. AccountedFor(log)'
      BY <2>1, <2>2, <2>3, Zenon DEF AccountedFor
    <2> QED BY <2>1, <2>4 DEF ActInv
  <1>3. CASE RunTurnSignal \/ RunBrake \/ Tick
    <2>1. bumper' \in {LP!TurnSignal(bumper), LP!BrakeRoutine(bumper), LP!Ticked(bumper)}
      BY <1>3, SameFunctions, Zenon DEF RunTurnSignal, RunBrake, Tick
    <2>2. bumper'.brake_state = bumper.brake_state /\ bumper'.signal = bumper.signal
      BY <1>b, <2>1, LightsAssumption, LP!InputsKept
    <2>3. /\ log' = log /\ avail_addrs' = avail_addrs /\ conf' = conf /\ cf' = cf
          /\ pc = "dispatch" <=> pc' = "dispatch"
      BY <1>3 DEF RunTurnSignal, RunBrake, Tick, claimVars, loopVars
    <2> QED BY <2>2, <2>3, Undisturbed
  <1>4. CASE InitCan \/ Killed \/ SelectNothing \/ ReadFails \/ Finish \/ SetDuty
    <2>1. /\ log' = log /\ avail_addrs' = avail_addrs /\ conf' = conf /\ bumper' = bumper
          /\ pc # "dispatch" /\ pc' # "dispatch"
      BY <1>4 DEF InitCan, Killed, SelectNothing, ReadFails, Finish, SetDuty,
                  lightVars, claimVars, loopVars
    <2> QED BY <2>1, Undisturbed
  <1>5. CASE Boot \/ Alarm
    <2>1. /\ log' = log /\ avail_addrs' = avail_addrs /\ bumper' = bumper /\ cf' = cf
          /\ pc = "dispatch" <=> pc' = "dispatch"
      BY <1>5 DEF Boot, Alarm, lightVars, loopVars
    <2>2. PICK b \in BOOLEAN : conf' = [conf EXCEPT !.sig_alrm = b]
      BY <1>5, Zenon DEF Boot, Alarm
    <2>3. conf'.current_sa = conf.current_sa
      BY <1>c, <2>2 DEF CP!ConfType
    <2> QED BY <2>1, <2>3, Undisturbed
  <1>6. CASE Report
    <2>1. /\ log' = log /\ avail_addrs' = avail_addrs /\ bumper' = bumper
          /\ pc = "report" /\ pc' # "dispatch"
      BY <1>6 DEF Report, GoOperational, ReportStatus, NotOperational, lightVars
    <2>2. conf' = [conf EXCEPT !.state = Claims!STATE_OPERATIONAL] \/ conf' = conf
      BY <1>6, Zenon DEF Report, GoOperational, ReportStatus, NotOperational
    <2>3. conf'.current_sa = conf.current_sa
      BY <1>c, <2>2 DEF CP!ConfType
    <2> QED BY <2>1, <2>3, Undisturbed
  <1>7. CASE Terminate \/ UNCHANGED vars
    <2>1. /\ log' = log /\ avail_addrs' = avail_addrs /\ conf' = conf /\ bumper' = bumper
          /\ cf' = cf /\ pc' = pc
      BY <1>7 DEF Terminate, vars, lightVars, claimVars
    <2> QED BY <2>1, Undisturbed
  <1> QED
    BY <1>1, <1>2, <1>3, <1>4, <1>5, <1>6, <1>7 DEF Next, Setup, Main, Receive

LEMMA ActInit == Init => ActInv
  <1> SUFFICES ASSUME Init PROVE ActInv  OBVIOUS
  <1>1. /\ pc = "socket" /\ log = <<>> /\ bumper = Lights!InitBumper
        /\ avail_addrs = Dynamic \ {DYNAMIC_MIN} /\ conf.current_sa = DYNAMIC_MIN
    BY SamePool, Zenon DEF Init, Lights!Init, Claims!Init
  <1>2. \A pf, ps : InGroup(<<>>, pf, ps) = {}
    BY DEF InGroup
  <1>3. BrakesLogged(<<>>) = FALSE /\ SignalLogged(<<>>) = 0
    BY <1>2, Zenon DEF BrakesLogged, SignalLogged
  <1>4. LostLogged(<<>>) = {}
    BY DEF LostLogged
  <1>5. bumper.brake_state = FALSE /\ bumper.signal = 0
    BY <1>1 DEF Lights!InitBumper
  <1> QED BY <1>1, <1>3, <1>4, <1>5 DEF ActInv, AccountedFor

(* The program acts on what it logs: in every state in which no frame is   *)
(* being dispatched, the brakes, the turn signal and the address pool are  *)
(* what an independent reading of the logged bytes says, whatever was on   *)
(* the stack, however short the reads were and whatever overwrote cf.      *)
THEOREM LogIsTheProgram == Spec => []ActsFollowLog
  <1>1. LoopInv /\ CP!IInv /\ LP!TypeOK /\ ActInv /\ [Next]_vars => ActInv'
    BY ActStep
  <1>2. ActInv => ActsFollowLog
    BY DEF ActInv, ActsFollowLog
  <1> QED BY <1>1, <1>2, ActInit, JointInvariance, BumperTyped, PTL DEF Spec

(* End to end, the lamps and the log: what set_duty writes against what    *)
(* logging_handler was given.                                              *)
LampsShowLog ==
    pc \in {"select", "report"} =>
        LET brakes == LP!Duty(BrakesLogged(log)) IN
        /\ ~bumper.flash_lock => duty[2] = brakes /\ duty[3] = brakes
        /\ ~bumper.left_lock  => duty[1] = brakes
        /\ ~bumper.right_lock => duty[4] = brakes

(* Between two iterations every lamp that no burst and no turn signal owns *)
(* burns exactly when the last brake frame in the log says that the brakes *)
(* are applied.                                                            *)
THEOREM LampsTellTheLog == Spec => []LampsShowLog
  <1>1. LP!LampsShowBrakes /\ ActsFollowLog => LampsShowLog
    <2> SUFFICES ASSUME LP!LampsShowBrakes, ActsFollowLog, pc \in {"select", "report"}
                 PROVE  LampsShowLog
      BY DEF LampsShowLog
    <2>1. LightsPc(pc) = "rx" /\ pc # "dispatch"
      BY LightsPcIs
    <2>2. bumper.brake_state = BrakesLogged(log)
      BY <2>1, Zenon DEF ActsFollowLog, AccountedFor
    <2> QED BY <2>1, <2>2, Zenon DEF LP!LampsShowBrakes, LampsShowLog
  <1> QED
    BY <1>1, LogIsTheProgram, Refinement, SameLights, LP!LampsTellTheTruth, LightsAssumption,
       PTL DEF RunsComponents
=============================================================================
