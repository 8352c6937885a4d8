---------------------------- MODULE BumperProofs ----------------------------
(***************************************************************************)
(* Proofs about Bumper, for every FLASH_TIME, SIGNAL_TIME and every set of *)
(* frames.  First what each function of the source does to the type of the *)
(* struct and to BumperInv; then the inductive invariant; then the safety  *)
(* and action properties that the runs of MCBumper check.                  *)
(***************************************************************************)
EXTENDS Bumper, TLAPS

-----------------------------------------------------------------------------
(* The functions of the source keep the type of the struct. *)

LEMMA FieldTypes ==
  ASSUME NEW b \in BumperType
  PROVE  /\ b.outer_left \in BOOLEAN /\ b.inner_left \in BOOLEAN
         /\ b.inner_right \in BOOLEAN /\ b.outer_right \in BOOLEAN
         /\ b.has_flashed \in BOOLEAN /\ b.brake_state \in BOOLEAN
         /\ b.flash_lock \in BOOLEAN /\ b.num_flashes \in 0 .. 4
         /\ b.left_lock \in BOOLEAN /\ b.right_lock \in BOOLEAN
         /\ b.signal \in 0 .. 15
         /\ b.flash_timer \in 0 .. FLASH_TIME + 1
         /\ b.signal_timer \in 0 .. SIGNAL_TIME + 1
  BY Zenon DEF BumperType

LEMMA Zeros ==
  /\ 0 \in 0 .. 4
  /\ 0 \in 0 .. FLASH_TIME + 1
  /\ 0 \in 0 .. SIGNAL_TIME + 1
  BY BumperAssumption

LEMMA BrakeAppliedType ==
  ASSUME NEW b \in BumperType PROVE BrakeApplied(b) \in BumperType
  <1> DEFINE il == b.inner_left \/ ~b.flash_lock
             ir == b.inner_right \/ ~b.flash_lock
             ol == b.outer_left \/ ~b.left_lock
             or == b.outer_right \/ ~b.right_lock
             c == [b EXCEPT !.inner_left  = il, !.inner_right = ir,
                            !.outer_left  = ol, !.outer_right = or]
  <1>1. il \in BOOLEAN /\ ir \in BOOLEAN /\ ol \in BOOLEAN /\ or \in BOOLEAN
    OBVIOUS
  <1>2. BrakeApplied(b) = c  BY Zenon DEF BrakeApplied
  <1> HIDE DEF il, ir, ol, or
  <1>3. c \in BumperType  BY <1>1, ZenonT(60) DEF BumperType
  <1> QED BY <1>2, <1>3

LEMMA BrakeReleasedType ==
  ASSUME NEW b \in BumperType PROVE BrakeReleased(b) \in BumperType
  <1> DEFINE ol == b.outer_left /\ b.left_lock
             or == b.outer_right /\ b.right_lock
             c == [b EXCEPT !.inner_left  = FALSE, !.inner_right = FALSE,
                            !.outer_left  = ol,    !.outer_right = or,
                            !.num_flashes = 0]
  <1>1. ol \in BOOLEAN /\ or \in BOOLEAN
    OBVIOUS
  <1>2. BrakeReleased(b) = c  BY Zenon DEF BrakeReleased
  <1> HIDE DEF ol, or
  <1>3. c \in BumperType  BY <1>1, Zeros, ZenonT(60) DEF BumperType
  <1> QED BY <1>2, <1>3

LEMMA BrakeType ==
  ASSUME NEW b \in BumperType PROVE Brake(b) \in BumperType
  BY BrakeAppliedType, BrakeReleasedType, Zenon DEF Brake

LEMMA BrakeFlashType ==
  ASSUME NEW b \in BumperType PROVE BrakeFlash(b) \in BumperType
  <1> DEFINE n == IF LastFlash(b) THEN 0 ELSE b.num_flashes + 1
             i == ~b.inner_left
             l == b.flash_lock /\ ~LastFlash(b)
             h == b.has_flashed \/ LastFlash(b)
             c == [b EXCEPT !.flash_timer = 0,
                            !.inner_left  = i,
                            !.inner_right = i,
                            !.num_flashes = n,
                            !.flash_lock  = l,
                            !.has_flashed = h]
  <1>1. n \in 0 .. 4
    <2>1. b.num_flashes \in 0 .. 4  BY FieldTypes
    <2> QED BY <2>1, SMT DEF LastFlash
  <1>2. i \in BOOLEAN /\ l \in BOOLEAN /\ h \in BOOLEAN
    BY Zenon
  <1>3. BrakeFlash(b) \in {b, c}
    BY Zenon DEF BrakeFlash
  <1> HIDE DEF n, i, l, h
  <1>4. c \in BumperType
    BY <1>1, <1>2, Zeros, ZenonT(60) DEF BumperType
  <1> QED BY <1>3, <1>4

LEMMA SignalledType ==
  ASSUME NEW b \in BumperType PROVE Signalled(b) \in BumperType
  <1>1. /\ (~b.outer_left) \in BOOLEAN
        /\ (~b.outer_right) \in BOOLEAN
    OBVIOUS
  <1>2. Hazards(b) \in BumperType  BY <1>1, ZenonT(60) DEF Hazards, BumperType
  <1>3. TurnLeft(b) \in BumperType  BY <1>1, ZenonT(60) DEF TurnLeft, BumperType
  <1>4. TurnRight(b) \in BumperType  BY <1>1, ZenonT(60) DEF TurnRight, BumperType
  <1>5. NoTurn(b) \in BumperType  BY ZenonT(60) DEF NoTurn, BumperType
  <1> QED BY <1>2, <1>3, <1>4, <1>5 DEF Signalled

LEMMA TurnSignalType ==
  ASSUME NEW b \in BumperType PROVE TurnSignal(b) \in BumperType
  <1>1. Signalled(b) \in BumperType  BY SignalledType
  <1>2. [Signalled(b) EXCEPT !.signal_timer = 0] \in BumperType
    BY <1>1, Zeros, ZenonT(60) DEF BumperType
  <1> QED BY <1>2, Zenon DEF TurnSignal

LEMMA BrakeFrameType ==
  ASSUME NEW b \in BumperType, NEW speed_value, NEW brake_switch
  PROVE  BrakeFrame(b, speed_value, brake_switch) \in BumperType
  <1>1. (b.flash_lock \/ (speed_value > 0 /\ ~b.has_flashed)) \in BOOLEAN
    OBVIOUS
  <1> QED BY <1>1, ZenonT(60) DEF BrakeFrame, BumperType

LEMMA SignalFrameType ==
  ASSUME NEW b \in BumperType, NEW signal \in SignalValues
  PROVE  SignalFrame(b, signal) \in BumperType
  <1>1. signal \in 0 .. 15  BY BumperAssumption
  <1> QED BY <1>1, ZenonT(60) DEF SignalFrame, BumperType

LEMMA InitBumperType == InitBumper \in BumperType
  <1>1. 0 \in 0 .. 15  BY SMT
  <1> QED BY <1>1, Zeros, ZenonT(60) DEF InitBumper, BumperType

-----------------------------------------------------------------------------
(* What each function does to the invariant of the struct. *)

(* brake() settles the lamps.                                              *)
LEMMA BrakeSettles ==
  ASSUME NEW b \in BumperType, BumperInv(b)
  PROVE  /\ BumperInv(Brake(b))
         /\ Settled(Brake(b))
  <1>1. CASE b.brake_state
    BY <1>1 DEF Brake, BrakeApplied, BumperType, BumperInv, Settled
  <1>2. CASE ~b.brake_state
    BY <1>2 DEF Brake, BrakeReleased, BumperType, BumperInv, Settled
  <1> QED BY <1>1, <1>2

LEMMA BrakeFlashInv ==
  ASSUME NEW b \in BumperType, BumperInv(b), b.flash_lock
  PROVE  BumperInv(BrakeFlash(b))
  <1>1. CASE b.flash_timer <= FLASH_TIME
    BY <1>1 DEF BrakeFlash
  <1>2. CASE ~(b.flash_timer <= FLASH_TIME)
    BY <1>2 DEF BrakeFlash, LastFlash, BumperType, BumperInv
  <1> QED BY <1>1, <1>2

LEMMA SignalledInv ==
  ASSUME NEW b \in BumperType, BumperInv(b)
  PROVE  BumperInv(Signalled(b))
  <1>1. BumperInv(Hazards(b))  BY DEF Hazards, BumperType, BumperInv
  <1>2. BumperInv(TurnLeft(b))  BY DEF TurnLeft, BumperType, BumperInv
  <1>3. BumperInv(TurnRight(b))  BY DEF TurnRight, BumperType, BumperInv
  <1>4. BumperInv(NoTurn(b))  BY DEF NoTurn, BumperType, BumperInv
  <1> QED BY <1>1, <1>2, <1>3, <1>4 DEF Signalled

LEMMA TurnSignalInv ==
  ASSUME NEW b \in BumperType, BumperInv(b)
  PROVE  BumperInv(TurnSignal(b))
  <1>1. Signalled(b) \in BumperType /\ BumperInv(Signalled(b))
    BY SignalledType, SignalledInv
  <1>2. BumperInv([Signalled(b) EXCEPT !.signal_timer = 0])
    BY <1>1 DEF BumperType, BumperInv
  <1> QED BY <1>2 DEF TurnSignal

LEMMA BrakeFrameInv ==
  ASSUME NEW b \in BumperType, BumperInv(b), Settled(b),
         NEW speed_value, NEW brake_switch
  PROVE  BumperInv(BrakeFrame(b, speed_value, brake_switch))
  BY DEF BrakeFrame, BumperType, BumperInv, Settled

LEMMA SignalFrameInv ==
  ASSUME NEW b \in BumperType, BumperInv(b), NEW signal
  PROVE  BumperInv(SignalFrame(b, signal))
  BY DEF SignalFrame, BumperType, BumperInv

LEMMA BrakeRoutineOK ==
  ASSUME NEW b \in BumperType, BumperInv(b)
  PROVE  /\ BrakeRoutine(b) \in BumperType
         /\ BumperInv(BrakeRoutine(b))
         /\ Settled(BrakeRoutine(b))
  <1> DEFINE c == IF b.flash_lock THEN BrakeFlash(b) ELSE b
  <1>1. c \in BumperType /\ BumperInv(c)
    BY BrakeFlashType, BrakeFlashInv
  <1> HIDE DEF c
  <1>2. Brake(c) \in BumperType /\ BumperInv(Brake(c))
    BY <1>1, BrakeType, BrakeSettles
  <1>3. /\ Brake(Brake(c)) \in BumperType
        /\ BumperInv(Brake(Brake(c)))
        /\ Settled(Brake(Brake(c)))
    BY <1>2, BrakeType, BrakeSettles
  <1> QED BY <1>3 DEF BrakeRoutine, c

(* Time only moves the two timers. *)
LEMMA TickKeeps ==
  ASSUME NEW b \in BumperType, BumperInv(b)
  PROVE  /\ Ticked(b) \in BumperType
         /\ BumperInv(Ticked(b))
         /\ Settled(b) => Settled(Ticked(b))
         /\ Leds(Ticked(b)) = Leds(b)
  <1> DEFINE f == IF b.flash_timer <= FLASH_TIME THEN b.flash_timer + 1
                                                 ELSE b.flash_timer
             g == IF b.signal_timer <= SIGNAL_TIME THEN b.signal_timer + 1
                                                   ELSE b.signal_timer
  <1>1. f \in 0 .. FLASH_TIME + 1 /\ g \in 0 .. SIGNAL_TIME + 1
    <2>1. /\ b.flash_timer \in 0 .. FLASH_TIME + 1
          /\ b.signal_timer \in 0 .. SIGNAL_TIME + 1
      BY FieldTypes
    <2> QED BY <2>1, BumperAssumption
  <1>2. Ticked(b) = [b EXCEPT !.flash_timer = f, !.signal_timer = g]
    BY DEF Ticked
  <1> HIDE DEF f, g
  <1>3. Ticked(b) \in BumperType  BY <1>1, <1>2, Zenon DEF BumperType
  <1> QED BY <1>2, <1>3 DEF BumperType, BumperInv, Settled, Leds

LEMMA InitBumperInv == BumperInv(InitBumper) /\ Settled(InitBumper)
  BY DEF InitBumper, BumperInv, Settled

-----------------------------------------------------------------------------
(* The inductive invariant. *)

(* Every reachable state of the loop satisfies IInv: the struct is well    *)
(* typed, a burst belongs to the current application of the brakes, the    *)
(* lamps of a pair agree, brake_routine has settled them and set_duty has  *)
(* copied them (bumper.c, rx_brake_routine and the loop of main).          *)
THEOREM Invariance == Spec => []IInv
  <1>1. Init => IInv
    <2> SUFFICES ASSUME Init PROVE IInv  OBVIOUS
    <2>1. bumper = InitBumper /\ pc = "rx"
           /\ duty = [pin \in 1 .. 4 |-> PWM_LOW]
      BY DEF Init
    <2>2. TypeOK
      BY <2>1, InitBumperType DEF TypeOK
    <2>3. \A pin \in 1 .. 4 : duty[pin] = Duty(Leds(bumper)[pin])
      <3>1. Leds(bumper) = <<FALSE, FALSE, FALSE, FALSE>>
        BY <2>1 DEF Leds, InitBumper
      <3>2. Duty(FALSE) = PWM_LOW
        BY DEF Duty
      <3>3. /\ Leds(bumper)[1] = FALSE /\ Leds(bumper)[2] = FALSE
            /\ Leds(bumper)[3] = FALSE /\ Leds(bumper)[4] = FALSE
        BY <3>1
      <3>4. \A pin \in 1 .. 4 : duty[pin] = PWM_LOW
        BY <2>1
      <3>5. \A pin \in 1 .. 4 : pin = 1 \/ pin = 2 \/ pin = 3 \/ pin = 4
        OBVIOUS
      <3> QED BY <3>2, <3>3, <3>4, <3>5, Zenon
    <2> QED BY <2>1, <2>2, <2>3, InitBumperInv DEF IInv
  <1>2. IInv /\ [Next]_vars => IInv'
    <2> SUFFICES ASSUME IInv, [Next]_vars PROVE IInv'  OBVIOUS
    <2> USE DEF IInv
    <2>t. bumper \in BumperType /\ pc \in {"rx", "turn", "brake", "gpio", "exited"}
           /\ duty \in [1 .. 4 -> {PWM_LOW, PWM_HIGH}]
      BY DEF TypeOK
    <2>1. CASE RxBrake
      <3>1. PICK speed_value \in SpeedValues, brake_switch \in 0 .. 3 :
                bumper' = BrakeFrame(bumper, speed_value, brake_switch)
        BY <2>1 DEF RxBrake
      <3>2. bumper' \in BumperType /\ BumperInv(bumper')
        BY <2>1, <2>t, <3>1, BrakeFrameType, BrakeFrameInv DEF RxBrake
      <3> QED BY <2>1, <2>t, <3>2 DEF RxBrake, TypeOK
    <2>2. CASE RxSignal
      <3>1. PICK signal \in SignalValues : bumper' = SignalFrame(bumper, signal)
        BY <2>2 DEF RxSignal
      <3>2. bumper' \in BumperType /\ BumperInv(bumper')
        BY <2>t, <3>1, SignalFrameType, SignalFrameInv
      <3> QED BY <2>2, <2>t, <3>2 DEF RxSignal, TypeOK
    <2>3. CASE RxNothing
      BY <2>3, <2>t DEF RxNothing, TypeOK
    <2>4. CASE RunTurnSignal
      <3>1. bumper' \in BumperType /\ BumperInv(bumper')
        BY <2>4, <2>t, TurnSignalType, TurnSignalInv DEF RunTurnSignal
      <3> QED BY <2>4, <2>t, <3>1 DEF RunTurnSignal, TypeOK
    <2>5. CASE RunBrake
      <3>1. bumper' \in BumperType /\ BumperInv(bumper') /\ Settled(bumper')
        BY <2>5, <2>t, BrakeRoutineOK DEF RunBrake
      <3> QED BY <2>5, <2>t, <3>1 DEF RunBrake, TypeOK
    <2>6. CASE SetDuty
      <3>1. duty' = [pin \in 1 .. 4 |-> Duty(Leds(bumper)[pin])]
             /\ pc' = "rx" /\ bumper' = bumper /\ pc = "gpio"
        BY <2>6 DEF SetDuty
      <3>2. duty' \in [1 .. 4 -> {PWM_LOW, PWM_HIGH}]
        BY <3>1 DEF Duty
      <3>3. \A pin \in 1 .. 4 : duty'[pin] = Duty(Leds(bumper')[pin])
        BY <3>1
      <3> QED BY <2>t, <3>1, <3>2, <3>3 DEF TypeOK
    <2>7. CASE Tick
      <3>1. bumper' \in BumperType /\ BumperInv(bumper')
             /\ (Settled(bumper) => Settled(bumper'))
             /\ Leds(bumper') = Leds(bumper)
        BY <2>7, <2>t, TickKeeps DEF Tick
      <3> QED BY <2>7, <2>t, <3>1 DEF Tick, TypeOK
    <2>8. CASE Exit
      BY <2>8, <2>t DEF Exit, TypeOK
    <2>9. CASE UNCHANGED vars
      BY <2>9, <2>t DEF vars, TypeOK
    <2> QED BY <2>1, <2>2, <2>3, <2>4, <2>5, <2>6, <2>7, <2>8, <2>9 DEF Next, Main, Receive
  <1> QED BY <1>1, <1>2, PTL DEF Spec

-----------------------------------------------------------------------------
(* The safety properties of the runs. *)

LEMMA DutyCopied ==
  ASSUME IInv, pc = "rx"
  PROVE  /\ duty[1] = Duty(bumper.outer_left)
         /\ duty[2] = Duty(bumper.inner_left)
         /\ duty[3] = Duty(bumper.inner_right)
         /\ duty[4] = Duty(bumper.outer_right)
  <1>1. \A pin \in 1 .. 4 : duty[pin] = Duty(Leds(bumper)[pin])
    BY DEF IInv
  <1>2. 1 \in 1 .. 4 /\ 2 \in 1 .. 4 /\ 3 \in 1 .. 4 /\ 4 \in 1 .. 4
    OBVIOUS
  <1>3. /\ Leds(bumper)[1] = bumper.outer_left
        /\ Leds(bumper)[2] = bumper.inner_left
        /\ Leds(bumper)[3] = bumper.inner_right
        /\ Leds(bumper)[4] = bumper.outer_right
    BY DEF Leds
  <1> QED BY <1>1, <1>2, <1>3, Zenon

(* The struct, the control point and the duty cycles keep their types. *)
THEOREM TypeCorrect == Spec => []TypeOK
  <1>1. IInv => TypeOK  BY DEF IInv
  <1> QED BY <1>1, Invariance, PTL

(* LampsShowBrakes: after set_duty every lamp that neither a burst nor a   *)
(* turn signal owns is driven by the state of the brakes.                  *)
THEOREM LampsTellTheTruth == Spec => []LampsShowBrakes
  <1>1. ASSUME IInv PROVE LampsShowBrakes
    <2> SUFFICES ASSUME pc = "rx" PROVE LampsShowBrakes  BY DEF LampsShowBrakes
    <2>1. BumperInv(bumper) /\ Settled(bumper)
      BY <1>1 DEF IInv
    <2>2. /\ duty[1] = Duty(bumper.outer_left)
          /\ duty[2] = Duty(bumper.inner_left)
          /\ duty[3] = Duty(bumper.inner_right)
          /\ duty[4] = Duty(bumper.outer_right)
      BY <1>1, DutyCopied
    <2>3. /\ ~bumper.flash_lock => bumper.inner_left = bumper.brake_state
          /\ ~bumper.left_lock  => bumper.outer_left = bumper.brake_state
          /\ ~bumper.right_lock => bumper.outer_right = bumper.brake_state
          /\ bumper.inner_left = bumper.inner_right
      BY <2>1, Zenon DEF BumperInv, Settled
    <2> QED BY <2>2, <2>3, Zenon DEF LampsShowBrakes
  <1> QED BY <1>1, Invariance, PTL

(* LampsInStep: hazard lights blink together, and the inner pair agrees. *)
THEOREM PairsAgree == Spec => []LampsInStep
  <1>1. ASSUME IInv PROVE LampsInStep
    <2> SUFFICES ASSUME pc = "rx" PROVE LampsInStep  BY DEF LampsInStep
    <2>1. /\ duty[1] = Duty(bumper.outer_left)
          /\ duty[2] = Duty(bumper.inner_left)
          /\ duty[3] = Duty(bumper.inner_right)
          /\ duty[4] = Duty(bumper.outer_right)
      BY <1>1, DutyCopied
    <2>2. BumperInv(bumper)  BY <1>1 DEF IInv
    <2> QED BY <2>1, <2>2, Zenon DEF LampsInStep, BumperInv
  <1> QED BY <1>1, Invariance, PTL

(* BurstOnlyWhileBraking: no burst without applied brakes, none after the  *)
(* burst of this application is over.                                      *)
THEOREM BurstNeedsBrakes == Spec => []BurstOnlyWhileBraking
  <1>1. IInv => BurstOnlyWhileBraking
    BY DEF IInv, BumperInv, BurstOnlyWhileBraking
  <1> QED BY <1>1, Invariance, PTL

-----------------------------------------------------------------------------
(* The action properties of the runs: first what the functions leave alone. *)

LEMMA BrakeEffect ==
  ASSUME NEW b \in BumperType
  PROVE  /\ Brake(b).flash_lock = b.flash_lock
         /\ Brake(b).has_flashed = b.has_flashed
         /\ Brake(b).brake_state = b.brake_state
         /\ Brake(b).left_lock = b.left_lock
         /\ Brake(b).right_lock = b.right_lock
         /\ b.flash_lock /\ b.brake_state =>
                /\ Brake(b).inner_left = b.inner_left
                /\ Brake(b).num_flashes = b.num_flashes
         /\ b.left_lock => Brake(b).outer_left = b.outer_left
         /\ b.right_lock => Brake(b).outer_right = b.outer_right
  <1>1. CASE b.brake_state
    BY <1>1 DEF Brake, BrakeApplied, BumperType
  <1>2. CASE ~b.brake_state
    BY <1>2 DEF Brake, BrakeReleased, BumperType
  <1> QED BY <1>1, <1>2

LEMMA BrakeFlashEffect ==
  ASSUME NEW b \in BumperType
  PROVE  /\ BrakeFlash(b).flash_lock => b.flash_lock
         /\ b.has_flashed => BrakeFlash(b).has_flashed
         /\ BrakeFlash(b).brake_state = b.brake_state
         /\ BrakeFlash(b).left_lock = b.left_lock
         /\ BrakeFlash(b).right_lock = b.right_lock
         /\ BrakeFlash(b).outer_left = b.outer_left
         /\ BrakeFlash(b).outer_right = b.outer_right
         /\ BrakeFlash(b).flash_lock =>
              (BrakeFlash(b).inner_left # b.inner_left)
                = (BrakeFlash(b).num_flashes # b.num_flashes)
  <1>1. CASE b.flash_timer <= FLASH_TIME
    BY <1>1 DEF BrakeFlash
  <1>2. CASE ~(b.flash_timer <= FLASH_TIME)
    BY <1>2 DEF BrakeFlash, LastFlash, BumperType
  <1> QED BY <1>1, <1>2

LEMMA BrakeRoutineEffect ==
  ASSUME NEW b \in BumperType, BumperInv(b)
  PROVE  LET r == BrakeRoutine(b) IN
         /\ r.flash_lock => b.flash_lock
         /\ b.has_flashed => r.has_flashed
         /\ r.brake_state = b.brake_state
         /\ r.left_lock = b.left_lock
         /\ r.right_lock = b.right_lock
         /\ b.left_lock => r.outer_left = b.outer_left
         /\ b.right_lock => r.outer_right = b.outer_right
         /\ r.flash_lock =>
              (r.inner_left # b.inner_left) = (r.num_flashes # b.num_flashes)
  <1> DEFINE c == IF b.flash_lock THEN BrakeFlash(b) ELSE b
  <1>1. /\ c \in BumperType
        /\ BumperInv(c)
        /\ c.flash_lock => b.flash_lock
        /\ b.has_flashed => c.has_flashed
        /\ c.brake_state = b.brake_state
        /\ c.left_lock = b.left_lock
        /\ c.right_lock = b.right_lock
        /\ c.outer_left = b.outer_left
        /\ c.outer_right = b.outer_right
        /\ c.flash_lock =>
             (c.inner_left # b.inner_left) = (c.num_flashes # b.num_flashes)
    BY BrakeFlashType, BrakeFlashInv, BrakeFlashEffect
  <1> HIDE DEF c
  <1>2. c.flash_lock => c.brake_state
    BY <1>1 DEF BumperInv
  <1>3. Brake(c) \in BumperType
    BY <1>1, BrakeType
  <1> QED BY <1>1, <1>2, <1>3, BrakeEffect DEF BrakeRoutine, c

LEMMA TurnSignalEffect ==
  ASSUME NEW b \in BumperType
  PROVE  LET r == TurnSignal(b) IN
         /\ r.flash_lock = b.flash_lock
         /\ r.has_flashed = b.has_flashed
         /\ r.brake_state = b.brake_state
         /\ r.num_flashes = b.num_flashes
         /\ r.inner_left = b.inner_left
         /\ b.signal = NOT_AVAILABLE =>
                /\ r.left_lock = b.left_lock
                /\ r.right_lock = b.right_lock
                /\ r.outer_left = b.outer_left
                /\ r.outer_right = b.outer_right
  <1>1. Signalled(b) \in BumperType  BY SignalledType
  <1>2. /\ Signalled(b).flash_lock = b.flash_lock
        /\ Signalled(b).has_flashed = b.has_flashed
        /\ Signalled(b).brake_state = b.brake_state
        /\ Signalled(b).num_flashes = b.num_flashes
        /\ Signalled(b).inner_left = b.inner_left
    BY DEF Signalled, Hazards, TurnLeft, TurnRight, NoTurn, BumperType
  <1>3. b.signal = NOT_AVAILABLE => Signalled(b) = b
    BY DEF Signalled, HAZARD, LEFT, RIGHT, NOT_AVAILABLE
  <1> QED BY <1>1, <1>2, <1>3 DEF TurnSignal, BumperType

LEMMA TickEffect ==
  ASSUME NEW b \in BumperType
  PROVE  LET r == Ticked(b) IN
         /\ r.flash_lock = b.flash_lock
         /\ r.has_flashed = b.has_flashed
         /\ r.brake_state = b.brake_state
         /\ r.num_flashes = b.num_flashes
         /\ r.inner_left = b.inner_left
         /\ r.left_lock = b.left_lock
         /\ r.right_lock = b.right_lock
         /\ r.outer_left = b.outer_left
         /\ r.outer_right = b.outer_right
  BY DEF Ticked, BumperType

LEMMA FrameEffect ==
  ASSUME NEW b \in BumperType
  PROVE  /\ \A speed_value, brake_switch :
              LET r == BrakeFrame(b, speed_value, brake_switch) IN
              /\ r.num_flashes = b.num_flashes
              /\ r.inner_left = b.inner_left
              /\ r.left_lock = b.left_lock
              /\ r.right_lock = b.right_lock
              /\ r.outer_left = b.outer_left
              /\ r.outer_right = b.outer_right
              /\ b.has_flashed /\ r.brake_state => r.has_flashed
              /\ b.has_flashed /\ r.flash_lock => b.flash_lock
         /\ \A signal :
              LET r == SignalFrame(b, signal) IN
              /\ r.num_flashes = b.num_flashes
              /\ r.inner_left = b.inner_left
              /\ r.left_lock = b.left_lock
              /\ r.right_lock = b.right_lock
              /\ r.outer_left = b.outer_left
              /\ r.outer_right = b.outer_right
              /\ r.has_flashed = b.has_flashed
              /\ r.flash_lock = b.flash_lock
  BY DEF BrakeFrame, SignalFrame, BumperType

(* One proof by cases on the step serves the four action properties.       *)
LEMMA StepEffect ==
  ASSUME IInv, [Next]_vars
  PROVE  FreshStep /\ SingleBurstStep /\ FlashSeenStep /\ FrozenStep
  <1> USE DEF FreshStep, SingleBurstStep, FlashSeenStep, FrozenStep
  <1>t. bumper \in BumperType /\ BumperInv(bumper)
    BY DEF IInv, TypeOK
  <1>i. bumper.has_flashed => ~bumper.flash_lock
    BY <1>t DEF BumperInv
  <1>1. CASE RxBrake
    <2>1. PICK speed_value \in SpeedValues, brake_switch \in 0 .. 3 :
              bumper' = BrakeFrame(bumper, speed_value, brake_switch)
      BY <1>1 DEF RxBrake
    <2>2. ~bumper.flash_lock => bumper.num_flashes = 0
      BY <1>1 DEF RxBrake, IInv, Settled
    <2> QED BY <1>t, <1>i, <2>1, <2>2, FrameEffect
  <1>2. CASE RxSignal
    <2>1. PICK signal \in SignalValues : bumper' = SignalFrame(bumper, signal)
      BY <1>2 DEF RxSignal
    <2> QED BY <1>t, <1>i, <2>1, FrameEffect
  <1>3. CASE RunTurnSignal
    BY <1>t, <1>i, <1>3, TurnSignalEffect DEF RunTurnSignal
  <1>4. CASE RunBrake
    BY <1>t, <1>i, <1>4, BrakeRoutineEffect DEF RunBrake
  <1>5. CASE Tick
    BY <1>t, <1>i, <1>5, TickEffect DEF Tick
  <1>6. CASE UNCHANGED bumper
    BY <1>t, <1>i, <1>6
  <1> QED
    BY <1>1, <1>2, <1>3, <1>4, <1>5, <1>6
       DEF Next, Main, Receive, RxNothing, Exit, SetDuty, vars

(* BurstStartsFresh: rx_brake_routine never starts a burst on a counter    *)
(* that an aborted burst left behind.                                      *)
THEOREM FreshBursts == Spec => BurstStartsFresh
  <1>1. IInv /\ [Next]_vars => [FreshStep]_vars
    BY StepEffect
  <1> QED BY <1>1, Invariance, PTL DEF Spec, BurstStartsFresh

(* OneBurstPerApplication: has_flashed, once set, keeps further bursts out *)
(* until the brakes are released.                                          *)
THEOREM SingleBursts == Spec => OneBurstPerApplication
  <1>1. IInv /\ [Next]_vars => [SingleBurstStep]_vars
    BY StepEffect
  <1> QED BY <1>1, Invariance, PTL DEF Spec, OneBurstPerApplication

(* EveryFlashIsSeen: in a burst the inner lamps toggle with the counter.   *)
THEOREM FlashesAreSeen == Spec => EveryFlashIsSeen
  <1>1. IInv /\ [Next]_vars => [FlashSeenStep]_vars
    BY StepEffect
  <1> QED BY <1>1, Invariance, PTL DEF Spec, EveryFlashIsSeen

(* NotAvailableFreezes: "not available" freezes the lamps a turn signal    *)
(* owns, through braking and bursts.                                       *)
THEOREM Frozen == Spec => NotAvailableFreezes
  <1>1. IInv /\ [Next]_vars => [FrozenStep]_vars
    BY StepEffect
  <1> QED BY <1>1, Invariance, PTL DEF Spec, NotAvailableFreezes

-----------------------------------------------------------------------------
(* Bumper implements Burst.                                                *)

(* brake_flash counts one flash or ends the burst.                         *)
LEMMA BrakeFlashBurst ==
  ASSUME NEW b \in BumperType, BumperInv(b), b.flash_lock
  PROVE  LET r == BrakeFlash(b) IN
         /\ r.flash_lock =>
              /\ ~r.has_flashed
              /\ \/ r.num_flashes = b.num_flashes /\ r.inner_left = b.inner_left
                 \/ /\ b.num_flashes < 4
                    /\ r.num_flashes = b.num_flashes + 1
                    /\ r.inner_left = ~b.inner_left
         /\ ~r.flash_lock => b.num_flashes = 4 /\ r.has_flashed
  <1>1. CASE b.flash_timer <= FLASH_TIME
    BY <1>1 DEF BrakeFlash, BumperInv
  <1>2. CASE ~(b.flash_timer <= FLASH_TIME)
    <2>1. b.num_flashes \in 0 .. 4  BY FieldTypes
    <2> QED BY <1>2, <2>1 DEF BrakeFlash, LastFlash, BumperType, BumperInv
  <1> QED BY <1>1, <1>2

(* brake() shows the brakes on the inner lamps unless a burst owns them.   *)
LEMMA BrakeShows ==
  ASSUME NEW b \in BumperType, ~b.flash_lock
  PROVE  Brake(b).inner_left = b.brake_state
  <1>1. CASE b.brake_state
    BY <1>1 DEF Brake, BrakeApplied, BumperType
  <1>2. CASE ~b.brake_state
    BY <1>2 DEF Brake, BrakeReleased, BumperType
  <1> QED BY <1>1, <1>2

LEMMA BrakeRoutineBurst ==
  ASSUME NEW b \in BumperType, BumperInv(b)
  PROVE  LET r == BrakeRoutine(b) IN
         /\ r.brake_state = b.brake_state
         /\ ~b.flash_lock =>
              /\ ~r.flash_lock
              /\ r.has_flashed = b.has_flashed
              /\ r.inner_left = b.brake_state
         /\ b.flash_lock /\ r.flash_lock =>
              \/ r.num_flashes = b.num_flashes /\ r.inner_left = b.inner_left
              \/ /\ b.num_flashes < 4
                 /\ r.num_flashes = b.num_flashes + 1
                 /\ r.inner_left = ~b.inner_left
         /\ b.flash_lock /\ ~r.flash_lock =>
              /\ b.num_flashes = 4
              /\ r.has_flashed
              /\ r.inner_left = TRUE
  <1> DEFINE c == IF b.flash_lock THEN BrakeFlash(b) ELSE b
  <1>1. /\ c \in BumperType
        /\ BumperInv(c)
        /\ c.brake_state = b.brake_state
        /\ c.flash_lock => b.flash_lock
    BY BrakeFlashType, BrakeFlashInv, BrakeFlashEffect
  <1>2. /\ ~b.flash_lock => c = b
        /\ b.flash_lock /\ c.flash_lock =>
              \/ c.num_flashes = b.num_flashes /\ c.inner_left = b.inner_left
              \/ /\ b.num_flashes < 4
                 /\ c.num_flashes = b.num_flashes + 1
                 /\ c.inner_left = ~b.inner_left
        /\ b.flash_lock /\ ~c.flash_lock => b.num_flashes = 4 /\ c.has_flashed
    BY BrakeFlashBurst
  <1> HIDE DEF c
  <1>3. c.flash_lock => c.brake_state
    BY <1>1 DEF BumperInv
  <1>4. Brake(c) \in BumperType
    BY <1>1, BrakeType
  <1>5. c.has_flashed => c.brake_state
    BY <1>1 DEF BumperInv
  <1>6. BrakeRoutine(b) = Brake(Brake(c))
    BY DEF BrakeRoutine, c
  <1>7. /\ Brake(Brake(c)).flash_lock = c.flash_lock
        /\ Brake(Brake(c)).has_flashed = c.has_flashed
        /\ Brake(Brake(c)).brake_state = c.brake_state
        /\ c.flash_lock => /\ Brake(Brake(c)).inner_left = c.inner_left
                           /\ Brake(Brake(c)).num_flashes = c.num_flashes
        /\ ~c.flash_lock => Brake(Brake(c)).inner_left = c.brake_state
    BY <1>1, <1>3, <1>4, BrakeEffect, BrakeShows
  <1>8. c.brake_state \in BOOLEAN
    BY <1>1, FieldTypes
  <1> QED BY <1>1, <1>2, <1>5, <1>6, <1>7, <1>8

(* What a frame does to the flags the abstract display is made of.         *)
LEMMA BrakeFrameBurst ==
  ASSUME NEW b \in BumperType, NEW speed_value, NEW brake_switch
  PROVE  LET r == BrakeFrame(b, speed_value, brake_switch) IN
         /\ r.inner_left = b.inner_left
         /\ r.num_flashes = b.num_flashes
         /\ \/ /\ r.brake_state = TRUE
               /\ r.has_flashed = b.has_flashed
               /\ \/ r.flash_lock = b.flash_lock
                  \/ r.flash_lock /\ ~b.has_flashed
            \/ /\ r.brake_state = FALSE
               /\ ~r.flash_lock
               /\ ~r.has_flashed
  <1> USE DEF BrakeFrame, BumperType
  <1>1. CASE brake_switch # 0 /\ speed_value > 0 /\ ~b.has_flashed
    BY <1>1
  <1>2. CASE brake_switch # 0 /\ ~(speed_value > 0 /\ ~b.has_flashed)
    BY <1>2
  <1>3. CASE brake_switch = 0
    BY <1>3
  <1> QED BY <1>1, <1>2, <1>3

LEMMA PhaseIs ==
  ASSUME NEW b
  PROVE  /\ b.flash_lock => Phase(b) = "on" /\ Count(b) = b.num_flashes
         /\ ~b.flash_lock => Count(b) = 0
         /\ ~b.flash_lock /\ b.has_flashed => Phase(b) = "done"
         /\ ~b.flash_lock /\ ~b.has_flashed => Phase(b) = "none"
         /\ Phase(b) = "on" => b.flash_lock
  BY DEF Phase, Count

(* Every step of the loop is a step of Burst or leaves the display alone.  *)
LEMMA StepSimulation ==
  ASSUME IInv, [Next]_vars
  PROVE  [B!Next]_(B!vars)
  <1>t. bumper \in BumperType /\ BumperInv(bumper)
    BY DEF IInv, TypeOK
  <1>1. CASE RxBrake
    <2>1. PICK speed_value \in SpeedValues, brake_switch \in 0 .. 3 :
              bumper' = BrakeFrame(bumper, speed_value, brake_switch)
      BY <1>1 DEF RxBrake
    <2>2. ~bumper.flash_lock => bumper.num_flashes = 0
      BY <1>1 DEF RxBrake, IInv, Settled
    <2>3. /\ bumper'.inner_left = bumper.inner_left
          /\ bumper'.num_flashes = bumper.num_flashes
          /\ \/ /\ bumper'.brake_state = TRUE
                /\ bumper'.has_flashed = bumper.has_flashed
                /\ \/ bumper'.flash_lock = bumper.flash_lock
                   \/ bumper'.flash_lock /\ ~bumper.has_flashed
             \/ /\ bumper'.brake_state = FALSE
                /\ ~bumper'.flash_lock
                /\ ~bumper'.has_flashed
      BY <1>t, <2>1, BrakeFrameBurst
    <2>4. CASE bumper'.brake_state = FALSE /\ ~bumper'.flash_lock /\ ~bumper'.has_flashed
      <3>1. Phase(bumper') = "none" /\ Count(bumper') = 0
        BY <2>4, PhaseIs
      <3>2. B!Release
        BY <2>3, <2>4, <3>1 DEF B!Release
      <3> QED BY <3>2 DEF B!Next
    <2>5. CASE /\ bumper'.brake_state = TRUE
               /\ bumper'.has_flashed = bumper.has_flashed
               /\ bumper'.flash_lock = bumper.flash_lock
      <3>1. Phase(bumper') = Phase(bumper) /\ Count(bumper') = Count(bumper)
        BY <2>3, <2>5 DEF Phase, Count
      <3>2. B!Apply
        BY <2>3, <2>5, <3>1 DEF B!Apply
      <3> QED BY <3>2 DEF B!Next
    <2>6. CASE /\ bumper'.brake_state = TRUE
               /\ bumper'.has_flashed = bumper.has_flashed
               /\ ~bumper.flash_lock
               /\ bumper'.flash_lock /\ ~bumper.has_flashed
      <3>1. /\ Phase(bumper) = "none" /\ Phase(bumper') = "on"
            /\ Count(bumper') = 0
        BY <2>2, <2>3, <2>6, PhaseIs
      <3>2. B!Start
        BY <2>3, <2>6, <3>1 DEF B!Start
      <3> QED BY <3>2 DEF B!Next
    <2>7. bumper.flash_lock \in BOOLEAN /\ bumper'.flash_lock \in BOOLEAN
      BY <1>t, <2>1, BrakeFrameType, FieldTypes
    <2> QED BY <2>3, <2>4, <2>5, <2>6, <2>7
  <1>2. CASE RunBrake
    <2>1. bumper' = BrakeRoutine(bumper)
      BY <1>2 DEF RunBrake
    <2>2. bumper' \in BumperType /\ BumperInv(bumper')
      BY <1>t, <2>1, BrakeRoutineOK
    <2>3. CASE ~bumper.flash_lock
      <3>1. /\ bumper'.brake_state = bumper.brake_state
            /\ ~bumper'.flash_lock
            /\ bumper'.has_flashed = bumper.has_flashed
            /\ bumper'.inner_left = bumper.brake_state
        BY <1>t, <2>1, <2>3, BrakeRoutineBurst
      <3>2. /\ Phase(bumper) # "on" /\ Phase(bumper') = Phase(bumper)
            /\ Count(bumper') = Count(bumper)
        BY <2>3, <3>1 DEF Phase, Count
      <3>3. B!Settle
        BY <3>1, <3>2 DEF B!Settle
      <3> QED BY <3>3 DEF B!Next
    <2>4. CASE bumper.flash_lock /\ ~bumper'.flash_lock
      <3>1. /\ bumper'.brake_state = bumper.brake_state
            /\ bumper.num_flashes = 4
            /\ bumper'.has_flashed
            /\ bumper'.inner_left = TRUE
        BY <1>t, <2>1, <2>4, BrakeRoutineBurst
      <3>2. /\ Phase(bumper) = "on" /\ Count(bumper) = 4
            /\ Phase(bumper') = "done" /\ Count(bumper') = 0
        BY <2>4, <3>1, PhaseIs
      <3>3. B!Finish
        BY <3>1, <3>2 DEF B!Finish, B!FLASHES
      <3> QED BY <3>3 DEF B!Next
    <2>5. CASE bumper.flash_lock /\ bumper'.flash_lock
      <3>1. /\ bumper'.brake_state = bumper.brake_state
            /\ Phase(bumper) = "on" /\ Count(bumper) = bumper.num_flashes
            /\ Phase(bumper') = "on" /\ Count(bumper') = bumper'.num_flashes
        BY <1>t, <2>1, <2>5, PhaseIs, BrakeRoutineBurst
      <3>2. \/ /\ bumper'.num_flashes = bumper.num_flashes
               /\ bumper'.inner_left = bumper.inner_left
            \/ /\ bumper.num_flashes < 4
               /\ bumper'.num_flashes = bumper.num_flashes + 1
               /\ bumper'.inner_left = ~bumper.inner_left
        BY <1>t, <2>1, <2>5, BrakeRoutineBurst
      <3>3. B!Flash \/ UNCHANGED B!vars
        BY <3>1, <3>2 DEF B!Flash, B!FLASHES, B!vars
      <3> QED BY <3>3 DEF B!Next
    <2> QED BY <2>3, <2>4, <2>5
  <1>3. CASE RxSignal \/ RunTurnSignal \/ Tick \/ UNCHANGED bumper
    <2>1. /\ bumper'.flash_lock = bumper.flash_lock
          /\ bumper'.has_flashed = bumper.has_flashed
          /\ bumper'.brake_state = bumper.brake_state
          /\ bumper'.num_flashes = bumper.num_flashes
          /\ bumper'.inner_left = bumper.inner_left
      <3>1. CASE RxSignal
        BY <1>t, <3>1 DEF RxSignal, SignalFrame, BumperType
      <3>2. CASE RunTurnSignal
        BY <1>t, <3>2, TurnSignalEffect DEF RunTurnSignal
      <3>3. CASE Tick
        BY <1>t, <3>3, TickEffect DEF Tick
      <3> QED BY <1>3, <3>1, <3>2, <3>3
    <2>2. Phase(bumper') = Phase(bumper) /\ Count(bumper') = Count(bumper)
      BY <2>1 DEF Phase, Count
    <2> QED BY <2>1, <2>2 DEF B!vars
  <1> QED
    BY <1>1, <1>2, <1>3 DEF Next, Main, Receive, RxNothing, Exit, SetDuty, vars

(* ImplementsBurst: the struct, through brake frames, timers, releases in  *)
(* the middle of a burst and the two calls of brake(), is the emergency    *)
(* brake display of Burst.                                                 *)
THEOREM Refinement == Spec => ImplementsBurst
  <1>1. Init => B!Init
    <2> SUFFICES ASSUME Init PROVE B!Init  OBVIOUS
    <2>1. /\ bumper.brake_state = FALSE /\ ~bumper.flash_lock
          /\ ~bumper.has_flashed /\ bumper.inner_left = FALSE
      BY DEF Init, InitBumper
    <2>2. Phase(bumper) = "none" /\ Count(bumper) = 0
      BY <2>1, PhaseIs
    <2> QED BY <2>1, <2>2 DEF B!Init
  <1>2. IInv /\ [Next]_vars => [B!Next]_(B!vars)
    BY StepSimulation
  <1> QED BY <1>1, <1>2, Invariance, PTL DEF Spec, ImplementsBurst, B!Spec
-----------------------------------------------------------------------------
(* What only a frame changes: the brakes and the turn signal it asked for.  *)
LEMMA InputsKept ==
  ASSUME NEW b \in BumperType
  PROVE  /\ TurnSignal(b).brake_state = b.brake_state /\ TurnSignal(b).signal = b.signal
         /\ BrakeRoutine(b).brake_state = b.brake_state /\ BrakeRoutine(b).signal = b.signal
         /\ Ticked(b).brake_state = b.brake_state /\ Ticked(b).signal = b.signal
  <1>1. ASSUME NEW c \in BumperType
        PROVE  /\ Brake(c).brake_state = c.brake_state /\ Brake(c).signal = c.signal
               /\ BrakeFlash(c).brake_state = c.brake_state /\ BrakeFlash(c).signal = c.signal
    <2>1. Brake(c).brake_state = c.brake_state /\ Brake(c).signal = c.signal
      BY DEF Brake, BrakeApplied, BrakeReleased, BumperType
    <2>2. BrakeFlash(c).brake_state = c.brake_state /\ BrakeFlash(c).signal = c.signal
      BY DEF BrakeFlash, BumperType
    <2> QED BY <2>1, <2>2
  <1>2. BrakeRoutine(b).brake_state = b.brake_state /\ BrakeRoutine(b).signal = b.signal
    <2>1. PICK c \in BumperType : /\ c = IF b.flash_lock THEN BrakeFlash(b) ELSE b
                                  /\ c.brake_state = b.brake_state /\ c.signal = b.signal
      BY <1>1, BrakeFlashType
    <2>2. BrakeRoutine(b) = Brake(Brake(c))
      BY <2>1, Zenon DEF BrakeRoutine
    <2> QED BY <1>1, <2>1, <2>2, BrakeType
  <1>3. TurnSignal(b).brake_state = b.brake_state /\ TurnSignal(b).signal = b.signal
    <2>1. /\ Hazards(b).brake_state = b.brake_state /\ Hazards(b).signal = b.signal
          /\ TurnLeft(b).brake_state = b.brake_state /\ TurnLeft(b).signal = b.signal
          /\ TurnRight(b).brake_state = b.brake_state /\ TurnRight(b).signal = b.signal
          /\ NoTurn(b).brake_state = b.brake_state /\ NoTurn(b).signal = b.signal
      BY DEF Hazards, TurnLeft, TurnRight, NoTurn, BumperType
    <2>2. PICK c \in BumperType : c = Signalled(b)
      BY SignalledType
    <2>3. c.brake_state = b.brake_state /\ c.signal = b.signal
      BY <2>1, <2>2, Zenon DEF Signalled
    <2>4. /\ [c EXCEPT !.signal_timer = 0].brake_state = c.brake_state
          /\ [c EXCEPT !.signal_timer = 0].signal = c.signal
      BY DEF BumperType
    <2> QED BY <2>2, <2>3, <2>4, Zenon DEF TurnSignal
  <1>4. Ticked(b).brake_state = b.brake_state /\ Ticked(b).signal = b.signal
    BY DEF Ticked, BumperType
  <1> QED BY <1>2, <1>3, <1>4
=============================================================================
