------------------------------- MODULE Bumper -------------------------------
(***************************************************************************)
(* The rear light controller: src/bumper.c, the two receive routines of    *)
(* src/main.c that feed it, and the part of the main loop that runs it and *)
(* copies its LEDs to the PWM pins.                                        *)
(*                                                                         *)
(* One iteration of the main loop goes through four control points:        *)
(* "rx" (select, read and the receive routine), "turn"                     *)
(* (turn_signal_routine), "brake" (brake_routine) and "gpio" (set_duty on  *)
(* the four pins).  The clock may advance at every one of them.            *)
(***************************************************************************)
EXTENDS Integers

CONSTANTS
    FLASH_TIME,    \* inc/bumper.h, in clock units of the model
    SIGNAL_TIME,   \* inc/bumper.h, in the same units
    SpeedValues,   \* the 16-bit speeds a CruiseControlVehicleSpeed1 may carry
    SignalValues   \* the 4-bit turn signal states an external lights frame may carry

UINT16_MAX == 65535

ASSUME BumperAssumption ==
    /\ FLASH_TIME \in Nat
    /\ SIGNAL_TIME \in Nat
    /\ SpeedValues \subseteq 0 .. UINT16_MAX
    /\ SignalValues \subseteq 0 .. 15

VARIABLES
    bumper,   \* struct Bumper
    pc,       \* control point of the main loop: rx, turn, brake, gpio, exited
    duty      \* duty cycle last written to pin 1 .. 4

vars == <<bumper, pc, duty>>

-----------------------------------------------------------------------------
(* Turn signal states of the comment above turn_signal_routine. *)
LEFT          == 1
RIGHT         == 2
HAZARD        == 14
NOT_AVAILABLE == 15

(* Flags of struct Bumper are BOOLEAN.  A timer holds the clock units since *)
(* it was last reset, saturated one unit past the limit it is compared      *)
(* with: the code only ever asks whether the difference exceeds the limit.  *)
BumperType ==
    [outer_left : BOOLEAN, inner_left : BOOLEAN,
     inner_right : BOOLEAN, outer_right : BOOLEAN,
     has_flashed : BOOLEAN, brake_state : BOOLEAN, flash_lock : BOOLEAN,
     num_flashes : 0 .. 4,
     left_lock : BOOLEAN, right_lock : BOOLEAN, signal : 0 .. 15,
     flash_timer : 0 .. FLASH_TIME + 1, signal_timer : 0 .. SIGNAL_TIME + 1]

InitBumper ==
    [outer_left |-> FALSE, inner_left |-> FALSE,
     inner_right |-> FALSE, outer_right |-> FALSE,
     has_flashed |-> FALSE, brake_state |-> FALSE, flash_lock |-> FALSE,
     num_flashes |-> 0,
     left_lock |-> FALSE, right_lock |-> FALSE, signal |-> 0,
     flash_timer |-> 0, signal_timer |-> 0]

-----------------------------------------------------------------------------
(* brake: the brake lights, wherever no flash burst or turn signal has the *)
(* lamp locked.                                                            *)
BrakeAppliedIgnoresBurst(b) ==   \* mutant
    [b EXCEPT !.inner_left = TRUE, !.inner_right = TRUE,
              !.outer_left = @ \/ ~b.left_lock, !.outer_right = @ \/ ~b.right_lock]

BrakeAppliedClearsCount(b) ==   \* mutant
    [b EXCEPT !.inner_left  = @ \/ ~b.flash_lock, !.inner_right = @ \/ ~b.flash_lock,
              !.outer_left  = @ \/ ~b.left_lock, !.outer_right = @ \/ ~b.right_lock,
              !.num_flashes = 0]

BrakeApplied(b) ==
    [b EXCEPT !.inner_left  = @ \/ ~b.flash_lock,
              !.inner_right = @ \/ ~b.flash_lock,
              !.outer_left  = @ \/ ~b.left_lock,
              !.outer_right = @ \/ ~b.right_lock]

BrakeReleasedKeepsOuter(b) ==   \* mutant
    [b EXCEPT !.inner_left = FALSE, !.inner_right = FALSE, !.num_flashes = 0]

BrakeReleasedKeepsCount(b) ==   \* mutant
    [b EXCEPT !.inner_left  = FALSE, !.inner_right = FALSE,
              !.outer_left  = @ /\ b.left_lock, !.outer_right = @ /\ b.right_lock]

BrakeReleased(b) ==
    [b EXCEPT !.inner_left  = FALSE,
              !.inner_right = FALSE,
              !.outer_left  = @ /\ b.left_lock,
              !.outer_right = @ /\ b.right_lock,
              !.num_flashes = 0]

Brake(b) == IF b.brake_state THEN BrakeApplied(b) ELSE BrakeReleased(b)

(* brake_flash: one toggle of the inner lamps per FLASH_TIME; the fifth one *)
(* ends the burst.                                                          *)
LastFlashOffByOne(b) == b.num_flashes + 1 > 5   \* mutant

LastFlash(b) == b.num_flashes + 1 > 4

BrakeFlashRestartsTimer(b) ==   \* mutant
    IF b.flash_timer <= FLASH_TIME
    THEN [b EXCEPT !.flash_timer = 0]
    ELSE [b EXCEPT !.flash_timer = 0,
                   !.inner_left  = ~b.inner_left,
                   !.inner_right = ~b.inner_left,
                   !.num_flashes = IF LastFlash(b) THEN 0 ELSE @ + 1,
                   !.flash_lock  = @ /\ ~LastFlash(b),
                   !.has_flashed = @ \/ LastFlash(b)]

BrakeFlash(b) ==
    IF b.flash_timer <= FLASH_TIME
    THEN b
    ELSE [b EXCEPT !.flash_timer = 0,
                   !.inner_left  = ~b.inner_left,
                   !.inner_right = ~b.inner_left,
                   !.num_flashes = IF LastFlash(b) THEN 0 ELSE @ + 1,
                   !.flash_lock  = @ /\ ~LastFlash(b),
                   !.has_flashed = @ \/ LastFlash(b)]

(* turn_signal_routine: the lamp a turn signal owns is locked against the  *)
(* brakes and toggled once per SIGNAL_TIME.                                *)
HazardsUnsynchronised(b) ==   \* mutant
    [b EXCEPT !.left_lock = TRUE, !.right_lock = TRUE,
              !.outer_left = ~@, !.outer_right = ~@]

Hazards(b) ==
    [b EXCEPT !.left_lock = TRUE, !.right_lock = TRUE,
              !.outer_left = ~b.outer_left, !.outer_right = ~b.outer_left]

TurnLeftSteady(b) ==   \* mutant
    [b EXCEPT !.left_lock = TRUE, !.right_lock = FALSE, !.outer_left = TRUE]

TurnLeft(b) ==
    [b EXCEPT !.left_lock = TRUE, !.right_lock = FALSE, !.outer_left = ~@]

TurnRight(b) ==
    [b EXCEPT !.right_lock = TRUE, !.left_lock = FALSE, !.outer_right = ~@]

NoTurnKeepsLeft(b) == [b EXCEPT !.right_lock = FALSE]   \* mutant

NoTurn(b) == [b EXCEPT !.left_lock = FALSE, !.right_lock = FALSE]

SignalledDropsNotAvailable(b) ==   \* mutant
    CASE b.signal = HAZARD -> Hazards(b)
      [] b.signal = LEFT   -> TurnLeft(b)
      [] b.signal = RIGHT  -> TurnRight(b)
      [] OTHER             -> NoTurn(b)

Signalled(b) ==
    CASE b.signal = HAZARD        -> Hazards(b)
      [] b.signal = LEFT          -> TurnLeft(b)
      [] b.signal = RIGHT         -> TurnRight(b)
      [] b.signal = NOT_AVAILABLE -> b
      [] OTHER                    -> NoTurn(b)

TurnSignal(b) ==
    IF b.signal_timer <= SIGNAL_TIME
    THEN b
    ELSE [Signalled(b) EXCEPT !.signal_timer = 0]

(* brake_routine: at most one flash toggle, then brake, called twice. *)
BrakeRoutine(b) == Brake(Brake(IF b.flash_lock THEN BrakeFlash(b) ELSE b))

(* rx_brake_routine: a nonzero two-bit switch is "brakes on", the error and *)
(* not-available codes included; a burst starts when the vehicle moves and  *)
(* has not flashed since the brakes were last off.                          *)
BrakeFrameFlashesAgain(b, speed_value, brake_switch) ==   \* mutant
    IF brake_switch # 0
    THEN [b EXCEPT !.brake_state = TRUE, !.flash_lock = @ \/ speed_value > 0]
    ELSE [b EXCEPT !.brake_state = FALSE, !.flash_lock = FALSE, !.has_flashed = FALSE]

BrakeFrame(b, speed_value, brake_switch) ==
    IF brake_switch # 0
    THEN [b EXCEPT !.brake_state = TRUE,
                   !.flash_lock  = @ \/ (speed_value > 0 /\ ~b.has_flashed)]
    ELSE [b EXCEPT !.brake_state = FALSE,
                   !.flash_lock  = FALSE,
                   !.has_flashed = FALSE]

SignalFrame(b, signal) == [b EXCEPT !.signal = signal]

-----------------------------------------------------------------------------
PWM_LOW  == 10
PWM_HIGH == 100

Duty(led) == IF led THEN PWM_HIGH ELSE PWM_LOW

Leds(b) == <<b.outer_left, b.inner_left, b.inner_right, b.outer_right>>

TypeOK ==
    /\ bumper \in BumperType
    /\ pc \in {"rx", "turn", "brake", "gpio", "exited"}
    /\ duty \in [1 .. 4 -> {PWM_LOW, PWM_HIGH}]

Init ==
    /\ bumper = InitBumper
    /\ pc = "rx"
    /\ duty = [pin \in 1 .. 4 |-> PWM_LOW]

RxBrake ==
    /\ pc = "rx"
    /\ \E speed_value \in SpeedValues, brake_switch \in 0 .. 3 :
           bumper' = BrakeFrame(bumper, speed_value, brake_switch)
    /\ pc' = "turn"
    /\ UNCHANGED duty

RxSignal ==
    /\ pc = "rx"
    /\ \E signal \in SignalValues : bumper' = SignalFrame(bumper, signal)
    /\ pc' = "turn"
    /\ UNCHANGED duty

(* select timed out or was interrupted, or the frame is not for the bumper. *)
RxNothing ==
    /\ pc = "rx"
    /\ pc' = "turn"
    /\ UNCHANGED <<bumper, duty>>

(* The loop has done its NR_ITERATIONS iterations, read fails, or a frame   *)
(* cannot be written: which of them, and when, is not the lights' business. *)
Exit ==
    /\ pc = "rx"
    /\ pc' = "exited"
    /\ UNCHANGED <<bumper, duty>>

RunTurnSignal ==
    /\ pc = "turn"
    /\ bumper' = TurnSignal(bumper)
    /\ pc' = "brake"
    /\ UNCHANGED duty

RunBrake ==
    /\ pc = "brake"
    /\ bumper' = BrakeRoutine(bumper)
    /\ pc' = "gpio"
    /\ UNCHANGED duty

SetDuty ==
    /\ pc = "gpio"
    /\ duty' = [pin \in 1 .. 4 |-> Duty(Leds(bumper)[pin])]
    /\ pc' = "rx"
    /\ UNCHANGED bumper

Ticked(b) ==
    [b EXCEPT !.flash_timer  = IF @ <= FLASH_TIME THEN @ + 1 ELSE @,
              !.signal_timer = IF @ <= SIGNAL_TIME THEN @ + 1 ELSE @]

(* clock() moves on; it counts processor time, which every iteration uses. *)
Tick ==
    /\ pc # "exited"
    /\ \/ bumper.flash_timer <= FLASH_TIME
       \/ bumper.signal_timer <= SIGNAL_TIME
    /\ bumper' = Ticked(bumper)
    /\ UNCHANGED <<pc, duty>>

Receive == RxBrake \/ RxSignal \/ RxNothing \/ Exit

Main == Receive \/ RunTurnSignal \/ RunBrake \/ SetDuty

Next == Main \/ Tick

Spec == Init /\ [][Next]_vars

(* One thread that never blocks for longer than the select timeout: it goes *)
(* on until it exits, which it may do at the head of any iteration, and     *)
(* while it goes on processor time passes.                                  *)
Fairness ==
    /\ WF_vars(Main)
    /\ WF_vars(Tick)

FairSpec == Spec /\ Fairness
-----------------------------------------------------------------------------
(* Safety. *)

(* At the end of every iteration the lamps tell the truth about the brakes: *)
(* each pin whose LED no burst and no turn signal owns is driven high       *)
(* exactly when the brakes are applied (brake after turn_signal_routine and *)
(* brake_flash, then set_duty).                                             *)
LampsShowBrakes ==
    pc = "rx" =>
        /\ ~bumper.flash_lock => /\ duty[2] = Duty(bumper.brake_state)
                                 /\ duty[3] = Duty(bumper.brake_state)
        /\ ~bumper.left_lock  => duty[1] = Duty(bumper.brake_state)
        /\ ~bumper.right_lock => duty[4] = Duty(bumper.brake_state)

(* While the hazard lights own both outer lamps the two blink in step,     *)
(* whatever turn signal, brake state or burst came before ("Sync turn      *)
(* signals" in turn_signal_routine), and the two inner lamps always do.    *)
LampsInStep ==
    pc = "rx" =>
        /\ bumper.left_lock /\ bumper.right_lock => duty[1] = duty[4]
        /\ duty[2] = duty[3]

(* A burst is only ever in progress while the brakes are applied and the   *)
(* burst of this application is not over: rx_brake_routine and brake_flash *)
(* write these three flags in different iterations.                        *)
BurstOnlyWhileBraking ==
    bumper.flash_lock => bumper.brake_state /\ ~bumper.has_flashed

(* Every burst counts its flashes from zero, however the last one ended.   *)
FreshStep ==
    ~bumper.flash_lock /\ bumper'.flash_lock => bumper.num_flashes = 0

(* rx_brake_routine starts a burst without touching the counter: brake and *)
(* brake_flash must have cleared it, in an earlier iteration.              *)
BurstStartsFresh == [][FreshStep]_vars

(* One burst for one application of the brakes: once it has run, no speed  *)
(* or brake frame starts another until the brakes are released.            *)
SingleBurstStep ==
    bumper.has_flashed /\ bumper'.brake_state
        => bumper'.has_flashed /\ ~bumper'.flash_lock

(* has_flashed, set by brake_flash, stops rx_brake_routine from starting a *)
(* second burst however the speed changes.                                 *)
OneBurstPerApplication == [][SingleBurstStep]_vars

(* During a burst an inner lamp changes exactly when a flash is counted:   *)
(* the two calls of brake() in brake_routine never add or hide a flash.    *)
FlashSeenStep ==
    bumper.flash_lock /\ bumper'.flash_lock
        => (bumper'.inner_left # bumper.inner_left)
             = (bumper'.num_flashes # bumper.num_flashes)

(* Neither brake(), nor a frame, nor the turn signal disturbs a burst that *)
(* goes on.                                                                *)
EveryFlashIsSeen == [][FlashSeenStep]_vars

(* "Not available (do not change)": while the signal stays 1111b the lamp  *)
(* a turn signal owns stays owned and frozen.                              *)
FrozenStep ==
    bumper.signal = NOT_AVAILABLE /\ bumper'.signal = NOT_AVAILABLE
        => /\ bumper.left_lock  => /\ bumper'.left_lock
                                   /\ bumper'.outer_left = bumper.outer_left
           /\ bumper.right_lock => /\ bumper'.right_lock
                                   /\ bumper'.outer_right = bumper.outer_right

(* It stays frozen when braking starts, a burst runs or the timer expires. *)
NotAvailableFreezes == [][FrozenStep]_vars

(* What the comment on the guard of rx_brake_routine says: a burst starts  *)
(* when "brakes were off last".                                            *)
BurstStartsFromBrakesOff ==
    [][~bumper.flash_lock /\ bumper'.flash_lock => ~bumper.brake_state]_vars

(* The abstract display that the struct implements: the flags tell how far *)
(* the burst of this application is, the counter matters while it is on.   *)
Phase(b) ==
    CASE b.flash_lock -> "on"
      [] ~b.flash_lock /\ b.has_flashed -> "done"
      [] OTHER -> "none"

Count(b) == IF b.flash_lock THEN b.num_flashes ELSE 0

B == INSTANCE Burst WITH
        braking <- bumper.brake_state,
        burst   <- Phase(bumper),
        flashes <- Count(bumper),
        lit     <- bumper.inner_left

(* Frames, brake_flash and the two calls of brake() keep the promise of     *)
(* Burst between them: one burst for one application of the brakes, counted *)
(* from zero whatever a burst cut short left behind, no flash added or      *)
(* hidden, and the lamps lit when it is over.                               *)
ImplementsBurst == B!Spec

(* Liveness, under FairSpec.  The loop is bounded, by a number that Bumper *)
(* does not know, and may end earlier: every property says that there is   *)
(* no way to go on iterating for ever without what it promises.            *)

(* Every burst ends, by its fifth flash or by a release of the brakes, or  *)
(* the program ends before.                                                *)
BurstEnds == bumper.flash_lock ~> (~bumper.flash_lock \/ pc = "exited")

(* Applied brakes light the inner lamps, even when a burst starts dark,    *)
(* unless they are released or the program ends before.                    *)
BrakesShow ==
    bumper.brake_state
        ~> (duty[2] = PWM_HIGH \/ ~bumper.brake_state \/ pc = "exited")

(* A left turn signal that stays on goes on blinking until the program     *)
(* ends, whatever the brakes do.                                           *)
LeftBlinks ==
    <>[](bumper.signal = LEFT)
        => \/ []<>(duty[1] = PWM_HIGH) /\ []<>(duty[1] = PWM_LOW)
           \/ <>(pc = "exited")

(* Once the signal is off for good the brakes own the outer lamps again,   *)
(* unless the program ends before.                                         *)
TurnSignalReleases ==
    <>[](bumper.signal = 0)
        => \/ <>[](~bumper.left_lock /\ ~bumper.right_lock)
           \/ <>(pc = "exited")

-----------------------------------------------------------------------------
(* The inductive invariant: what holds of the struct at every control      *)
(* point, what brake_routine establishes, and what set_duty has copied.    *)
BumperInv(b) ==
    /\ b.inner_left = b.inner_right
    /\ b.flash_lock => b.brake_state /\ ~b.has_flashed
    /\ b.has_flashed => b.brake_state
    /\ b.brake_state /\ ~b.flash_lock => b.num_flashes = 0
    /\ b.left_lock /\ b.right_lock => b.outer_left = b.outer_right

(* True from brake_routine until the next frame is handled. *)
Settled(b) ==
    /\ ~b.flash_lock => b.inner_left = b.brake_state /\ b.num_flashes = 0
    /\ ~b.left_lock  => b.outer_left = b.brake_state
    /\ ~b.right_lock => b.outer_right = b.brake_state

IInv ==
    /\ TypeOK
    /\ BumperInv(bumper)
    /\ pc \in {"gpio", "rx"} => Settled(bumper)
    /\ pc = "rx" => \A pin \in 1 .. 4 : duty[pin] = Duty(Leds(bumper)[pin])
=============================================================================
