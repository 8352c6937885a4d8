------------------------------ MODULE MainLoop ------------------------------
(***************************************************************************)
(* main of src/main.c as one program: the log, the CAN socket, the rear    *)
(* lights of Bumper and the address claim of AddressClaim, joined by the   *)
(* frame cf that every part of an iteration reads or overwrites, by the    *)
(* dispatch on its PGN, and by the signal handler.                         *)
(*                                                                         *)
(* A read may return fewer bytes than a frame has: the rest of cf is what  *)
(* the last frame, the last status report or, at first, the stack left.    *)
(***************************************************************************)
EXTENDS AddressPool, J1939

CONSTANTS
    FLASH_TIME, SIGNAL_TIME,   \* as in Bumper
    GLOBAL_ADDR,               \* the 0xFF destination of a broadcast
    NAME,                      \* the eight bytes of conf.name, highest first
    NR_ITERATIONS,             \* bound of the main loop
    BusFrames,                 \* frames the bus may carry
    StackFrames,               \* what cf may hold when main starts
    ReadLengths                \* how many bytes read may return

ASSUME MainLoopAssumption ==
    /\ FLASH_TIME \in Nat /\ SIGNAL_TIME \in Nat
    /\ GLOBAL_ADDR = 255
    /\ J1939_IDLE_ADDR < GLOBAL_ADDR
    /\ NAME \in [1 .. 8 -> Bytes]
    /\ NR_ITERATIONS \in Nat
    /\ BusFrames \subseteq Frames
    /\ StackFrames \subseteq Frames
    /\ ReadLengths \subseteq 0 .. FRAME_SIZE

VARIABLES
    bumper, duty,          \* of Bumper
    conf, avail_addrs, armed, tx, contested, announced,
                           \* of AddressClaim
    sig_term,              \* conf.sig_term
    pc,                    \* control point of main
    cf,                    \* the frame buffer of main
    iteration,             \* i of the main loop
    log,                   \* the frames logging_handler has been given
    wfd                    \* the log file: "open" or "closed"

vars == <<bumper, duty, conf, avail_addrs, armed, tx, contested, announced,
          sig_term, pc, cf, iteration, log, wfd>>

lightVars == <<bumper, duty>>
claimVars == <<conf, avail_addrs, armed, contested, announced>>
loopVars  == <<sig_term, iteration, log, wfd>>

(* The bytes the speed may be made of: a frame's, or a status report's.    *)
SpeedBytes ==
    {0, 255} \cup UNION {{f[11], f[12]} : f \in BusFrames \cup StackFrames}

Speeds == {(high * 256) + low : high, low \in SpeedBytes}

(* Where main is for the rear lights, which rest until select has returned. *)
LightsPc(p) ==
    CASE p \in {"turn", "brake", "gpio"} -> p
      [] p \in {"exited", "ended"} -> "exited"
      [] OTHER -> "rx"

Lights == INSTANCE Bumper WITH
    SpeedValues  <- Speeds,
    SignalValues <- 0 .. 15,
    pc           <- LightsPc(pc)

(* Where main is for the address claim; only whether a NAME wins against   *)
(* ours matters to it.                                                     *)
ClaimsPc(p) ==
    CASE p \in {"socket", "boot"} -> "boot"
      [] p \in {"select", "dispatch"} -> "rx"
      [] p \in {"turn", "brake", "gpio", "report"} -> "report"
      [] OTHER -> "exited"

Claims == INSTANCE AddressClaim WITH
    NAME  <- 1,
    Names <- {0, 2},
    pc    <- ClaimsPc(pc)

InLoop == {"select", "dispatch", "turn", "brake", "gpio", "report"}

(* The variables of the components are typed by their own modules.         *)
TypeOK ==
    /\ sig_term \in BOOLEAN
    /\ pc \in {"socket", "boot", "exited", "ended"} \cup InLoop
    /\ cf \in Frames
    /\ iteration \in 0 .. NR_ITERATIONS
    /\ log \in Seq(Frames)
    /\ Len(log) <= iteration + 1
    /\ wfd \in {"open", "closed"}

(* The command line is read and logging_setup has opened the log. *)
Init ==
    /\ pc = "socket"
    /\ Lights!Init
    /\ Claims!Init
    /\ sig_term = FALSE
    /\ cf \in StackFrames
    /\ iteration = 0
    /\ log = <<>>
    /\ wfd = "open"

-----------------------------------------------------------------------------
(* init_can, after any number of failures and 3000 s naps. *)
InitCan ==
    /\ pc = "socket"
    /\ pc' = "boot"
    /\ UNCHANGED <<lightVars, claimVars, loopVars, tx, cf>>

(* SIGTERM or SIGINT before install_signal: the default action.            *)
Killed ==
    /\ pc \in {"socket", "boot"}
    /\ pc' = "exited"
    /\ UNCHANGED <<lightVars, claimVars, loopVars, tx, cf>>

(* install_signal, the initial claim, schedule_timer: each may fail, and   *)
(* err(1) ends the program.                                                *)
Boot ==
    /\ pc = "boot"
    /\ \/ /\ tx' = Claims!ClaimFrame(conf.claim_msg)
          /\ announced' = announced \cup {conf.claim_msg.sa}
          /\ \/ pc' = "select" /\ armed' = TRUE
             \/ pc' = "exited" /\ UNCHANGED armed
       \/ /\ tx' = Claims!NoFrame
          /\ pc' = "exited"
          /\ UNCHANGED <<announced, armed>>
    /\ conf' = [conf EXCEPT !.sig_alrm = FALSE]
    /\ UNCHANGED <<lightVars, avail_addrs, contested, loopVars, cf>>

-----------------------------------------------------------------------------
(* select times out or is interrupted. *)
SelectNothing ==
    /\ pc = "select"
    /\ iteration < NR_ITERATIONS
    /\ tx' = Claims!NoFrame
    /\ pc' = "turn"
    /\ UNCHANGED <<lightVars, claimVars, loopVars, cf>>

(* read puts the first n bytes of frame into cf. *)
Overlaid(frame, n) ==
    [b \in 1 .. FRAME_SIZE |-> IF b <= n THEN frame[b] ELSE cf[b]]

(* A frame is read and logged as it is in cf; then the flags go.           *)
ReadLogsWhatArrived ==   \* mutant
    /\ pc = "select"
    /\ iteration < NR_ITERATIONS
    /\ \E frame \in BusFrames, n \in ReadLengths :
           /\ log' = Append(log, frame)
           /\ cf' = WithoutFlags(Overlaid(frame, n))
    /\ pc' = "dispatch"
    /\ UNCHANGED <<lightVars, claimVars, tx, sig_term, iteration, wfd>>

Read ==
    /\ pc = "select"
    /\ iteration < NR_ITERATIONS
    /\ \E frame \in BusFrames, n \in ReadLengths :
           /\ log' = Append(log, Overlaid(frame, n))
           /\ cf' = WithoutFlags(Overlaid(frame, n))
    /\ pc' = "dispatch"
    /\ UNCHANGED <<lightVars, claimVars, tx, sig_term, iteration, wfd>>

(* main returns 1. *)
ReadFails ==
    /\ pc = "select"
    /\ iteration < NR_ITERATIONS
    /\ tx' = Claims!NoFrame
    /\ pc' = "exited"
    /\ UNCHANGED <<lightVars, claimVars, loopVars, cf>>

-----------------------------------------------------------------------------
(* The dispatch on the PGN. *)
Parsed == parse_J1939(CanId(cf))

Dispatched(pgn) == pc = "dispatch" /\ Parsed.pgn = pgn

(* write of a claim; err(1) ends the program when the frame is not taken.  *)
SendClaim(m) ==
    \/ /\ tx' = Claims!ClaimFrame(m)
       /\ announced' = announced \cup {m.sa}
       /\ pc' = "turn"
    \/ /\ tx' = Claims!NoFrame
       /\ pc' = "exited"
       /\ UNCHANGED announced

SendNothing ==
    /\ tx' = Claims!NoFrame
    /\ pc' = "turn"
    /\ UNCHANGED announced

RxBrake ==
    /\ Dispatched(PGN_CruiseControlVehicleSpeed1)
    /\ bumper' = Lights!BrakeFrame(bumper, Speed(cf), BrakeSwitch(cf))
    /\ SendNothing
    /\ UNCHANGED <<duty, conf, avail_addrs, armed, contested, loopVars, cf>>

RxSignal ==
    /\ Dispatched(PGN_OperatorsExternalLightControls)
    /\ bumper' = Lights!SignalFrame(bumper, Signal(cf))
    /\ SendNothing
    /\ UNCHANGED <<duty, conf, avail_addrs, armed, contested, loopVars, cf>>

(* rx_claim_routine. *)
LoseAddress ==
    /\ Parsed.sa = conf.current_sa
    /\ NameBelow(cf, NAME)
    /\ LET new == ChooseNewSA(conf.current_sa, avail_addrs) IN
       /\ conf' = Claims!Holding(new)
       /\ avail_addrs' = avail_addrs \ {new}
       /\ SendClaim(Claims!Holding(new).claim_msg)
    /\ contested' = contested \cup {conf.current_sa}

DefendAddress ==
    /\ Parsed.sa = conf.current_sa
    /\ ~NameBelow(cf, NAME)
    /\ conf' = [conf EXCEPT !.claim_msg = Claims!Holding(conf.current_sa).claim_msg]
    /\ SendClaim(Claims!Holding(conf.current_sa).claim_msg)
    /\ UNCHANGED <<avail_addrs, contested>>

OtherClaim ==
    /\ Parsed.sa # conf.current_sa
    /\ LET taken == IF NameBelow(cf, NAME) THEN {Parsed.sa} \cap Dynamic ELSE {} IN
       /\ avail_addrs' = avail_addrs \ taken
       /\ contested' = contested \cup taken
    /\ SendNothing
    /\ UNCHANGED conf

RxClaim ==
    /\ Dispatched(J1939_PGN_CLAIM)
    /\ LoseAddress \/ DefendAddress \/ OtherClaim
    /\ UNCHANGED <<lightVars, armed, loopVars, cf>>

RxRequest ==
    /\ Dispatched(J1939_PGN_REQUEST)
    /\ IF Parsed.da \in {conf.current_sa, GLOBAL_ADDR}
       THEN SendClaim(conf.claim_msg)
       ELSE SendNothing
    /\ UNCHANGED <<lightVars, conf, avail_addrs, armed, contested, loopVars, cf>>

RxUnknown ==
    /\ pc = "dispatch"
    /\ Parsed.pgn \notin {PGN_CruiseControlVehicleSpeed1, J1939_PGN_CLAIM,
                          PGN_OperatorsExternalLightControls, J1939_PGN_REQUEST}
    /\ SendNothing
    /\ UNCHANGED <<lightVars, conf, avail_addrs, armed, contested, loopVars, cf>>

-----------------------------------------------------------------------------
RunTurnSignal ==
    /\ pc = "turn"
    /\ bumper' = Lights!TurnSignal(bumper)
    /\ pc' = "brake"
    /\ UNCHANGED <<duty, claimVars, loopVars, tx, cf>>

RunBrake ==
    /\ pc = "brake"
    /\ bumper' = Lights!BrakeRoutine(bumper)
    /\ pc' = "gpio"
    /\ UNCHANGED <<duty, claimVars, loopVars, tx, cf>>

SetDuty ==
    /\ pc = "gpio"
    /\ duty' = [pin \in 1 .. 4 |-> Lights!Duty(Lights!Leds(bumper)[pin])]
    /\ pc' = "report"
    /\ UNCHANGED <<bumper, claimVars, loopVars, tx, cf>>

(* The end of an iteration: the state machine, and the next one begins.    *)
GoOperational ==
    /\ conf.state = Claims!STATE_INITIAL
    /\ conf.sig_alrm
    /\ conf' = [conf EXCEPT !.state = Claims!STATE_OPERATIONAL]
    /\ tx' = Claims!NoFrame
    /\ pc' = "select"
    /\ UNCHANGED cf

NotOperational ==
    /\ conf.state # Claims!STATE_OPERATIONAL
    /\ ~(conf.state = Claims!STATE_INITIAL /\ conf.sig_alrm)
    /\ tx' = Claims!NoFrame
    /\ pc' = "select"
    /\ UNCHANGED <<conf, cf>>

(* The status report: 0x9CFE40 and our address, dlc 8, the four LEDs.      *)
StatusReport ==
    LET led(k) == IF Lights!Leds(bumper)[k] THEN 255 ELSE 0 IN
    <<conf.current_sa, 64, 254, 156, 8, cf[6], cf[7], cf[8],
      0, led(1), 0, led(2), 0, led(3), 0, led(4)>>

(* cf becomes the report whether or not it is due.                         *)
ReportStatusUnaddressed ==   \* mutant
    /\ conf.state = Claims!STATE_OPERATIONAL
    /\ cf' = [StatusReport EXCEPT ![1] = cf[1]]
    /\ \/ tx' = Claims!StatusFrame(cf[1]) /\ pc' = "select"
       \/ tx' = Claims!NoFrame /\ pc' \in {"select", "exited"}
    /\ UNCHANGED conf

ReportStatus ==
    /\ conf.state = Claims!STATE_OPERATIONAL
    /\ cf' = StatusReport
    /\ \/ tx' = Claims!StatusFrame(conf.current_sa) /\ pc' = "select"
       \/ tx' = Claims!NoFrame /\ pc' \in {"select", "exited"}
    /\ UNCHANGED conf

NextIterationForgotten == UNCHANGED iteration   \* mutant

NextIteration == iteration' = iteration + 1

Report ==
    /\ pc = "report"
    /\ GoOperational \/ ReportStatus \/ NotOperational
    /\ NextIteration
    /\ UNCHANGED <<lightVars, avail_addrs, armed, contested, announced,
                   sig_term, log, wfd>>

(* terminate_logging_gracefully and close.  sig_term is not looked at.     *)
FinishOnSignal ==   \* mutant
    /\ pc = "select"
    /\ iteration = NR_ITERATIONS \/ sig_term
    /\ tx' = Claims!NoFrame
    /\ wfd' = "closed"
    /\ pc' = "ended"
    /\ UNCHANGED <<lightVars, claimVars, sig_term, iteration, log, cf>>

Finish ==
    /\ pc = "select"
    /\ iteration = NR_ITERATIONS
    /\ tx' = Claims!NoFrame
    /\ wfd' = "closed"
    /\ pc' = "ended"
    /\ UNCHANGED <<lightVars, claimVars, sig_term, iteration, log, cf>>

-----------------------------------------------------------------------------
(* sighandler, between any two steps, and the clock. *)
Alarm ==
    /\ armed
    /\ pc \in InLoop
    /\ conf' = [conf EXCEPT !.sig_alrm = TRUE]
    /\ armed' = FALSE
    /\ UNCHANGED <<lightVars, avail_addrs, contested, announced,
                   loopVars, tx, pc, cf>>

Terminate ==
    /\ pc \in InLoop
    /\ sig_term' = TRUE
    /\ UNCHANGED <<lightVars, claimVars, tx, pc, cf, iteration, log, wfd>>

Tick ==
    /\ pc \in InLoop
    /\ bumper.flash_timer <= FLASH_TIME \/ bumper.signal_timer <= SIGNAL_TIME
    /\ bumper' = Lights!Ticked(bumper)
    /\ UNCHANGED <<duty, claimVars, loopVars, tx, pc, cf>>

Setup    == InitCan \/ Killed \/ Boot
Dispatch == RxBrake \/ RxSignal \/ RxClaim \/ RxRequest \/ RxUnknown
Receive  == SelectNothing \/ Read \/ ReadFails \/ Finish
Main     == Boot \/ Receive \/ Dispatch \/ RunTurnSignal \/ RunBrake \/ SetDuty \/ Report

Next == Setup \/ Main \/ Alarm \/ Terminate \/ Tick

Spec == Init /\ [][Next]_vars

(* One thread that is never blocked for longer than the select timeout;    *)
(* whether the socket can ever be bound is not the program's to say.       *)
FairSpec == Spec /\ WF_vars(Main)
-----------------------------------------------------------------------------
(* An independent reading of a log, byte by byte: page bits zero, PDU      *)
(* format pf and group extension ps.                                       *)
OfGroup(frame, pf, ps) == frame[4] % 4 = 0 /\ frame[3] = pf /\ frame[2] = ps

(* A claim that wins against ours, whatever its destination. *)
WinningClaim(frame) ==
    frame[4] % 4 = 0 /\ frame[3] = 238 /\ NameBelow(frame, NAME)

InGroup(l, pf, ps) == {n \in 1 .. Len(l) : OfGroup(l[n], pf, ps)}

Last(set) == CHOOSE n \in set : \A m \in set : m <= n

BrakesLogged(l) ==
    LET brakes == InGroup(l, 254, 241) IN
    brakes # {} /\ l[Last(brakes)][13] % 16 >= 4

SignalLogged(l) ==
    LET lights == InGroup(l, 253, 204) IN
    IF lights = {} THEN 0 ELSE l[Last(lights)][10] \div 16

LostLogged(l) == {l[n][1] : n \in {k \in 1 .. Len(l) : WinningClaim(l[k])}}

AccountedFor(l) ==
    /\ bumper.brake_state = BrakesLogged(l)
    /\ bumper.signal = SignalLogged(l)
    /\ avail_addrs = Dynamic \ (LostLogged(l) \cup {conf.current_sa})

(* The log accounts for what the program does: whenever no frame is in the *)
(* middle of its iteration, the brakes, the turn signal and the address    *)
(* pool are what the logged frames say, also after reads that were too     *)
(* short, reports that overwrote cf, and identifiers with flags or pages   *)
(* no receive routine handles.                                             *)
ActsFollowLog == pc # "dispatch" => AccountedFor(log)

(* The program joins the two components without disturbing either: each    *)
(* of its behaviours is one of Bumper's Spec and one of AddressClaim's, so *)
(* that every invariant and every action property of theirs holds of main. *)
(* Nothing is said of their fairness: here the loop is bounded.            *)
RunsComponents == Lights!Spec /\ Claims!Spec

(* Liveness, under FairSpec.  Once the socket is bound the program runs    *)
(* through all its iterations and ends by closing the log, unless a call   *)
(* fails or a signal kills it before the handlers are installed.  Signals  *)
(* that come later neither stop it nor make it end early: sig_term, which  *)
(* sighandler sets "to gracefully close program", is not looked at.        *)
EndsClosed ==
    \/ <>[](pc = "socket")
    \/ <>(pc = "exited")
    \/ <>(pc = "ended" /\ iteration = NR_ITERATIONS /\ wfd = "closed")
=============================================================================
