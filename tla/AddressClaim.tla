---------------------------- MODULE AddressClaim ----------------------------
(***************************************************************************)
(* J1939 address claiming by one ECU: the boot of src/main.c from the      *)
(* address pool on, the claim and request receive routines, the 250 ms     *)
(* timer with its signal handler, and the state machine at the end of the  *)
(* main loop.                                                              *)
(*                                                                         *)
(* The rest of the bus is the environment: any node may claim any address  *)
(* under any NAME, or request any destination, at any time.  Only whether  *)
(* a NAME is smaller than ours matters (the smaller one has priority).     *)
(* SIGALRM may be delivered between any two steps.                         *)
(***************************************************************************)
EXTENDS AddressPool

CONSTANTS
    GLOBAL_ADDR,   \* the 0xFF destination of a broadcast
    NAME,          \* conf.name
    Names          \* the NAMEs a claim frame may carry

ASSUME AddressClaimAssumption ==
    /\ GLOBAL_ADDR \in Nat
    /\ J1939_IDLE_ADDR < GLOBAL_ADDR
    /\ NAME \in Nat \ {0}
    /\ Names \subseteq Nat

VARIABLES
    conf,         \* struct conf_t: address, state, alarm flag, claim message
    avail_addrs,  \* addr_pool: the addresses that hold F_USE
    pc,           \* control point of main: boot, rx, report, exited
    armed,        \* the interval timer is running
    tx,           \* the frame the last step of main wrote, if any
    contested,    \* ghost: dynamic addresses a higher-priority node claimed
    announced     \* ghost: addresses a claim frame of ours has carried

vars == <<conf, avail_addrs, pc, armed, tx, contested, announced>>

-----------------------------------------------------------------------------
STATE_INITIAL     == 1
STATE_OPERATIONAL == 2
STATE_DEFUNCT     == 3

Addresses == 0 .. GLOBAL_ADDR

(* The data of claim_msg is never written: it stays the zeros of a static. *)
ClaimType == [sa : Addresses, eff : BOOLEAN, name : {0}]

ConfType ==
    [current_sa : Dynamic,
     state      : {STATE_INITIAL, STATE_OPERATIONAL, STATE_DEFUNCT},
     sig_alrm   : BOOLEAN,
     claim_msg  : ClaimType]

NoFrame       == [kind |-> "none"]
ClaimFrame(m) == [kind |-> "claim", sa |-> m.sa, name |-> m.name]
StatusFrame(a) == [kind |-> "status", sa |-> a]

Frames ==
    {NoFrame} \cup {ClaimFrame(m) : m \in ClaimType}
              \cup {StatusFrame(a) : a \in Addresses}

TypeOK ==
    /\ conf \in ConfType
    /\ avail_addrs \subseteq Dynamic
    /\ pc \in {"boot", "rx", "report", "exited"}
    /\ armed \in BOOLEAN
    /\ tx \in Frames
    /\ contested \subseteq Dynamic
    /\ announced \subseteq Addresses

(* 0x18EEFF00: source address 0, no CAN_EFF_FLAG. *)
InitialClaim == [sa |-> 0, eff |-> FALSE, name |-> 0]

Init ==
    /\ conf = [current_sa |-> DYNAMIC_MIN, state |-> STATE_INITIAL,
               sig_alrm |-> FALSE, claim_msg |-> InitialClaim]
    /\ avail_addrs = Dynamic \ {DYNAMIC_MIN}
    /\ pc = "boot"
    /\ armed = FALSE
    /\ tx = NoFrame
    /\ contested = {}
    /\ announced = {}

-----------------------------------------------------------------------------
(* write: err(1) ends the program when the frame is not taken.             *)
SendClaim(m) ==
    \/ /\ tx' = ClaimFrame(m)
       /\ announced' = announced \cup {m.sa}
       /\ pc' = "report"
    \/ /\ tx' = NoFrame
       /\ pc' = "exited"
       /\ UNCHANGED announced

SendNothing ==
    /\ tx' = NoFrame
    /\ pc' = "report"
    /\ UNCHANGED announced

(* The first claim, then schedule_timer(250); setitimer may fail as well.  *)
BootWithoutTimer ==   \* mutant
    /\ pc = "boot"
    /\ tx' = ClaimFrame(conf.claim_msg)
    /\ announced' = announced \cup {conf.claim_msg.sa}
    /\ pc' = "rx"
    /\ UNCHANGED <<conf, avail_addrs, armed, contested>>

Boot ==
    /\ pc = "boot"
    /\ \/ /\ tx' = ClaimFrame(conf.claim_msg)
          /\ announced' = announced \cup {conf.claim_msg.sa}
          /\ \/ pc' = "rx" /\ armed' = TRUE
             \/ pc' = "exited" /\ UNCHANGED armed
       \/ /\ tx' = NoFrame
          /\ pc' = "exited"
          /\ UNCHANGED <<announced, armed>>
    /\ conf' = [conf EXCEPT !.sig_alrm = FALSE]
    /\ UNCHANGED <<avail_addrs, contested>>

(* sighandler. *)
Alarm ==
    /\ armed
    /\ pc # "exited"
    /\ conf' = [conf EXCEPT !.sig_alrm = TRUE]
    /\ armed' = FALSE
    /\ UNCHANGED <<avail_addrs, pc, tx, contested, announced>>

-----------------------------------------------------------------------------
(* rx_claim_routine. *)

(* conf after the address a is in use and claim_msg announces it.          *)
Holding(a) ==
    [conf EXCEPT !.current_sa = a,
                 !.state      = IF a = J1939_IDLE_ADDR THEN STATE_DEFUNCT ELSE @,
                 !.claim_msg  = [sa |-> a, eff |-> TRUE, name |-> conf.claim_msg.name]]

(* A node of higher priority claims our address.                           *)
LoseAddressStaleClaim ==   \* mutant
    /\ pc = "rx"
    /\ \E name \in Names : name < NAME
    /\ LET new == ChooseNewSA(conf.current_sa, avail_addrs) IN
       /\ conf' = [conf EXCEPT !.current_sa = new,
                               !.claim_msg = [sa |-> conf.current_sa, eff |-> TRUE,
                                              name |-> conf.claim_msg.name]]
       /\ avail_addrs' = avail_addrs \ {new}
       /\ SendClaim(Holding(new).claim_msg)
    /\ contested' = contested \cup {conf.current_sa}
    /\ UNCHANGED armed

LoseAddressSilently ==   \* mutant
    /\ pc = "rx"
    /\ \E name \in Names : name < NAME
    /\ LET new == ChooseNewSA(conf.current_sa, avail_addrs) IN
       /\ conf' = Holding(new)
       /\ avail_addrs' = avail_addrs \ {new}
       /\ SendNothing
    /\ contested' = contested \cup {conf.current_sa}
    /\ UNCHANGED armed

LoseAddressReturnsIt ==   \* mutant
    /\ pc = "rx"
    /\ \E name \in Names : name < NAME
    /\ LET new == ChooseNewSA(conf.current_sa, avail_addrs) IN
       /\ conf' = Holding(new)
       /\ avail_addrs' = (avail_addrs \ {new}) \cup {conf.current_sa}
       /\ SendClaim(conf'.claim_msg)
    /\ contested' = contested \cup {conf.current_sa}
    /\ UNCHANGED armed

LoseAddress ==
    /\ pc = "rx"
    /\ \E name \in Names : name < NAME
    /\ LET new == ChooseNewSA(conf.current_sa, avail_addrs) IN
       /\ conf' = Holding(new)
       /\ avail_addrs' = avail_addrs \ {new}
       /\ SendClaim(Holding(new).claim_msg)
    /\ contested' = contested \cup {conf.current_sa}
    /\ UNCHANGED armed

(* A node whose priority is not higher claims our address: defend it.      *)
DefendAddress ==
    /\ pc = "rx"
    /\ \E name \in Names : name >= NAME
    /\ conf' = [conf EXCEPT !.claim_msg = Holding(conf.current_sa).claim_msg]
    /\ SendClaim(Holding(conf.current_sa).claim_msg)
    /\ UNCHANGED <<avail_addrs, armed, contested>>

(* Another address is claimed; it leaves our pool if it is dynamic and the *)
(* claimer has higher priority.                                            *)
OtherClaimUnranked ==   \* mutant
    /\ pc = "rx"
    /\ \E sa \in Addresses \ {conf.current_sa}, name \in Names :
           LET taken == {sa} \cap Dynamic IN
           /\ avail_addrs' = avail_addrs \ taken
           /\ contested' = contested \cup (IF name < NAME THEN taken ELSE {})
    /\ SendNothing
    /\ UNCHANGED <<conf, armed>>

OtherClaimUnmarked ==   \* mutant
    /\ pc = "rx"
    /\ \E sa \in Addresses \ {conf.current_sa}, name \in Names :
           LET taken == IF name < NAME THEN {sa} \cap Dynamic ELSE {} IN
           contested' = contested \cup taken
    /\ SendNothing
    /\ UNCHANGED <<conf, avail_addrs, armed>>

OtherClaim ==
    /\ pc = "rx"
    /\ \E sa \in Addresses \ {conf.current_sa}, name \in Names :
           LET taken == IF name < NAME THEN {sa} \cap Dynamic ELSE {} IN
           /\ avail_addrs' = avail_addrs \ taken
           /\ contested' = contested \cup taken
    /\ SendNothing
    /\ UNCHANGED <<conf, armed>>

RxClaim == LoseAddress \/ DefendAddress \/ OtherClaim

(* rx_request_routine: claim_msg goes out as it is.                        *)
RxRequest ==
    /\ pc = "rx"
    /\ \E destination \in Addresses :
           IF destination \in {conf.current_sa, GLOBAL_ADDR}
           THEN SendClaim(conf.claim_msg)
           ELSE SendNothing
    /\ UNCHANGED <<conf, avail_addrs, armed, contested>>

(* No frame, or one for the bumper, or one nobody handles.                 *)
RxOther ==
    /\ pc = "rx"
    /\ SendNothing
    /\ UNCHANGED <<conf, avail_addrs, armed, contested>>

(* read fails, or the loop has done its NR_ITERATIONS iterations.          *)
Exit ==
    /\ pc = "rx"
    /\ pc' = "exited"
    /\ tx' = NoFrame
    /\ UNCHANGED <<conf, avail_addrs, armed, contested, announced>>

-----------------------------------------------------------------------------
(* The end of an iteration.                                                *)
GoOperational ==
    /\ pc = "report"
    /\ conf.state = STATE_INITIAL
    /\ conf.sig_alrm
    /\ conf' = [conf EXCEPT !.state = STATE_OPERATIONAL]
    /\ pc' = "rx"
    /\ tx' = NoFrame
    /\ UNCHANGED <<avail_addrs, armed, contested, announced>>

(* report_timer_diff > 100000.                                             *)
ReportStatus ==
    /\ pc = "report"
    /\ conf.state = STATE_OPERATIONAL
    /\ \/ tx' = StatusFrame(conf.current_sa) /\ pc' = "rx"
       \/ tx' = NoFrame /\ pc' = "exited"
    /\ UNCHANGED <<conf, avail_addrs, armed, contested, announced>>

(* Still waiting for the timer, defunct, or the report is not due.         *)
NoReport ==
    /\ pc = "report"
    /\ ~(conf.state = STATE_INITIAL /\ conf.sig_alrm)
    /\ pc' = "rx"
    /\ tx' = NoFrame
    /\ UNCHANGED <<conf, avail_addrs, armed, contested, announced>>

Receive == RxClaim \/ RxRequest \/ RxOther \/ Exit

Report == GoOperational \/ ReportStatus \/ NoReport

Next == Boot \/ Receive \/ Report \/ Alarm

Spec == Init /\ [][Next]_vars

(* main is one thread that never blocks for long: every control point is   *)
(* left; a timer that is armed expires.                                    *)
Fairness ==
    /\ WF_vars(Boot)
    /\ WF_vars(Receive)
    /\ WF_vars(Report)
    /\ WF_vars(Alarm)

FairSpec == Spec /\ Fairness
-----------------------------------------------------------------------------
(* Safety. *)

(* The pool is exact: an address is available if and only if it is         *)
(* dynamic, not ours, and no node of higher priority has ever claimed it.  *)
(* rx_claim_routine and choose_new_sa clear entries on different paths.    *)
PoolExact == avail_addrs = Dynamic \ (contested \cup {conf.current_sa})

(* We sit on an address that a node of higher priority has claimed only    *)
(* when every other dynamic address is gone (the silent return of          *)
(* choose_new_sa past its last iteration).                                 *)
SquatOnlyWhenExhausted ==
    conf.current_sa \in contested => avail_addrs = {}

(* A request is answered with the address in use: once claim_msg has been  *)
(* refreshed it never lags behind current_sa, although rx_request_routine  *)
(* sends it without looking.                                               *)
ClaimMsgFresh == conf.claim_msg.eff => conf.claim_msg.sa = conf.current_sa

(* Every status frame leaves from an address a claim of ours has announced, *)
(* or from the very first one.                                              *)
StatusFromAnnounced ==
    tx.kind = "status" => tx.sa \in announced \cup {DYNAMIC_MIN}

(* The exhausted pool never leads to STATE_DEFUNCT: current_sa cannot      *)
(* become J1939_IDLE_ADDR (asserted at the end of test_rx_claim_routine).  *)
NeverDefunct ==
    conf.state # STATE_DEFUNCT /\ conf.current_sa # J1939_IDLE_ADDR

MoveToFreeStep ==
    conf'.current_sa # conf.current_sa => conf'.current_sa \notin contested'

(* A new address is never one that we or others have lost to a node of     *)
(* higher priority, so no address is tried twice.                          *)
NeverMovesToContested == [][MoveToFreeStep]_vars

(* Liveness, under FairSpec. *)

(* However often it loses its address meanwhile, a program that goes on    *)
(* running leaves STATE_INITIAL.                                           *)
BecomesOperational ==
    conf.state = STATE_INITIAL
        ~> (conf.state = STATE_OPERATIONAL \/ pc = "exited")

(* The walk through the pool ends: from some time on the address is the    *)
(* same, whatever is claimed on the bus.                                   *)
Settles == \E a \in Dynamic : <>[](conf.current_sa = a)

-----------------------------------------------------------------------------
(* What the documentation says and the code does not do. *)

(* A claim frame names the address that is being claimed, and who claims it. *)
ClaimTellsAddress == tx.kind = "claim" => tx.sa = conf.current_sa
ClaimTellsName    == tx.kind = "claim" => tx.name = NAME

(* Comments of main and rx_claim_routine: "Send out initial address claim", *)
(* "Write out claim for new address", "Address claim NAME (data) describing *)
(* device and priority".                                                    *)
ClaimTellsTheTruth == ClaimTellsAddress /\ ClaimTellsName

(* Comment of rx_claim_routine: if a claim for our address "has a higher   *)
(* priority, we relinquish our address and revert to an initial state with *)
(* a new SA".  So an ECU that moves to another address is in the initial   *)
(* state then, or defunct: not in operation before a timer has run out     *)
(* under the new address.                                                  *)
LossStartsOver ==
    [][conf'.current_sa # conf.current_sa
         => conf'.state \in {STATE_INITIAL, STATE_DEFUNCT}]_vars

-----------------------------------------------------------------------------
(* The inductive invariant: the four safety invariants support each other, *)
(* and an announced address is all that claim_msg can hold.                *)
AnnouncedInv ==
    /\ pc # "exited" /\ conf.current_sa # DYNAMIC_MIN
         => conf.current_sa \in announced
    /\ conf.state # STATE_DEFUNCT

IInv ==
    /\ TypeOK
    /\ PoolExact
    /\ SquatOnlyWhenExhausted
    /\ ClaimMsgFresh
    /\ StatusFromAnnounced
    /\ AnnouncedInv
=============================================================================
