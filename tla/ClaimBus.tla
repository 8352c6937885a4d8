------------------------------- MODULE ClaimBus -------------------------------
(***************************************************************************)
(* Several ECUs that run this program on one CAN bus, with other nodes.    *)
(* Each ECU goes through the claim, request and report steps of            *)
(* AddressClaim; what one of them writes every other one finds in its      *)
(* socket, in the order of the bus, when its loop gets there.  All of them *)
(* have the same NAME, which main sets to a constant, and all their claims *)
(* carry NAME 0.  LOGSELF is 0: nobody receives its own frames.            *)
(*                                                                         *)
(* Status frames have a PGN no receive routine handles; they never reach   *)
(* an inbox of the model.                                                  *)
(***************************************************************************)
EXTENDS AddressPool, Sequences

CONSTANTS
    Ecus,          \* the nodes that run this program
    GLOBAL_ADDR,   \* the 0xFF destination of a broadcast
    NAME,          \* conf.name, the same in all of them
    Names,         \* the NAMEs other nodes claim under
    MAX_FOREIGN    \* bound: frames the other nodes send

ASSUME ClaimBusAssumption ==
    /\ GLOBAL_ADDR \in Nat
    /\ J1939_IDLE_ADDR < GLOBAL_ADDR
    /\ NAME \in Nat \ {0}
    /\ Names \subseteq Nat
    /\ MAX_FOREIGN \in Nat

VARIABLES
    conf, avail_addrs, pc, armed, tx, contested, announced,
                  \* the variables of AddressClaim, for each ECU
    inbox,        \* the frames in the socket of each ECU
    foreign       \* frames other nodes have sent

vars == <<conf, avail_addrs, pc, armed, tx, contested, announced, inbox, foreign>>

(* One ECU, as AddressClaim sees it; before its socket is bound it has not *)
(* booted.                                                                 *)
Ecu(e) == INSTANCE AddressClaim WITH
    Names       <- Names \cup {0},
    conf        <- conf[e],
    avail_addrs <- avail_addrs[e],
    pc          <- IF pc[e] = "off" THEN "boot" ELSE pc[e],
    armed       <- armed[e],
    tx          <- tx[e],
    contested   <- contested[e],
    announced   <- announced[e]

-----------------------------------------------------------------------------
Claim(sa, name)      == [pgn |-> "claim", sa |-> sa, name |-> name]
Request(destination) == [pgn |-> "request", destination |-> destination]

Addresses == 0 .. GLOBAL_ADDR

BusFrames ==
    [pgn : {"claim"}, sa : Addresses, name : Nat]
        \cup [pgn : {"request"}, destination : Addresses]

(* Bound to the bus, hence receiving. *)
Listening == {e \in Ecus : pc[e] \in {"boot", "rx", "report"}}

TypeOK ==
    /\ \A e \in Ecus : pc[e] = "off" \/ Ecu(e)!TypeOK
    /\ inbox \in [Ecus -> Seq(BusFrames)]
    /\ foreign \in 0 .. MAX_FOREIGN

Init ==
    /\ conf = [e \in Ecus |-> [current_sa |-> DYNAMIC_MIN,
                               state      |-> Ecu(e)!STATE_INITIAL,
                               sig_alrm   |-> FALSE,
                               claim_msg  |-> Ecu(e)!InitialClaim]]
    /\ avail_addrs = [e \in Ecus |-> Dynamic \ {DYNAMIC_MIN}]
    /\ pc = [e \in Ecus |-> "off"]
    /\ armed = [e \in Ecus |-> FALSE]
    /\ tx = [e \in Ecus |-> Ecu(e)!NoFrame]
    /\ contested = [e \in Ecus |-> {}]
    /\ announced = [e \in Ecus |-> {}]
    /\ inbox = [e \in Ecus |-> <<>>]
    /\ foreign = 0

-----------------------------------------------------------------------------
(* The inboxes after e has read its next frame, if it does, and the bus    *)
(* has carried one of e's.                                                 *)
Rest(e, o) == IF o = e THEN Tail(inbox[o]) ELSE inbox[o]

Consumed(e) == [o \in Ecus |-> Rest(e, o)]

Carried(e, frame) ==
    [o \in Ecus |-> IF o \in Listening \ {e} THEN Append(Rest(e, o), frame)
                                             ELSE Rest(e, o)]

Next_pc(e, point) == pc' = [pc EXCEPT ![e] = point]

(* write of claim_msg m in answer to the frame just read; err(1) ends the  *)
(* program.                                                                *)
SendClaim(e, m) ==
    \/ /\ tx' = [tx EXCEPT ![e] = Ecu(e)!ClaimFrame(m)]
       /\ announced' = [announced EXCEPT ![e] = @ \cup {m.sa}]
       /\ inbox' = Carried(e, Claim(m.sa, m.name))
       /\ Next_pc(e, "report")
    \/ /\ tx' = [tx EXCEPT ![e] = Ecu(e)!NoFrame]
       /\ inbox' = Consumed(e)
       /\ Next_pc(e, "exited")
       /\ UNCHANGED announced

SendNothing(e) ==
    /\ tx' = [tx EXCEPT ![e] = Ecu(e)!NoFrame]
    /\ inbox' = Consumed(e)
    /\ Next_pc(e, "report")
    /\ UNCHANGED announced

(* init_can binds the socket; frames queue from now on. *)
BindSocket(e) ==
    /\ pc[e] = "off"
    /\ Next_pc(e, "boot")
    /\ UNCHANGED <<conf, avail_addrs, armed, tx, contested, announced,
                   inbox, foreign>>

(* The initial claim, the timer.  The frame has address 0 and reaches      *)
(* nobody's address; it is carried like any other.                         *)
Boot(e) ==
    /\ pc[e] = "boot"
    /\ \/ LET m == conf[e].claim_msg IN
          /\ tx' = [tx EXCEPT ![e] = Ecu(e)!ClaimFrame(m)]
          /\ announced' = [announced EXCEPT ![e] = @ \cup {m.sa}]
          /\ inbox' = [o \in Ecus |-> IF o \in Listening \ {e}
                                      THEN Append(inbox[o], Claim(m.sa, m.name))
                                      ELSE inbox[o]]
          /\ \/ Next_pc(e, "rx") /\ armed' = [armed EXCEPT ![e] = TRUE]
             \/ Next_pc(e, "exited") /\ UNCHANGED armed
       \/ /\ tx' = [tx EXCEPT ![e] = Ecu(e)!NoFrame]
          /\ Next_pc(e, "exited")
          /\ UNCHANGED <<announced, armed, inbox>>
    /\ conf' = [conf EXCEPT ![e].sig_alrm = FALSE]
    /\ UNCHANGED <<avail_addrs, contested, foreign>>

Alarm(e) ==
    /\ armed[e]
    /\ pc[e] # "exited"
    /\ conf' = [conf EXCEPT ![e].sig_alrm = TRUE]
    /\ armed' = [armed EXCEPT ![e] = FALSE]
    /\ UNCHANGED <<avail_addrs, pc, tx, contested, announced, inbox, foreign>>

-----------------------------------------------------------------------------
(* The frame e reads next is of this PGN.                                  *)
Reads(e, pgn) == pc[e] = "rx" /\ inbox[e] # <<>> /\ Head(inbox[e]).pgn = pgn

(* rx_claim_routine. *)
LoseAddressSilently(e) ==   \* mutant
    /\ Reads(e, "claim")
    /\ Head(inbox[e]).sa = conf[e].current_sa
    /\ Head(inbox[e]).name < NAME
    /\ LET new == ChooseNewSA(conf[e].current_sa, avail_addrs[e]) IN
       /\ conf' = [conf EXCEPT ![e] = Ecu(e)!Holding(new)]
       /\ avail_addrs' = [avail_addrs EXCEPT ![e] = @ \ {new}]
       /\ SendNothing(e)
    /\ contested' = [contested EXCEPT ![e] = @ \cup {conf[e].current_sa}]
    /\ UNCHANGED <<armed, foreign>>

LoseAddress(e) ==
    /\ Reads(e, "claim")
    /\ Head(inbox[e]).sa = conf[e].current_sa
    /\ Head(inbox[e]).name < NAME
    /\ LET new == ChooseNewSA(conf[e].current_sa, avail_addrs[e]) IN
       /\ conf' = [conf EXCEPT ![e] = Ecu(e)!Holding(new)]
       /\ avail_addrs' = [avail_addrs EXCEPT ![e] = @ \ {new}]
       /\ SendClaim(e, Ecu(e)!Holding(new).claim_msg)
    /\ contested' = [contested EXCEPT ![e] = @ \cup {conf[e].current_sa}]
    /\ UNCHANGED <<armed, foreign>>

DefendAddress(e) ==
    /\ Reads(e, "claim")
    /\ Head(inbox[e]).sa = conf[e].current_sa
    /\ Head(inbox[e]).name >= NAME
    /\ LET mine == Ecu(e)!Holding(conf[e].current_sa).claim_msg IN
       /\ conf' = [conf EXCEPT ![e].claim_msg = mine]
       /\ SendClaim(e, mine)
    /\ UNCHANGED <<avail_addrs, armed, contested, foreign>>

OtherClaimAnswered(e) ==   \* mutant
    /\ Reads(e, "claim")
    /\ Head(inbox[e]).sa # conf[e].current_sa
    /\ LET taken == IF Head(inbox[e]).name < NAME
                    THEN {Head(inbox[e]).sa} \cap Dynamic ELSE {} IN
       /\ avail_addrs' = [avail_addrs EXCEPT ![e] = @ \ taken]
       /\ contested' = [contested EXCEPT ![e] = @ \cup taken]
    /\ SendClaim(e, conf[e].claim_msg)
    /\ UNCHANGED <<conf, armed, foreign>>

OtherClaim(e) ==
    /\ Reads(e, "claim")
    /\ Head(inbox[e]).sa # conf[e].current_sa
    /\ LET taken == IF Head(inbox[e]).name < NAME
                    THEN {Head(inbox[e]).sa} \cap Dynamic ELSE {} IN
       /\ avail_addrs' = [avail_addrs EXCEPT ![e] = @ \ taken]
       /\ contested' = [contested EXCEPT ![e] = @ \cup taken]
    /\ SendNothing(e)
    /\ UNCHANGED <<conf, armed, foreign>>

(* rx_request_routine. *)
RxRequest(e) ==
    /\ Reads(e, "request")
    /\ IF Head(inbox[e]).destination \in {conf[e].current_sa, GLOBAL_ADDR}
       THEN SendClaim(e, conf[e].claim_msg)
       ELSE SendNothing(e)
    /\ UNCHANGED <<conf, avail_addrs, armed, contested, foreign>>

(* select times out, or the frame is none of the address claim's.          *)
RxOther(e) ==
    /\ pc[e] = "rx"
    /\ tx' = [tx EXCEPT ![e] = Ecu(e)!NoFrame]
    /\ Next_pc(e, "report")
    /\ UNCHANGED <<conf, avail_addrs, armed, contested, announced,
                   inbox, foreign>>

(* A failed read, the end of the loop. *)
Exit(e) ==
    /\ pc[e] = "rx"
    /\ tx' = [tx EXCEPT ![e] = Ecu(e)!NoFrame]
    /\ Next_pc(e, "exited")
    /\ UNCHANGED <<conf, avail_addrs, armed, contested, announced,
                   inbox, foreign>>

-----------------------------------------------------------------------------
(* The end of an iteration.                                                *)
GoOperational(e) ==
    /\ conf[e].state = Ecu(e)!STATE_INITIAL
    /\ conf[e].sig_alrm
    /\ conf' = [conf EXCEPT ![e].state = Ecu(e)!STATE_OPERATIONAL]
    /\ tx' = [tx EXCEPT ![e] = Ecu(e)!NoFrame]
    /\ Next_pc(e, "rx")

ReportStatus(e) ==
    /\ conf[e].state = Ecu(e)!STATE_OPERATIONAL
    /\ \/ /\ tx' = [tx EXCEPT ![e] = Ecu(e)!StatusFrame(conf[e].current_sa)]
          /\ Next_pc(e, "rx")
       \/ tx' = [tx EXCEPT ![e] = Ecu(e)!NoFrame] /\ Next_pc(e, "exited")
    /\ UNCHANGED conf

NoReport(e) ==
    /\ ~(conf[e].state = Ecu(e)!STATE_INITIAL /\ conf[e].sig_alrm)
    /\ tx' = [tx EXCEPT ![e] = Ecu(e)!NoFrame]
    /\ Next_pc(e, "rx")
    /\ UNCHANGED conf

Report(e) ==
    /\ pc[e] = "report"
    /\ GoOperational(e) \/ ReportStatus(e) \/ NoReport(e)
    /\ UNCHANGED <<avail_addrs, armed, contested, announced, inbox, foreign>>

(* Another node claims an address or asks for one. *)
ForeignFrames ==
    {Claim(sa, name) : sa \in Addresses, name \in Names}
        \cup {Request(destination) : destination \in Addresses}

ForeignFrame ==
    /\ foreign < MAX_FOREIGN
    /\ foreign' = foreign + 1
    /\ \E frame \in ForeignFrames :
           inbox' = [o \in Ecus |-> IF o \in Listening THEN Append(inbox[o], frame)
                                                       ELSE inbox[o]]
    /\ UNCHANGED <<conf, avail_addrs, pc, armed, tx, contested, announced>>

RxClaim(e) == LoseAddress(e) \/ DefendAddress(e) \/ OtherClaim(e)

(* select returns at once while there is a frame. *)
RxFrame(e) == RxClaim(e) \/ RxRequest(e)

Receive(e) == RxFrame(e) \/ RxOther(e) \/ Exit(e)

EcuStep(e) == BindSocket(e) \/ Boot(e) \/ Alarm(e) \/ Receive(e) \/ Report(e)

Next == (\E e \in Ecus : EcuStep(e)) \/ ForeignFrame

Spec == Init /\ [][Next]_vars

(* Every ECU that has started keeps taking the frames there are.           *)
Fairness ==
    \A e \in Ecus : WF_vars(Boot(e)) /\ SF_vars(RxFrame(e)) /\ WF_vars(Report(e))

FairSpec == Spec /\ Fairness
-----------------------------------------------------------------------------
(* What holds of several ECUs. *)

(* A frame that claims sa is on its way to e. *)
Warned(e, sa) ==
    \E n \in 1 .. Len(inbox[e]) :
        inbox[e][n].pgn = "claim" /\ inbox[e][n].sa = sa

(* A running ECU that has sent a claim for its address, not the one of     *)
(* boot.                                                                   *)
Claimed(e) == pc[e] \in {"rx", "report"} /\ conf[e].claim_msg.eff

(* Two ECUs may hold the same address after both have claimed it, but this *)
(* does not stay unnoticed: a claim for it is on its way to one of them,   *)
(* however often they have moved, with an exhausted pool as well           *)
(* (rx_claim_routine answers every claim for its address).                 *)
SharedAddressIsNoticed ==
    \A i, j \in Ecus :
        i # j /\ Claimed(i) /\ Claimed(j) /\ conf[i].current_sa = conf[j].current_sa
            => Warned(i, conf[i].current_sa) \/ Warned(j, conf[j].current_sa)

(* An ECU among others of its kind does nothing AddressClaim does not      *)
(* allow: what holds of AddressClaim holds of every ECU on this bus.       *)
EcusClaimAddresses ==
    /\ \A e \in Ecus : Ecu(e)!Init
    /\ [][\A e \in Ecus : Ecu(e)!Next \/ UNCHANGED Ecu(e)!vars]_vars

(* Liveness, under FairSpec.  ECUs that keep claiming each other's         *)
(* addresses come to rest, unless one has used up its pool: from then on   *)
(* two of them may answer each other forever.                              *)
GoesQuiet ==
    \/ <>[](\A e \in Listening : inbox[e] = <<>>)
    \/ <>(\E e \in Ecus : avail_addrs[e] = {})
=============================================================================
