------------------------- MODULE AddressClaimProofs -------------------------
(***************************************************************************)
(* Proofs about AddressClaim, for every dynamic range, NAME and set of     *)
(* NAMEs on the bus: the inductive invariant and the safety properties     *)
(* that the runs of MCAddressClaim check.                                  *)
(***************************************************************************)
EXTENDS AddressClaim, TLAPS

(* The call of choose_new_sa that a lost address leads to. *)
Search == INSTANCE ChooseNewSaProofs WITH
    current_index <- conf.current_sa,
    iterations    <- 0,
    current_sa    <- conf.current_sa,
    returned      <- FALSE,
    start         <- conf.current_sa,
    pool          <- avail_addrs

LEMMA SearchAssumption == Search!AddressPoolAssumption
  BY AddressPoolAssumption DEF AddressPoolAssumption, Search!AddressPoolAssumption

(* The dynamic addresses are addresses, and none of them is the idle one.  *)
LEMMA DynamicAddresses ==
  /\ Dynamic \subseteq Addresses
  /\ 0 \in Addresses
  /\ DYNAMIC_MIN \in Dynamic
  /\ J1939_IDLE_ADDR \notin Dynamic
  BY AddressPoolAssumption, AddressClaimAssumption DEF Dynamic, Addresses

(* What choose_new_sa makes of a current address and a pool. *)
LEMMA NewAddress ==
  ASSUME NEW a \in Dynamic, NEW avail, avail \subseteq Dynamic
  PROVE  /\ ChooseNewSA(a, avail) \in Dynamic
         /\ avail = {} => ChooseNewSA(a, avail) = a
         /\ avail # {} => ChooseNewSA(a, avail) \in avail
  <1>1. Dynamic \subseteq Slots
    BY AddressPoolAssumption DEF AddressPoolAssumption, Dynamic, Slots
  <1>2. a \in Search!Slots /\ avail \subseteq Search!Slots
    BY <1>1 DEF Slots, Search!Slots
  <1>3. Search!ChooseNewSA(a, avail) = ChooseNewSA(a, avail)
    BY Zenon DEF ChooseNewSA, FirstAvailable, Distance,
                 Search!ChooseNewSA, Search!FirstAvailable, Search!Distance
  <1> QED BY <1>2, <1>3, SearchAssumption, Search!ChooseNewSAResult

LEMMA HoldingOK ==
  ASSUME conf \in ConfType, NEW a \in Dynamic
  PROVE  /\ Holding(a) \in ConfType
         /\ Holding(a).claim_msg \in ClaimType
         /\ Holding(a).claim_msg.sa = a
         /\ Holding(a).current_sa = a
         /\ Holding(a).state = conf.state
         /\ Holding(a).sig_alrm = conf.sig_alrm
  <1> DEFINE m == [sa |-> a, eff |-> TRUE, name |-> conf.claim_msg.name]
             c == [conf EXCEPT !.current_sa = a, !.state = conf.state,
                               !.claim_msg = m]
  <1>1. m \in ClaimType
    <2>1. conf.claim_msg.name \in {0}
      BY Zenon DEF ConfType, ClaimType
    <2> QED BY <2>1, DynamicAddresses, ZenonT(60) DEF ClaimType
  <1>2. Holding(a) = c
    BY DynamicAddresses, Zenon DEF Holding
  <1>3. m.sa = a
    OBVIOUS
  <1> HIDE DEF m
  <1>4. c \in ConfType
    BY <1>1, ZenonT(60) DEF ConfType
  <1>5. /\ c.claim_msg = m /\ c.current_sa = a /\ c.state = conf.state
        /\ c.sig_alrm = conf.sig_alrm
    BY DEF ConfType
  <1> QED BY <1>1, <1>2, <1>3, <1>4, <1>5

(* Sending a claim, or nothing, writes no status frame and forgets no      *)
(* announced address; a claim that goes out announces its address.         *)
LEMMA SendClaimOK ==
  ASSUME NEW m \in ClaimType, announced \subseteq Addresses, SendClaim(m)
  PROVE  /\ tx' \in Frames
         /\ tx'.kind # "status"
         /\ pc' \in {"report", "exited"}
         /\ announced' \subseteq Addresses
         /\ announced \subseteq announced'
         /\ pc' # "exited" => m.sa \in announced'
  <1>1. m.sa \in Addresses
    BY DEF ClaimType
  <1>2. ClaimFrame(m) \in Frames /\ NoFrame \in Frames
    BY DEF Frames
  <1>3. ClaimFrame(m).kind = "claim" /\ NoFrame.kind = "none"
    BY DEF ClaimFrame, NoFrame
  <1> QED BY <1>1, <1>2, <1>3 DEF SendClaim

LEMMA NoFrameOK == NoFrame \in Frames /\ NoFrame.kind = "none"
  BY DEF Frames, NoFrame

LEMMA FreshOK ==
  ASSUME conf \in ConfType
  PROVE  /\ [conf EXCEPT !.sig_alrm = FALSE] \in ConfType
         /\ [conf EXCEPT !.sig_alrm = TRUE] \in ConfType
         /\ [conf EXCEPT !.state = STATE_OPERATIONAL] \in ConfType
  BY ZenonT(60) DEF ConfType

LEMMA DefendOK ==
  ASSUME conf \in ConfType, NEW m \in ClaimType
  PROVE  LET c == [conf EXCEPT !.claim_msg = m] IN
         /\ c \in ConfType
         /\ c.claim_msg = m
         /\ c.current_sa = conf.current_sa
         /\ c.state = conf.state
  <1>1. [conf EXCEPT !.claim_msg = m] \in ConfType
    BY ZenonT(60) DEF ConfType
  <1> QED BY <1>1 DEF ConfType

-----------------------------------------------------------------------------
(* The inductive invariant.  PoolExact is what makes it work: it tells the *)
(* loss of an address that the one chosen next is contested by nobody.     *)

LEMMA InitOK == Init => IInv
  <1> SUFFICES ASSUME Init PROVE IInv  OBVIOUS
  <1> DEFINE m == [sa |-> 0, eff |-> FALSE, name |-> 0]
             c == [current_sa |-> DYNAMIC_MIN, state |-> STATE_INITIAL,
                   sig_alrm |-> FALSE, claim_msg |-> m]
  <1>1. conf = c
    BY Zenon DEF Init, InitialClaim
  <1>2. m \in ClaimType
    BY DynamicAddresses, ZenonT(60) DEF ClaimType
  <1>3. c \in ConfType
    BY <1>2, DynamicAddresses, ZenonT(60) DEF ConfType
  <1>4. /\ conf.current_sa = DYNAMIC_MIN
        /\ conf.state = STATE_INITIAL
        /\ conf.claim_msg.eff = FALSE
    BY <1>1
  <1>5. TypeOK
    BY <1>1, <1>3, NoFrameOK, ZenonT(60) DEF Init, TypeOK
  <1>6. PoolExact
    BY <1>4 DEF Init, PoolExact
  <1>7. SquatOnlyWhenExhausted /\ ClaimMsgFresh
    BY <1>4, Zenon DEF Init, SquatOnlyWhenExhausted, ClaimMsgFresh
  <1>8. StatusFromAnnounced
    BY NoFrameOK DEF Init, StatusFromAnnounced
  <1>9. AnnouncedInv
    BY <1>4 DEF Init, AnnouncedInv, STATE_INITIAL, STATE_DEFUNCT
  <1> QED BY <1>5, <1>6, <1>7, <1>8, <1>9 DEF IInv

LEMMA StepOK == IInv /\ [Next]_vars => IInv'
  <1> SUFFICES ASSUME IInv, [Next]_vars PROVE IInv'  OBVIOUS
  <1>t. /\ conf \in ConfType /\ avail_addrs \subseteq Dynamic
        /\ pc \in {"boot", "rx", "report", "exited"} /\ armed \in BOOLEAN
        /\ tx \in Frames /\ contested \subseteq Dynamic
        /\ announced \subseteq Addresses
    BY Zenon DEF IInv, TypeOK
  <1>c. /\ conf.current_sa \in Dynamic /\ conf.claim_msg \in ClaimType
        /\ conf.claim_msg.sa \in Addresses
    BY <1>t DEF ConfType, ClaimType
  <1>p. /\ avail_addrs = Dynamic \ (contested \cup {conf.current_sa})
        /\ conf.current_sa \in contested => avail_addrs = {}
        /\ conf.claim_msg.eff => conf.claim_msg.sa = conf.current_sa
    BY Zenon DEF IInv, PoolExact, SquatOnlyWhenExhausted, ClaimMsgFresh
  <1>a. /\ pc # "exited" /\ conf.current_sa # DYNAMIC_MIN
             => conf.current_sa \in announced
        /\ conf.state # STATE_DEFUNCT
        /\ tx.kind = "status" => tx.sa \in announced \cup {DYNAMIC_MIN}
    BY DEF IInv, AnnouncedInv, StatusFromAnnounced
  <1> USE DEF IInv, PoolExact, SquatOnlyWhenExhausted, ClaimMsgFresh,
              StatusFromAnnounced, AnnouncedInv, TypeOK
  <1>1. CASE Boot
    <2>1. /\ conf' = [conf EXCEPT !.sig_alrm = FALSE]
          /\ avail_addrs' = avail_addrs /\ contested' = contested
          /\ pc' \in {"rx", "exited"} /\ pc = "boot"
          /\ tx' = ClaimFrame(conf.claim_msg) \/ tx' = NoFrame
          /\ announced' = announced \/ announced' = announced \cup {conf.claim_msg.sa}
      BY <1>1 DEF Boot
    <2>2. armed' \in BOOLEAN
      BY <1>1, <1>t, Zenon DEF Boot
    <2>3. /\ conf' \in ConfType /\ conf'.current_sa = conf.current_sa
          /\ conf'.state = conf.state /\ conf'.claim_msg = conf.claim_msg
      BY <1>t, <2>1, FreshOK DEF ConfType
    <2>4. tx' \in Frames /\ tx'.kind # "status"
      <3>1. ClaimFrame(conf.claim_msg) \in Frames
             /\ ClaimFrame(conf.claim_msg).kind = "claim"
        BY <1>c DEF Frames, ClaimFrame
      <3> QED BY <2>1, <3>1, NoFrameOK
    <2> QED BY <1>t, <1>c, <1>p, <1>a, <2>1, <2>2, <2>3, <2>4
  <1>2. CASE Alarm
    <2>1. /\ conf' = [conf EXCEPT !.sig_alrm = TRUE]
          /\ avail_addrs' = avail_addrs /\ contested' = contested
          /\ pc' = pc /\ tx' = tx
          /\ announced' = announced /\ armed' = FALSE
      BY <1>2 DEF Alarm
    <2>2. armed' \in BOOLEAN
      BY <2>1, Zenon
    <2>3. /\ conf' \in ConfType /\ conf'.current_sa = conf.current_sa
          /\ conf'.state = conf.state /\ conf'.claim_msg = conf.claim_msg
      BY <1>t, <2>1, FreshOK DEF ConfType
    <2> QED BY <1>t, <1>c, <1>p, <1>a, <2>1, <2>2, <2>3
  <1>3. CASE LoseAddress
    <2> DEFINE new == ChooseNewSA(conf.current_sa, avail_addrs)
    <2>1. /\ conf' = Holding(new)
          /\ avail_addrs' = avail_addrs \ {new}
          /\ SendClaim(Holding(new).claim_msg)
          /\ contested' = contested \cup {conf.current_sa}
          /\ armed' = armed
      BY <1>3 DEF LoseAddress
    <2>3. /\ new \in Dynamic
          /\ avail_addrs = {} => new = conf.current_sa
          /\ avail_addrs # {} => new \in avail_addrs
      BY <1>t, <1>c, NewAddress
    <2> HIDE DEF new
    <2>4. /\ conf' \in ConfType /\ conf'.claim_msg \in ClaimType
          /\ conf'.claim_msg.sa = new /\ conf'.current_sa = new
          /\ conf'.state = conf.state
      BY <1>t, <2>1, <2>3, HoldingOK
    <2>5. /\ tx' \in Frames /\ tx'.kind # "status"
          /\ pc' \in {"report", "exited"}
          /\ announced' \subseteq Addresses
          /\ pc' # "exited" => new \in announced'
      BY <1>t, <2>1, <2>4, SendClaimOK
    <2>6. PoolExact' /\ SquatOnlyWhenExhausted'
      BY <1>t, <1>c, <1>p, <2>1, <2>3, <2>4
    <2>7. TypeOK'
      BY <1>t, <1>c, <2>1, <2>4, <2>5
    <2> QED BY <1>a, <2>4, <2>5, <2>6, <2>7
  <1>4. CASE DefendAddress
    <2> DEFINE m == Holding(conf.current_sa).claim_msg
    <2>1. /\ conf' = [conf EXCEPT !.claim_msg = m]
          /\ SendClaim(m)
          /\ avail_addrs' = avail_addrs /\ contested' = contested
          /\ armed' = armed
      BY <1>4 DEF DefendAddress
    <2>2. m \in ClaimType /\ m.sa = conf.current_sa
      BY <1>t, <1>c, HoldingOK
    <2> HIDE DEF m
    <2>3. /\ conf' \in ConfType /\ conf'.claim_msg = m
          /\ conf'.current_sa = conf.current_sa /\ conf'.state = conf.state
      BY <1>t, <2>1, <2>2, DefendOK
    <2>4. /\ tx' \in Frames /\ tx'.kind # "status"
          /\ pc' \in {"report", "exited"}
          /\ announced' \subseteq Addresses
          /\ pc' # "exited" => m.sa \in announced'
      BY <1>t, <2>1, <2>2, SendClaimOK
    <2> QED BY <1>t, <1>p, <1>a, <2>1, <2>2, <2>3, <2>4
  <1>5. CASE OtherClaim
    <2>1. PICK sa \in Addresses \ {conf.current_sa}, name \in Names :
              LET taken == IF name < NAME THEN {sa} \cap Dynamic ELSE {} IN
              /\ avail_addrs' = avail_addrs \ taken
              /\ contested' = contested \cup taken
      BY <1>5 DEF OtherClaim
    <2> DEFINE taken == IF name < NAME THEN {sa} \cap Dynamic ELSE {}
    <2>2. /\ avail_addrs' = avail_addrs \ taken
          /\ contested' = contested \cup taken
          /\ taken \subseteq Dynamic /\ conf.current_sa \notin taken
      BY <2>1
    <2> HIDE DEF taken
    <2>3. /\ SendNothing /\ pc = "rx" /\ conf' = conf
          /\ armed' = armed
      BY <1>5 DEF OtherClaim
    <2>4. tx' = NoFrame /\ pc' = "report" /\ announced' = announced
      BY <2>3 DEF SendNothing
    <2> QED BY <1>t, <1>c, <1>p, <1>a, <2>2, <2>3, <2>4, NoFrameOK
  <1>6. CASE RxRequest
    <2>1. /\ SendClaim(conf.claim_msg) \/ SendNothing
          /\ pc = "rx" /\ conf' = conf /\ avail_addrs' = avail_addrs
          /\ contested' = contested /\ armed' = armed
      BY <1>6 DEF RxRequest
    <2>2. /\ tx' \in Frames /\ tx'.kind # "status"
          /\ pc' \in {"report", "exited"}
          /\ announced' \subseteq Addresses
          /\ announced \subseteq announced'
      BY <1>t, <1>c, <2>1, SendClaimOK, NoFrameOK DEF SendNothing
    <2> QED BY <1>t, <1>c, <1>p, <1>a, <2>1, <2>2
  <1>7. CASE RxOther \/ Exit \/ NoReport
    <2>1. /\ conf' = conf /\ avail_addrs' = avail_addrs /\ armed' = armed
          /\ contested' = contested /\ announced' = announced
          /\ tx' = NoFrame
          /\ pc # "exited" /\ pc' \in {"rx", "report", "exited"}
      BY <1>7 DEF RxOther, Exit, NoReport, SendNothing
    <2> QED BY <1>t, <1>c, <1>p, <1>a, <2>1, NoFrameOK
  <1>8. CASE GoOperational
    <2>1. /\ conf' = [conf EXCEPT !.state = STATE_OPERATIONAL]
          /\ avail_addrs' = avail_addrs /\ armed' = armed
          /\ contested' = contested /\ announced' = announced
          /\ tx' = NoFrame
          /\ pc # "exited" /\ pc' = "rx"
      BY <1>8 DEF GoOperational
    <2>2. /\ conf' \in ConfType /\ conf'.current_sa = conf.current_sa
          /\ conf'.state = STATE_OPERATIONAL
          /\ conf'.claim_msg = conf.claim_msg
      BY <1>t, <2>1, FreshOK DEF ConfType
    <2>3. conf'.state # STATE_DEFUNCT
      BY <2>2 DEF STATE_OPERATIONAL, STATE_DEFUNCT
    <2> QED BY <1>t, <1>c, <1>p, <1>a, <2>1, <2>2, <2>3, NoFrameOK
  <1>9. CASE ReportStatus
    <2>1. /\ conf' = conf /\ avail_addrs' = avail_addrs /\ armed' = armed
          /\ contested' = contested /\ announced' = announced
          /\ pc # "exited"
          /\ \/ tx' = StatusFrame(conf.current_sa) /\ pc' = "rx"
             \/ tx' = NoFrame /\ pc' = "exited"
      BY <1>9 DEF ReportStatus
    <2>2. StatusFrame(conf.current_sa).sa = conf.current_sa
      BY DEF StatusFrame
    <2>3. StatusFrame(conf.current_sa) \in Frames
      BY <1>c, DynamicAddresses DEF Frames
    <2> QED BY <1>t, <1>c, <1>p, <1>a, <2>1, <2>2, <2>3, NoFrameOK
  <1>10. CASE UNCHANGED vars
    BY <1>t, <1>c, <1>p, <1>a, <1>10 DEF vars
  <1> QED
    BY <1>1, <1>2, <1>3, <1>4, <1>5, <1>6, <1>7, <1>8, <1>9, <1>10
       DEF Next, Receive, RxClaim, Report

(* Every reachable state satisfies the inductive invariant.                *)
THEOREM Invariance == Spec => []IInv
  BY InitOK, StepOK, PTL DEF Spec

-----------------------------------------------------------------------------
(* The safety properties of the runs. *)

(* The configuration, the pool and the frames on the bus keep their types: *)
(* the current address never leaves the dynamic range.                     *)
THEOREM TypeCorrect == Spec => []TypeOK
  <1>1. IInv => TypeOK  BY DEF IInv
  <1> QED BY <1>1, Invariance, PTL

(* PoolExact: rx_claim_routine and choose_new_sa together keep the pool    *)
(* equal to the dynamic addresses that are neither ours nor contested.     *)
THEOREM PoolIsExact == Spec => []PoolExact
  <1>1. IInv => PoolExact  BY DEF IInv
  <1> QED BY <1>1, Invariance, PTL

(* SquatOnlyWhenExhausted: a contested address is kept only when no other  *)
(* dynamic address is left.                                                *)
THEOREM SquatsOnlyWhenExhausted == Spec => []SquatOnlyWhenExhausted
  <1>1. IInv => SquatOnlyWhenExhausted  BY DEF IInv
  <1> QED BY <1>1, Invariance, PTL

(* ClaimMsgFresh: the stored claim message never lags behind the address.  *)
THEOREM ClaimMsgIsFresh == Spec => []ClaimMsgFresh
  <1>1. IInv => ClaimMsgFresh  BY DEF IInv
  <1> QED BY <1>1, Invariance, PTL

(* StatusFromAnnounced: reports leave from announced addresses, or from    *)
(* the first one.                                                          *)
THEOREM StatusIsAnnounced == Spec => []StatusFromAnnounced
  <1>1. IInv => StatusFromAnnounced  BY DEF IInv
  <1> QED BY <1>1, Invariance, PTL

(* NeverDefunct: STATE_DEFUNCT is unreachable whatever happens on the bus. *)
THEOREM DefunctIsUnreachable == Spec => []NeverDefunct
  <1>1. IInv => NeverDefunct
    <2> SUFFICES ASSUME IInv PROVE NeverDefunct  OBVIOUS
    <2>1. conf.current_sa \in Dynamic
      BY DEF IInv, TypeOK, ConfType
    <2> QED BY <2>1, DynamicAddresses DEF IInv, AnnouncedInv, NeverDefunct
  <1> QED BY <1>1, Invariance, PTL

(* NeverMovesToContested: no address is tried twice, and none that a node  *)
(* of higher priority holds.                                               *)
THEOREM MovesToFree == Spec => NeverMovesToContested
  <1>1. IInv /\ [Next]_vars => [MoveToFreeStep]_vars
    <2> SUFFICES ASSUME IInv, [Next]_vars PROVE MoveToFreeStep  OBVIOUS
    <2>t. /\ conf \in ConfType /\ avail_addrs \subseteq Dynamic
          /\ conf.current_sa \in Dynamic
      BY DEF IInv, TypeOK, ConfType
    <2>p. avail_addrs = Dynamic \ (contested \cup {conf.current_sa})
      BY DEF IInv, PoolExact
    <2>1. CASE LoseAddress
      <3> DEFINE new == ChooseNewSA(conf.current_sa, avail_addrs)
      <3>1. /\ conf' = Holding(new)
            /\ contested' = contested \cup {conf.current_sa}
        BY <2>1 DEF LoseAddress
      <3>2. /\ new \in Dynamic
            /\ avail_addrs = {} => new = conf.current_sa
            /\ avail_addrs # {} => new \in avail_addrs
        BY <2>t, NewAddress
      <3> HIDE DEF new
      <3>3. conf'.current_sa = new
        BY <2>t, <3>1, <3>2, HoldingOK
      <3> QED BY <2>p, <3>1, <3>2, <3>3 DEF MoveToFreeStep
    <2>2. CASE ~LoseAddress
      <3>1. conf'.current_sa = conf.current_sa
        BY <2>t, <2>2
           DEF Next, Receive, RxClaim, Report, Boot, DefendAddress, OtherClaim,
               RxRequest, RxOther, Exit, GoOperational, ReportStatus, NoReport,
               Alarm, vars, ConfType
      <3> QED BY <3>1 DEF MoveToFreeStep
    <2> QED BY <2>1, <2>2
  <1> QED BY <1>1, Invariance, PTL DEF Spec, NeverMovesToContested
=============================================================================
