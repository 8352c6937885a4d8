--------------------------- MODULE ClaimBusProofs ---------------------------
(***************************************************************************)
(* Proofs about ClaimBus, for every number of ECUs, length of their        *)
(* queues, number of frames from other nodes and address range: each ECU   *)
(* does what AddressClaim allows, and two that share an address are told.  *)
(***************************************************************************)
EXTENDS ClaimBus, TLAPS

(* The lemmas about choose_new_sa; which call of it does not matter. *)
Search == INSTANCE ChooseNewSaProofs WITH
    current_index <- DYNAMIC_MIN,
    iterations    <- 0,
    current_sa    <- DYNAMIC_MIN,
    avail_addrs   <- {},
    returned      <- FALSE,
    start         <- DYNAMIC_MIN,
    pool          <- {}

(* It finds a dynamic address, or keeps the one it has. *)
LEMMA NewAddress ==
  ASSUME NEW a \in Dynamic, NEW avail, avail \subseteq Dynamic
  PROVE  ChooseNewSA(a, avail) \in Dynamic
  <1>1. Dynamic \subseteq Slots
    BY AddressPoolAssumption DEF AddressPoolAssumption, Dynamic, Slots
  <1>2. a \in Search!Slots /\ avail \subseteq Search!Slots
    BY <1>1 DEF Slots, Search!Slots
  <1>3. Search!ChooseNewSA(a, avail) = ChooseNewSA(a, avail)
    BY Zenon DEF ChooseNewSA, FirstAvailable, Distance,
                 Search!ChooseNewSA, Search!FirstAvailable, Search!Distance
  <1>4. Search!AddressPoolAssumption
    BY AddressPoolAssumption DEF AddressPoolAssumption, Search!AddressPoolAssumption
  <1> QED BY <1>2, <1>3, <1>4, Search!ChooseNewSAResult

(* What is sent: the claims of other nodes under their NAMEs, ours under 0. *)
SentFrames ==
    [pgn : {"claim"}, sa : Addresses, name : Names \cup {0}]
        \cup [pgn : {"request"}, destination : Addresses]

MsgRec == [sa : Addresses, eff : BOOLEAN, name : {0}]

ConfRec ==
    [current_sa : Dynamic, state : {1, 2, 3}, sig_alrm : BOOLEAN, claim_msg : MsgRec]

Points == {"off", "boot", "rx", "report", "exited"}

PerEcu(f) == f = [e \in Ecus |-> f[e]]

BusTyped ==
    /\ conf \in [Ecus -> ConfRec]
    /\ avail_addrs \in [Ecus -> SUBSET Dynamic]
    /\ pc \in [Ecus -> Points]
    /\ inbox \in [Ecus -> Seq(SentFrames)]
    /\ PerEcu(armed) /\ PerEcu(tx) /\ PerEcu(contested)
    /\ PerEcu(announced)

(* The claim of boot does not carry the extended-frame flag. *)
Unclaimed == \A e \in Ecus : pc[e] \in {"off", "boot"} => ~conf[e].claim_msg.eff

IInv == BusTyped /\ Unclaimed /\ SharedAddressIsNoticed

-----------------------------------------------------------------------------
(* Queues. *)

(* A claim for sa is in queue s. *)
Tells(s, sa) == \E n \in 1 .. Len(s) : s[n].pgn = "claim" /\ s[n].sa = sa

LEMMA AppendTells ==
  ASSUME NEW s \in Seq(SentFrames), NEW frame \in SentFrames, NEW sa
  PROVE  /\ Append(s, frame) \in Seq(SentFrames)
         /\ Tells(s, sa) => Tells(Append(s, frame), sa)
         /\ frame.pgn = "claim" /\ frame.sa = sa => Tells(Append(s, frame), sa)
  <1>1. /\ Append(s, frame) \in Seq(SentFrames) /\ Len(s) \in Nat
        /\ Len(Append(s, frame)) = Len(s) + 1
        /\ Append(s, frame)[Len(s) + 1] = frame
        /\ \A n \in 1 .. Len(s) : Append(s, frame)[n] = s[n]
    OBVIOUS
  <1>2. ASSUME Tells(s, sa) PROVE Tells(Append(s, frame), sa)
    <2>1. PICK n \in 1 .. Len(s) : s[n].pgn = "claim" /\ s[n].sa = sa
      BY <1>2 DEF Tells
    <2>2. n \in 1 .. Len(Append(s, frame)) /\ Append(s, frame)[n] = s[n]
      BY <1>1, <2>1
    <2> QED BY <2>1, <2>2, Zenon DEF Tells
  <1>3. ASSUME frame.pgn = "claim", frame.sa = sa PROVE Tells(Append(s, frame), sa)
    <2>1. Len(s) + 1 \in 1 .. Len(Append(s, frame))
      BY <1>1
    <2> QED BY <1>1, <1>3, <2>1, Zenon DEF Tells
  <1> QED BY <1>1, <1>2, <1>3

LEMMA TailTells ==
  ASSUME NEW s \in Seq(SentFrames), s # <<>>, NEW sa
  PROVE  /\ Tail(s) \in Seq(SentFrames)
         /\ Head(s) \in SentFrames
         /\ Tells(s, sa) /\ ~(Head(s).pgn = "claim" /\ Head(s).sa = sa)
              => Tells(Tail(s), sa)
  <1>1. /\ Tail(s) \in Seq(SentFrames) /\ Head(s) = s[1] /\ Head(s) \in SentFrames
        /\ Len(s) \in Nat /\ Len(Tail(s)) = Len(s) - 1
        /\ \A n \in 1 .. Len(s) - 1 : Tail(s)[n] = s[n + 1]
    OBVIOUS
  <1>2. ASSUME Tells(s, sa), ~(Head(s).pgn = "claim" /\ Head(s).sa = sa)
        PROVE  Tells(Tail(s), sa)
    <2>1. PICK n \in 1 .. Len(s) : s[n].pgn = "claim" /\ s[n].sa = sa
      BY <1>2 DEF Tells
    <2>2. n # 1
      BY <1>1, <1>2, <2>1
    <2>3. PICK m \in 1 .. Len(s) - 1 : n = m + 1
      <3>1. n - 1 \in 1 .. Len(s) - 1 /\ n = (n - 1) + 1
        BY <1>1, <2>1, <2>2
      <3> QED BY <3>1
    <2>4. m \in 1 .. Len(Tail(s)) /\ Tail(s)[m] = s[n]
      BY <1>1, <2>3
    <2> QED BY <2>1, <2>4, Zenon DEF Tells
  <1> QED BY <1>1, <1>2

LEMMA ClaimSent ==
  ASSUME NEW m \in MsgRec
  PROVE  /\ Claim(m.sa, m.name) \in SentFrames
         /\ Claim(m.sa, m.name).pgn = "claim" /\ Claim(m.sa, m.name).sa = m.sa
  BY DEF Claim, SentFrames, MsgRec

-----------------------------------------------------------------------------
(* What a step of e does to the queues and to the others. *)

(* The others do not move; at most one frame reaches each of them.         *)
OthersRest(e) ==
    \A o \in Ecus \ {e} :
        /\ pc'[o] = pc[o]
        /\ \/ inbox'[o] = inbox[o]
           \/ \E frame \in SentFrames : inbox'[o] = Append(inbox[o], frame)

(* A claim of m reaches every other ECU that listens.                      *)
AllTold(e, m) ==
    \A o \in Listening \ {e} : inbox'[o] = Append(inbox[o], Claim(m.sa, m.name))

LEMMA SendClaimShape ==
  ASSUME BusTyped, NEW e \in Ecus, inbox[e] # <<>>, NEW m \in MsgRec, SendClaim(e, m)
  PROVE  /\ pc' \in [Ecus -> Points] /\ inbox' \in [Ecus -> Seq(SentFrames)]
         /\ PerEcu(tx') /\ PerEcu(announced')
         /\ pc'[e] \in {"report", "exited"}
         /\ inbox'[e] = Tail(inbox[e])
         /\ OthersRest(e)
         /\ pc'[e] = "report" => AllTold(e, m)
  <1>t. /\ pc \in [Ecus -> Points] /\ inbox \in [Ecus -> Seq(SentFrames)]
        /\ PerEcu(tx) /\ PerEcu(announced)
    BY DEF BusTyped
  <1> DEFINE frame == Claim(m.sa, m.name)
  <1>f. frame \in SentFrames
    BY ClaimSent
  <1>h. Tail(inbox[e]) \in Seq(SentFrames)
    BY <1>t, TailTells
  <1>a. \A o \in Ecus : Append(inbox[o], frame) \in Seq(SentFrames)
    BY <1>t, <1>f, AppendTells
  <1>1. PerEcu(tx') /\ PerEcu(announced')
    BY <1>t, Zenon DEF SendClaim, PerEcu
  <1>2. CASE inbox' = Carried(e, frame) /\ Next_pc(e, "report")
    <2> HIDE DEF frame
    <2>1. inbox' = [o \in Ecus |-> IF o \in Listening \ {e} THEN Append(Rest(e, o), frame)
                                                          ELSE Rest(e, o)]
      BY <1>2 DEF Carried
    <2>2. pc' = [pc EXCEPT ![e] = "report"]
      BY <1>2 DEF Next_pc
    <2>3. inbox'[e] = Tail(inbox[e])
      BY <2>1 DEF Rest
    <2>4. \A o \in Ecus \ {e} :
              inbox'[o] = IF o \in Listening THEN Append(inbox[o], frame) ELSE inbox[o]
      BY <2>1 DEF Rest
    <2>5. Listening \subseteq Ecus
      BY DEF Listening
    <2>6. inbox' \in [Ecus -> Seq(SentFrames)]
      <3>1. \A o \in Ecus : inbox'[o] \in Seq(SentFrames)
        BY <1>t, <1>h, <1>a, <2>3, <2>4
      <3> QED BY <2>1, <3>1
    <2>7. pc' \in [Ecus -> Points] /\ pc'[e] = "report"
          /\ \A o \in Ecus \ {e} : pc'[o] = pc[o]
      BY <1>t, <2>2 DEF Points
    <2> QED BY <1>1, <1>f, <2>3, <2>4, <2>5, <2>6, <2>7 DEF OthersRest, AllTold, frame
  <1>3. CASE inbox' = Consumed(e) /\ Next_pc(e, "exited")
    <2>1. inbox' = [o \in Ecus |-> Rest(e, o)] /\ pc' = [pc EXCEPT ![e] = "exited"]
      BY <1>3 DEF Consumed, Next_pc
    <2>2. inbox'[e] = Tail(inbox[e]) /\ \A o \in Ecus \ {e} : inbox'[o] = inbox[o]
      BY <2>1 DEF Rest
    <2>3. inbox' \in [Ecus -> Seq(SentFrames)]
      <3>1. \A o \in Ecus : inbox'[o] \in Seq(SentFrames)
        BY <1>t, <1>h, <2>2
      <3> QED BY <2>1, <3>1
    <2>4. pc' \in [Ecus -> Points] /\ pc'[e] = "exited"
          /\ \A o \in Ecus \ {e} : pc'[o] = pc[o]
      BY <1>t, <2>1 DEF Points
    <2> QED BY <1>1, <2>2, <2>3, <2>4 DEF OthersRest
  <1> QED BY <1>2, <1>3 DEF SendClaim

LEMMA SendNothingShape ==
  ASSUME BusTyped, NEW e \in Ecus, inbox[e] # <<>>, SendNothing(e)
  PROVE  /\ pc' \in [Ecus -> Points] /\ inbox' \in [Ecus -> Seq(SentFrames)]
         /\ PerEcu(tx') /\ PerEcu(announced')
         /\ pc'[e] = "report"
         /\ inbox'[e] = Tail(inbox[e])
         /\ OthersRest(e)
  <1>t. /\ pc \in [Ecus -> Points] /\ inbox \in [Ecus -> Seq(SentFrames)]
        /\ PerEcu(tx) /\ PerEcu(announced)
    BY DEF BusTyped
  <1>h. Tail(inbox[e]) \in Seq(SentFrames)
    BY <1>t, TailTells
  <1>1. PerEcu(tx') /\ PerEcu(announced')
    BY <1>t, Zenon DEF SendNothing, PerEcu
  <1>2. inbox' = [o \in Ecus |-> Rest(e, o)] /\ pc' = [pc EXCEPT ![e] = "report"]
    BY DEF SendNothing, Consumed, Next_pc
  <1>3. inbox'[e] = Tail(inbox[e]) /\ \A o \in Ecus \ {e} : inbox'[o] = inbox[o]
    BY <1>2 DEF Rest
  <1>4. inbox' \in [Ecus -> Seq(SentFrames)]
    <2>1. \A o \in Ecus : inbox'[o] \in Seq(SentFrames)
      BY <1>t, <1>h, <1>3
    <2> QED BY <1>2, <2>1
  <1>5. pc' \in [Ecus -> Points] /\ pc'[e] = "report"
        /\ \A o \in Ecus \ {e} : pc'[o] = pc[o]
    BY <1>t, <1>2 DEF Points
  <1> QED BY <1>1, <1>3, <1>4, <1>5 DEF OthersRest

(* ECU e stays as it was, or has told every other one of its address.      *)
Keeps(e) ==
    /\ conf'[e].current_sa = conf[e].current_sa
    /\ Claimed(e)' => Claimed(e)
    /\ Tells(inbox[e], conf[e].current_sa) => Tells(inbox'[e], conf[e].current_sa)

Told(e) ==
    Claimed(e)' =>
        \A o \in Ecus \ {e} : Claimed(o) => Tells(inbox'[o], conf'[e].current_sa)

EcuOK(e) ==
    /\ BusTyped'
    /\ pc'[e] \in {"off", "boot"} => ~conf'[e].claim_msg.eff
    /\ OthersRest(e)
    /\ \A o \in Ecus \ {e} : conf'[o] = conf[o]
    /\ Keeps(e) \/ Told(e)

LEMMA Constants ==
  /\ Dynamic \subseteq Addresses
  /\ DYNAMIC_MIN \in Dynamic
  /\ 0 \in Addresses
  BY AddressPoolAssumption, ClaimBusAssumption
     DEF AddressPoolAssumption, ClaimBusAssumption, Dynamic, Addresses

LEMMA HoldingIs ==
  ASSUME NEW e \in Ecus, conf[e] \in ConfRec, NEW a \in Dynamic
  PROVE  /\ Ecu(e)!Holding(a) \in ConfRec
         /\ Ecu(e)!Holding(a).current_sa = a
         /\ Ecu(e)!Holding(a).claim_msg \in MsgRec
         /\ Ecu(e)!Holding(a).claim_msg.sa = a
  <1> DEFINE c == conf[e]
             st == IF a = J1939_IDLE_ADDR THEN 3 ELSE c.state
             m == [sa |-> a, eff |-> TRUE, name |-> c.claim_msg.name]
             h == [c EXCEPT !.current_sa = a, !.state = st, !.claim_msg = m]
  <1>1. c.claim_msg \in MsgRec /\ c.state \in {1, 2, 3}
    BY Zenon DEF ConfRec
  <1>2. m \in MsgRec /\ m.sa = a
    <2>1. c.claim_msg.name \in {0}
      BY <1>1, Zenon DEF MsgRec
    <2> HIDE DEF c
    <2> QED BY <2>1, Constants, ZenonT(60) DEF MsgRec
  <1>3. st \in {1, 2, 3}
    BY <1>1
  <1>4. Ecu(e)!Holding(a) = h
    BY Zenon DEF Ecu!Holding, Ecu!STATE_DEFUNCT
  <1>5. c \in ConfRec
    OBVIOUS
  <1> HIDE DEF c, st, m
  <1>6. h \in ConfRec
    BY <1>2, <1>3, <1>5, ZenonT(60) DEF ConfRec
  <1>7. h.current_sa = a /\ h.claim_msg = m
    BY <1>5 DEF ConfRec
  <1> QED BY <1>2, <1>4, <1>6, <1>7

(* The answer to a frame that leaves the address alone. *)
LEMMA ReadKeeps ==
  ASSUME BusTyped, NEW e \in Ecus, pc[e] = "rx", inbox[e] # <<>>,
         ~(Head(inbox[e]).pgn = "claim" /\ Head(inbox[e]).sa = conf[e].current_sa),
         inbox'[e] = Tail(inbox[e]), conf'[e] = conf[e]
  PROVE  Keeps(e)
  <1>1. inbox[e] \in Seq(SentFrames)
    BY DEF BusTyped
  <1> QED BY <1>1, TailTells DEF Keeps, Claimed

(* A claim for the address of e that reaches all the others. *)
LEMMA SendTells ==
  ASSUME BusTyped, NEW e \in Ecus, NEW m \in MsgRec,
         pc'[e] \in {"report", "exited"},
         pc'[e] = "report" => AllTold(e, m),
         m.sa = conf'[e].current_sa
  PROVE  Told(e)
  <1> SUFFICES ASSUME Claimed(e)', NEW o \in Ecus \ {e}, Claimed(o)
               PROVE  Tells(inbox'[o], conf'[e].current_sa)
    BY DEF Told
  <1>1. o \in Listening \ {e} /\ pc'[e] = "report"
    BY DEF Claimed, Listening
  <1>2. inbox[o] \in Seq(SentFrames)
    BY DEF BusTyped
  <1>3. inbox'[o] = Append(inbox[o], Claim(m.sa, m.name))
    BY <1>1 DEF AllTold
  <1> QED BY <1>2, <1>3, ClaimSent, AppendTells

LEMMA LoseAddressOK ==
  ASSUME BusTyped, NEW e \in Ecus, LoseAddress(e)
  PROVE  EcuOK(e)
  <1>t. /\ conf \in [Ecus -> ConfRec] /\ avail_addrs \in [Ecus -> SUBSET Dynamic]
        /\ PerEcu(armed) /\ PerEcu(contested)
    BY DEF BusTyped
  <1> DEFINE new == ChooseNewSA(conf[e].current_sa, avail_addrs[e])
             m == Ecu(e)!Holding(new).claim_msg
  <1>1. /\ inbox[e] # <<>>
        /\ conf' = [conf EXCEPT ![e] = Ecu(e)!Holding(new)]
        /\ avail_addrs' = [avail_addrs EXCEPT ![e] = avail_addrs[e] \ {new}]
        /\ SendClaim(e, m)
    BY Zenon DEF LoseAddress, Reads
  <1>2. PerEcu(armed') /\ PerEcu(contested')
    BY <1>t, Zenon DEF LoseAddress, PerEcu
  <1>3. conf[e] \in ConfRec /\ conf[e].current_sa \in Dynamic
    BY <1>t, Zenon DEF ConfRec
  <1>4. new \in Dynamic
    BY <1>t, <1>3, NewAddress
  <1> HIDE DEF new
  <1>5. /\ Ecu(e)!Holding(new) \in ConfRec /\ Ecu(e)!Holding(new).current_sa = new
        /\ m \in MsgRec /\ m.sa = new
    BY <1>3, <1>4, HoldingIs
  <1> HIDE DEF m
  <1>6. /\ conf' \in [Ecus -> ConfRec] /\ conf'[e].current_sa = new
        /\ \A o \in Ecus \ {e} : conf'[o] = conf[o]
        /\ avail_addrs' \in [Ecus -> SUBSET Dynamic]
    BY <1>t, <1>1, <1>5
  <1>7. /\ pc' \in [Ecus -> Points] /\ inbox' \in [Ecus -> Seq(SentFrames)]
        /\ PerEcu(tx') /\ PerEcu(announced')
        /\ pc'[e] \in {"report", "exited"}
        /\ OthersRest(e)
        /\ pc'[e] = "report" => AllTold(e, m)
    BY <1>1, <1>5, SendClaimShape
  <1>8. Told(e)
    BY <1>5, <1>6, <1>7, SendTells
  <1>9. BusTyped'
    BY <1>2, <1>6, <1>7 DEF BusTyped, PerEcu
  <1> QED BY <1>6, <1>7, <1>8, <1>9 DEF EcuOK

LEMMA DefendAddressOK ==
  ASSUME BusTyped, NEW e \in Ecus, DefendAddress(e)
  PROVE  EcuOK(e)
  <1>t. /\ conf \in [Ecus -> ConfRec] /\ avail_addrs \in [Ecus -> SUBSET Dynamic]
        /\ PerEcu(armed) /\ PerEcu(contested)
    BY DEF BusTyped
  <1> DEFINE m == Ecu(e)!Holding(conf[e].current_sa).claim_msg
             c == [conf[e] EXCEPT !.claim_msg = m]
  <1>1. /\ inbox[e] # <<>>
        /\ conf' = [conf EXCEPT ![e] = c]
        /\ SendClaim(e, m)
    BY Zenon DEF DefendAddress, Reads
  <1>2. /\ avail_addrs' = avail_addrs /\ armed' = armed /\ contested' = contested
    BY DEF DefendAddress
  <1>3. conf[e] \in ConfRec /\ conf[e].current_sa \in Dynamic
    BY <1>t, Zenon DEF ConfRec
  <1>4. m \in MsgRec /\ m.sa = conf[e].current_sa
    BY <1>3, HoldingIs
  <1> HIDE DEF m
  <1>5. c \in ConfRec /\ c.current_sa = conf[e].current_sa
    <2>1. c \in ConfRec
      BY <1>3, <1>4, ZenonT(60) DEF ConfRec
    <2>2. c.current_sa = conf[e].current_sa
      BY <1>3, Zenon DEF ConfRec
    <2> QED BY <2>1, <2>2
  <1> HIDE DEF c
  <1>6. /\ conf' \in [Ecus -> ConfRec] /\ conf'[e].current_sa = conf[e].current_sa
        /\ \A o \in Ecus \ {e} : conf'[o] = conf[o]
    BY <1>t, <1>1, <1>5
  <1>7. /\ pc' \in [Ecus -> Points] /\ inbox' \in [Ecus -> Seq(SentFrames)]
        /\ PerEcu(tx') /\ PerEcu(announced')
        /\ pc'[e] \in {"report", "exited"}
        /\ OthersRest(e)
        /\ pc'[e] = "report" => AllTold(e, m)
    BY <1>1, <1>4, SendClaimShape
  <1>8. Told(e)
    BY <1>4, <1>6, <1>7, SendTells
  <1>9. BusTyped'
    BY <1>t, <1>2, <1>6, <1>7 DEF BusTyped, PerEcu
  <1> QED BY <1>6, <1>7, <1>8, <1>9 DEF EcuOK

LEMMA OtherClaimOK ==
  ASSUME BusTyped, NEW e \in Ecus, OtherClaim(e)
  PROVE  EcuOK(e)
  <1>t. /\ conf \in [Ecus -> ConfRec] /\ avail_addrs \in [Ecus -> SUBSET Dynamic]
        /\ PerEcu(armed) /\ PerEcu(contested)
    BY DEF BusTyped
  <1>1. /\ inbox[e] # <<>> /\ pc[e] = "rx" /\ Head(inbox[e]).sa # conf[e].current_sa
        /\ conf' = conf /\ armed' = armed
        /\ SendNothing(e)
    BY Zenon DEF OtherClaim, Reads
  <1>2. PICK taken : /\ avail_addrs' = [avail_addrs EXCEPT ![e] = avail_addrs[e] \ taken]
                     /\ contested' = [contested EXCEPT ![e] = contested[e] \cup taken]
    BY Zenon DEF OtherClaim
  <1>3. avail_addrs' \in [Ecus -> SUBSET Dynamic]
    BY <1>t, <1>2
  <1>4. PerEcu(contested')
    BY <1>t, <1>2, Zenon DEF PerEcu
  <1>5. /\ pc' \in [Ecus -> Points] /\ inbox' \in [Ecus -> Seq(SentFrames)]
        /\ PerEcu(tx') /\ PerEcu(announced')
        /\ pc'[e] = "report"
        /\ inbox'[e] = Tail(inbox[e])
        /\ OthersRest(e)
    BY <1>1, SendNothingShape
  <1>6. Keeps(e)
    BY <1>1, <1>5, ReadKeeps
  <1>7. BusTyped'
    BY <1>t, <1>1, <1>3, <1>4, <1>5 DEF BusTyped, PerEcu
  <1> QED BY <1>1, <1>5, <1>6, <1>7 DEF EcuOK

LEMMA RxRequestOK ==
  ASSUME BusTyped, NEW e \in Ecus, RxRequest(e)
  PROVE  EcuOK(e)
  <1>t. /\ conf \in [Ecus -> ConfRec] /\ avail_addrs \in [Ecus -> SUBSET Dynamic]
        /\ PerEcu(armed) /\ PerEcu(contested)
    BY DEF BusTyped
  <1>1. /\ inbox[e] # <<>> /\ pc[e] = "rx" /\ Head(inbox[e]).pgn # "claim"
        /\ conf' = conf /\ avail_addrs' = avail_addrs
        /\ armed' = armed /\ contested' = contested
        /\ SendClaim(e, conf[e].claim_msg) \/ SendNothing(e)
    BY DEF RxRequest, Reads
  <1>2. conf[e].claim_msg \in MsgRec
    BY <1>t, Zenon DEF ConfRec
  <1>3. /\ pc' \in [Ecus -> Points] /\ inbox' \in [Ecus -> Seq(SentFrames)]
        /\ PerEcu(tx') /\ PerEcu(announced')
        /\ pc'[e] \in {"report", "exited"}
        /\ inbox'[e] = Tail(inbox[e])
        /\ OthersRest(e)
    BY <1>1, <1>2, SendClaimShape, SendNothingShape
  <1>4. Keeps(e)
    BY <1>1, <1>3, ReadKeeps
  <1>5. BusTyped'
    BY <1>t, <1>1, <1>3 DEF BusTyped, PerEcu
  <1> QED BY <1>1, <1>3, <1>4, <1>5 DEF EcuOK

(* The flag of the timer is all that changes in the struct. *)
LEMMA SigAlrmIs ==
  ASSUME NEW c \in ConfRec, NEW b \in BOOLEAN
  PROVE  /\ [c EXCEPT !.sig_alrm = b] \in ConfRec
         /\ [c EXCEPT !.sig_alrm = b].current_sa = c.current_sa
         /\ [c EXCEPT !.sig_alrm = b].claim_msg = c.claim_msg
  <1>1. [c EXCEPT !.sig_alrm = b] \in ConfRec
    BY ZenonT(60) DEF ConfRec
  <1>2. /\ [c EXCEPT !.sig_alrm = b].current_sa = c.current_sa
        /\ [c EXCEPT !.sig_alrm = b].claim_msg = c.claim_msg
    BY DEF ConfRec
  <1> QED BY <1>1, <1>2

LEMMA BootOK ==
  ASSUME BusTyped, Unclaimed, NEW e \in Ecus, BindSocket(e) \/ Boot(e)
  PROVE  EcuOK(e)
  <1>t. /\ conf \in [Ecus -> ConfRec] /\ pc \in [Ecus -> Points]
        /\ inbox \in [Ecus -> Seq(SentFrames)] /\ PerEcu(armed)
        /\ PerEcu(tx) /\ PerEcu(announced)
    BY DEF BusTyped
  <1>1. pc[e] \in {"off", "boot"} /\ ~conf[e].claim_msg.eff
    BY DEF BindSocket, Boot, Unclaimed
  <1>2. CASE BindSocket(e)
    <2>1. /\ pc' = [pc EXCEPT ![e] = "boot"]
          /\ UNCHANGED <<conf, avail_addrs, armed, tx, contested, announced, inbox>>
      BY <1>2 DEF BindSocket, Next_pc
    <2>2. pc' \in [Ecus -> Points] /\ \A o \in Ecus \ {e} : pc'[o] = pc[o]
      BY <1>t, <2>1 DEF Points
    <2>3. BusTyped'
      BY <2>1, <2>2 DEF BusTyped, PerEcu
    <2> QED BY <1>1, <2>1, <2>2, <2>3 DEF EcuOK, OthersRest, Keeps, Claimed
  <1>3. CASE Boot(e)
    <2> DEFINE m == conf[e].claim_msg
               frame == Claim(m.sa, m.name)
               c == [conf[e] EXCEPT !.sig_alrm = FALSE]
    <2>1. m \in MsgRec /\ frame \in SentFrames
      BY <1>t, ClaimSent, Zenon DEF ConfRec
    <2>2. c \in ConfRec /\ c.current_sa = conf[e].current_sa /\ c.claim_msg = m
      BY <1>t, SigAlrmIs
    <2>3. /\ conf' = [conf EXCEPT ![e] = c] /\ avail_addrs' = avail_addrs
          /\ contested' = contested
      BY <1>3, Zenon DEF Boot
    <2>4. PerEcu(armed') /\ PerEcu(tx') /\ PerEcu(announced')
      BY <1>3, <1>t, Zenon DEF Boot, PerEcu
    <2>5. pc' = [pc EXCEPT ![e] = "rx"] \/ pc' = [pc EXCEPT ![e] = "exited"]
      BY <1>3, Zenon DEF Boot, Next_pc
    <2>6. \/ inbox' = inbox
          \/ inbox' = [o \in Ecus |-> IF o \in Listening \ {e}
                                      THEN Append(inbox[o], frame) ELSE inbox[o]]
      BY <1>3, Zenon DEF Boot
    <2> HIDE DEF c, frame
    <2>7. /\ conf' \in [Ecus -> ConfRec] /\ conf'[e] = c
          /\ \A o \in Ecus \ {e} : conf'[o] = conf[o]
      BY <1>t, <2>2, <2>3
    <2>8. /\ pc' \in [Ecus -> Points] /\ pc'[e] \in {"rx", "exited"}
          /\ \A o \in Ecus \ {e} : pc'[o] = pc[o]
      BY <1>t, <2>5 DEF Points
    <2>9. inbox' \in [Ecus -> Seq(SentFrames)] /\ inbox'[e] = inbox[e]
      <3>1. \A o \in Ecus : Append(inbox[o], frame) \in Seq(SentFrames)
        BY <1>t, <2>1, AppendTells
      <3> QED BY <1>t, <2>6, <3>1
    <2>10. OthersRest(e)
      BY <2>1, <2>6, <2>8 DEF OthersRest
    <2>11. Keeps(e)
      BY <1>1, <2>2, <2>7, <2>9 DEF Keeps, Claimed
    <2>12. BusTyped'
      BY <2>3, <2>4, <2>7, <2>8, <2>9 DEF BusTyped, PerEcu
    <2> QED BY <2>7, <2>8, <2>10, <2>11, <2>12 DEF EcuOK
  <1> QED BY <1>2, <1>3

LEMMA AlarmOK ==
  ASSUME BusTyped, Unclaimed, NEW e \in Ecus, Alarm(e)
  PROVE  EcuOK(e)
  <1>t. conf \in [Ecus -> ConfRec] /\ PerEcu(armed)
    BY DEF BusTyped
  <1> DEFINE c == [conf[e] EXCEPT !.sig_alrm = TRUE]
  <1>1. /\ conf' = [conf EXCEPT ![e] = c] /\ armed' = [armed EXCEPT ![e] = FALSE]
        /\ UNCHANGED <<avail_addrs, pc, tx, contested, announced, inbox>>
    BY Zenon DEF Alarm
  <1>2. /\ c \in ConfRec /\ c.current_sa = conf[e].current_sa
        /\ c.claim_msg = conf[e].claim_msg
    BY <1>t, SigAlrmIs
  <1> HIDE DEF c
  <1>3. /\ conf' \in [Ecus -> ConfRec] /\ conf'[e] = c
        /\ \A o \in Ecus \ {e} : conf'[o] = conf[o]
    BY <1>t, <1>1, <1>2
  <1>4. PerEcu(armed')
    BY <1>t, <1>1, Zenon DEF PerEcu
  <1>5. BusTyped'
    BY <1>1, <1>3, <1>4 DEF BusTyped, PerEcu
  <1> QED BY <1>1, <1>2, <1>3, <1>5 DEF EcuOK, OthersRest, Keeps, Claimed, Unclaimed

LEMMA RestOK ==
  ASSUME BusTyped, NEW e \in Ecus, RxOther(e) \/ Exit(e) \/ Report(e)
  PROVE  EcuOK(e)
  <1>t. conf \in [Ecus -> ConfRec] /\ pc \in [Ecus -> Points] /\ PerEcu(tx)
    BY DEF BusTyped
  <1>1. /\ pc[e] \in {"rx", "report"}
        /\ UNCHANGED <<avail_addrs, armed, contested, announced, inbox>>
    BY DEF RxOther, Exit, Report
  <1>2. \/ pc' = [pc EXCEPT ![e] = "rx"] \/ pc' = [pc EXCEPT ![e] = "report"]
        \/ pc' = [pc EXCEPT ![e] = "exited"]
    BY Zenon DEF RxOther, Exit, Report, GoOperational, ReportStatus, NoReport, Next_pc
  <1>3. PerEcu(tx')
    BY <1>t, Zenon
       DEF RxOther, Exit, Report, GoOperational, ReportStatus, NoReport, PerEcu
  <1> DEFINE c == [conf[e] EXCEPT !.state = 2]
  <1>4. conf' = conf \/ conf' = [conf EXCEPT ![e] = c]
    BY Zenon DEF RxOther, Exit, Report, GoOperational, ReportStatus, NoReport,
                 Ecu!STATE_OPERATIONAL
  <1>5. /\ c \in ConfRec /\ c.current_sa = conf[e].current_sa
        /\ c.claim_msg = conf[e].claim_msg
    <2>1. conf[e] \in ConfRec /\ 2 \in {1, 2, 3}
      BY <1>t
    <2>2. c \in ConfRec
      BY <2>1, ZenonT(60) DEF ConfRec
    <2>3. c.current_sa = conf[e].current_sa /\ c.claim_msg = conf[e].claim_msg
      BY <2>1 DEF ConfRec
    <2> QED BY <2>2, <2>3
  <1> HIDE DEF c
  <1>6. /\ conf' \in [Ecus -> ConfRec]
        /\ conf'[e].current_sa = conf[e].current_sa
        /\ conf'[e].claim_msg = conf[e].claim_msg
        /\ \A o \in Ecus \ {e} : conf'[o] = conf[o]
    BY <1>t, <1>4, <1>5
  <1>7. /\ pc' \in [Ecus -> Points] /\ pc'[e] \in {"rx", "report", "exited"}
        /\ \A o \in Ecus \ {e} : pc'[o] = pc[o]
    BY <1>t, <1>2 DEF Points
  <1>8. BusTyped'
    BY <1>1, <1>3, <1>6, <1>7 DEF BusTyped, PerEcu
  <1>9. Keeps(e)
    BY <1>1, <1>6 DEF Keeps, Claimed
  <1> QED BY <1>1, <1>6, <1>7, <1>8, <1>9 DEF EcuOK, OthersRest

LEMMA EcuStepOK ==
  ASSUME BusTyped, Unclaimed, NEW e \in Ecus, EcuStep(e)
  PROVE  EcuOK(e)
  BY BootOK, AlarmOK, LoseAddressOK, DefendAddressOK, OtherClaimOK, RxRequestOK, RestOK
     DEF EcuStep, Receive, RxFrame, RxClaim

LEMMA ForeignOK ==
  ASSUME BusTyped, ForeignFrame
  PROVE  /\ BusTyped'
         /\ pc' = pc /\ conf' = conf
         /\ \A o \in Ecus : \/ inbox'[o] = inbox[o]
                            \/ \E frame \in SentFrames : inbox'[o] = Append(inbox[o], frame)
  <1>t. inbox \in [Ecus -> Seq(SentFrames)]
    BY DEF BusTyped
  <1>1. UNCHANGED <<conf, avail_addrs, pc, armed, tx, contested, announced>>
    BY DEF ForeignFrame
  <1>2. PICK frame \in ForeignFrames :
            inbox' = [o \in Ecus |-> IF o \in Listening THEN Append(inbox[o], frame)
                                                        ELSE inbox[o]]
    BY Zenon DEF ForeignFrame
  <1>3. frame \in SentFrames
    BY DEF ForeignFrames, SentFrames, Claim, Request
  <1>4. \A o \in Ecus : Append(inbox[o], frame) \in Seq(SentFrames)
    BY <1>t, <1>3, AppendTells
  <1>5. inbox' \in [Ecus -> Seq(SentFrames)]
    BY <1>t, <1>2, <1>4
  <1>6. BusTyped'
    BY <1>1, <1>5 DEF BusTyped, PerEcu
  <1> QED BY <1>1, <1>2, <1>3, <1>6

-----------------------------------------------------------------------------
(* Two ECUs that share an address are told.                                *)

LEMMA WarnedTells == \A e, sa : Warned(e, sa) <=> Tells(inbox[e], sa)
  BY Zenon DEF Warned, Tells

LEMMA InitOK == Init => IInv
  <1> SUFFICES ASSUME Init PROVE IInv  OBVIOUS
  <1> DEFINE c(e) == [current_sa |-> DYNAMIC_MIN, state |-> Ecu(e)!STATE_INITIAL,
                      sig_alrm |-> FALSE, claim_msg |-> Ecu(e)!InitialClaim]
  <1>1. ASSUME NEW e \in Ecus PROVE c(e) \in ConfRec /\ ~c(e).claim_msg.eff
    <2> DEFINE m == [sa |-> 0, eff |-> FALSE, name |-> 0]
    <2>1. m \in MsgRec /\ m.eff = FALSE
      BY Constants DEF MsgRec
    <2>2. c(e) = [current_sa |-> DYNAMIC_MIN, state |-> 1, sig_alrm |-> FALSE, claim_msg |-> m]
      BY Zenon DEF Ecu!STATE_INITIAL, Ecu!InitialClaim
    <2> HIDE DEF m, c
    <2> QED BY <2>1, <2>2, Constants DEF ConfRec
  <1> HIDE DEF c
  <1>2. conf = [e \in Ecus |-> c(e)]
    BY Zenon DEF Init, c
  <1>3. /\ avail_addrs = [e \in Ecus |-> Dynamic \ {DYNAMIC_MIN}]
        /\ pc = [e \in Ecus |-> "off"] /\ armed = [e \in Ecus |-> FALSE]
        /\ tx = [e \in Ecus |-> Ecu(e)!NoFrame] /\ contested = [e \in Ecus |-> {}]
        /\ announced = [e \in Ecus |-> {}]
        /\ inbox = [e \in Ecus |-> <<>>]
    BY DEF Init
  <1>4. BusTyped
    <2>1. conf \in [Ecus -> ConfRec]
      BY <1>1, <1>2
    <2>2. /\ avail_addrs \in [Ecus -> SUBSET Dynamic] /\ pc \in [Ecus -> Points]
          /\ inbox \in [Ecus -> Seq(SentFrames)]
      BY <1>3 DEF Points
    <2>3. /\ PerEcu(armed) /\ PerEcu(tx) /\ PerEcu(contested)
          /\ PerEcu(announced)
      BY <1>3 DEF PerEcu
    <2> QED BY <2>1, <2>2, <2>3 DEF BusTyped
  <1>5. Unclaimed
    BY <1>1, <1>2 DEF Unclaimed
  <1>6. SharedAddressIsNoticed
    BY <1>3 DEF SharedAddressIsNoticed, Claimed
  <1> QED BY <1>4, <1>5, <1>6 DEF IInv

LEMMA StepOK ==
  ASSUME IInv, [Next]_vars
  PROVE  IInv'
  <1>i. BusTyped /\ Unclaimed /\ SharedAddressIsNoticed
    BY DEF IInv
  <1>q. \A o \in Ecus : inbox[o] \in Seq(SentFrames)
    BY <1>i DEF BusTyped
  <1>n. ASSUME NEW i \in Ecus, NEW j \in Ecus, i # j, Claimed(i), Claimed(j),
               conf[i].current_sa = conf[j].current_sa
        PROVE  \/ Tells(inbox[i], conf[i].current_sa)
               \/ Tells(inbox[j], conf[j].current_sa)
    BY <1>i, <1>n, WarnedTells DEF SharedAddressIsNoticed
  <1>1. ASSUME NEW e \in Ecus, EcuStep(e) PROVE IInv'
    <2>1. EcuOK(e)
      BY <1>1, <1>i, EcuStepOK
    <2>2. BusTyped' /\ OthersRest(e) /\ \A o \in Ecus \ {e} : conf'[o] = conf[o]
      BY <2>1 DEF EcuOK
    <2>3. Unclaimed'
      BY <1>i, <2>1, <2>2 DEF EcuOK, OthersRest, Unclaimed
    <2>4. \A o \in Ecus \ {e} : Claimed(o)' <=> Claimed(o)
      BY <2>2 DEF OthersRest, Claimed
    <2>5. ASSUME NEW o \in Ecus \ {e}, NEW sa, Tells(inbox[o], sa)
          PROVE  Tells(inbox'[o], sa)
      <3>1. \/ inbox'[o] = inbox[o]
            \/ \E frame \in SentFrames : inbox'[o] = Append(inbox[o], frame)
        BY <2>2 DEF OthersRest
      <3>2. CASE inbox'[o] = inbox[o]
        BY <2>5, <3>2
      <3>3. CASE \E frame \in SentFrames : inbox'[o] = Append(inbox[o], frame)
        BY <1>q, <2>5, <3>3, AppendTells
      <3> QED BY <3>1, <3>2, <3>3
    <2>6. ASSUME NEW j \in Ecus \ {e}, Claimed(e)', Claimed(j)',
                 conf'[e].current_sa = conf'[j].current_sa
          PROVE  \/ Tells(inbox'[e], conf'[e].current_sa)
                 \/ Tells(inbox'[j], conf'[j].current_sa)
      <3>1. Claimed(j) /\ conf'[j].current_sa = conf[j].current_sa
        BY <2>2, <2>4, <2>6
      <3>2. CASE Told(e)
        BY <2>6, <3>1, <3>2 DEF Told
      <3>3. CASE Keeps(e)
        <4>1. Claimed(e) /\ conf'[e].current_sa = conf[e].current_sa
          BY <2>6, <3>3 DEF Keeps
        <4>2. \/ Tells(inbox[e], conf[e].current_sa)
              \/ Tells(inbox[j], conf[j].current_sa)
          BY <1>n, <2>6, <3>1, <4>1
        <4> QED BY <2>5, <3>1, <3>3, <4>1, <4>2 DEF Keeps
      <3> QED BY <2>1, <3>2, <3>3 DEF EcuOK
    <2>7. ASSUME NEW i \in Ecus \ {e}, NEW j \in Ecus \ {e}, i # j, Claimed(i)', Claimed(j)',
                 conf'[i].current_sa = conf'[j].current_sa
          PROVE  \/ Tells(inbox'[i], conf'[i].current_sa)
                 \/ Tells(inbox'[j], conf'[j].current_sa)
      <3>1. /\ Claimed(i) /\ Claimed(j)
            /\ conf'[i].current_sa = conf[i].current_sa
            /\ conf'[j].current_sa = conf[j].current_sa
        BY <2>2, <2>4, <2>7
      <3>2. \/ Tells(inbox[i], conf[i].current_sa)
            \/ Tells(inbox[j], conf[j].current_sa)
        BY <1>n, <2>7, <3>1
      <3> QED BY <2>5, <3>1, <3>2
    <2>8. SharedAddressIsNoticed'
      <3> SUFFICES ASSUME NEW i \in Ecus, NEW j \in Ecus, i # j, Claimed(i)', Claimed(j)',
                          conf'[i].current_sa = conf'[j].current_sa
                   PROVE  \/ Tells(inbox'[i], conf'[i].current_sa)
                          \/ Tells(inbox'[j], conf'[j].current_sa)
        BY Zenon DEF SharedAddressIsNoticed, Warned, Tells
      <3>1. CASE i = e
        BY <2>6, <3>1
      <3>2. CASE j = e
        BY <2>6, <3>2
      <3>3. CASE i # e /\ j # e
        BY <2>7, <3>3
      <3> QED BY <3>1, <3>2, <3>3
    <2> QED BY <2>2, <2>3, <2>8 DEF IInv
  <1>2. CASE ForeignFrame
    <2>1. /\ BusTyped' /\ pc' = pc /\ conf' = conf
          /\ \A o \in Ecus : \/ inbox'[o] = inbox[o]
                             \/ \E frame \in SentFrames : inbox'[o] = Append(inbox[o], frame)
      BY <1>2, <1>i, ForeignOK
    <2>2. ASSUME NEW o \in Ecus, NEW sa, Tells(inbox[o], sa) PROVE Tells(inbox'[o], sa)
      BY <1>q, <2>1, <2>2, AppendTells
    <2>3. Unclaimed' /\ \A o \in Ecus : Claimed(o)' <=> Claimed(o)
      BY <1>i, <2>1 DEF Unclaimed, Claimed
    <2>4. SharedAddressIsNoticed'
      <3> SUFFICES ASSUME NEW i \in Ecus, NEW j \in Ecus, i # j, Claimed(i)', Claimed(j)',
                          conf'[i].current_sa = conf'[j].current_sa
                   PROVE  \/ Tells(inbox'[i], conf'[i].current_sa)
                          \/ Tells(inbox'[j], conf'[j].current_sa)
        BY Zenon DEF SharedAddressIsNoticed, Warned, Tells
      <3>1. \/ Tells(inbox[i], conf[i].current_sa)
            \/ Tells(inbox[j], conf[j].current_sa)
        BY <1>n, <2>1, <2>3
      <3> QED BY <2>1, <2>2, <3>1
    <2> QED BY <2>1, <2>3, <2>4 DEF IInv
  <1>3. CASE UNCHANGED vars
    BY <1>3, <1>i DEF vars, IInv, BusTyped, PerEcu, Unclaimed, SharedAddressIsNoticed,
                      Claimed, Warned
  <1> QED BY <1>1, <1>2, <1>3 DEF Next

LEMMA Invariance == Spec => []IInv
  BY InitOK, StepOK, PTL DEF Spec

(* Two ECUs that have both claimed the address they hold never share it    *)
(* unnoticed: a claim for it is in the socket of one of them, for any      *)
(* number of ECUs, however often they move and whatever others claim.      *)
THEOREM SharingIsNoticed == Spec => []SharedAddressIsNoticed
  <1>1. IInv => SharedAddressIsNoticed
    BY DEF IInv
  <1> QED BY <1>1, Invariance, PTL

-----------------------------------------------------------------------------
(* What an ECU does is what AddressClaim allows.                           *)

LEMMA At ==
  ASSUME NEW f, PerEcu(f), NEW e \in Ecus, NEW v
  PROVE  /\ [f EXCEPT ![e] = v][e] = v
         /\ \A o \in Ecus \ {e} : [f EXCEPT ![e] = v][o] = f[o]
  <1>1. f = [o \in Ecus |-> f[o]]
    BY DEF PerEcu
  <1> QED BY <1>1

LEMMA Fields ==
  ASSUME BusTyped
  PROVE  /\ PerEcu(conf) /\ PerEcu(avail_addrs) /\ PerEcu(pc) /\ PerEcu(armed)
         /\ PerEcu(tx) /\ PerEcu(contested) /\ PerEcu(announced)
  BY DEF BusTyped, PerEcu

(* The step of e leaves the others alone. *)
LEMMA OthersStay ==
  ASSUME BusTyped, NEW e \in Ecus, EcuStep(e), NEW o \in Ecus \ {e}
  PROVE  UNCHANGED Ecu(o)!vars
  <1> DEFINE Same(f, g) == g = f \/ \E v : g = [f EXCEPT ![e] = v]
  <1>1. Same(conf, conf') /\ Same(pc, pc')
    BY Zenon DEF EcuStep, BindSocket, Boot, Alarm, Receive, RxFrame, RxClaim, LoseAddress,
       DefendAddress, OtherClaim, RxRequest, RxOther, Exit, Report, GoOperational,
       ReportStatus, NoReport, SendClaim, SendNothing, Next_pc
  <1>2. Same(avail_addrs, avail_addrs') /\ Same(armed, armed')
    BY Zenon DEF EcuStep, BindSocket, Boot, Alarm, Receive, RxFrame, RxClaim, LoseAddress,
       DefendAddress, OtherClaim, RxRequest, RxOther, Exit, Report
  <1>3. Same(tx, tx') /\ Same(announced, announced')
    BY Zenon DEF EcuStep, BindSocket, Boot, Alarm, Receive, RxFrame, RxClaim, LoseAddress,
       DefendAddress, OtherClaim, RxRequest, RxOther, Exit, Report, GoOperational,
       ReportStatus, NoReport, SendClaim, SendNothing
  <1>4. Same(contested, contested')
    BY Zenon DEF EcuStep, BindSocket, Boot, Alarm, Receive, RxFrame, RxClaim, LoseAddress,
       DefendAddress, OtherClaim, RxRequest, RxOther, Exit, Report
  <1>5. ASSUME NEW f, NEW g, PerEcu(f), Same(f, g) PROVE g[o] = f[o]
    BY <1>5, At
  <1> HIDE DEF Same
  <1>6. /\ conf'[o] = conf[o] /\ pc'[o] = pc[o] /\ avail_addrs'[o] = avail_addrs[o]
        /\ armed'[o] = armed[o] /\ tx'[o] = tx[o] /\ announced'[o] = announced[o]
        /\ contested'[o] = contested[o]
    BY <1>1, <1>2, <1>3, <1>4, <1>5, Fields
  <1> QED BY <1>6, Zenon DEF Ecu!vars

LEMMA SameSends ==
  ASSUME BusTyped, NEW e \in Ecus
  PROVE  /\ \A m : SendClaim(e, m) => Ecu(e)!SendClaim(m)
         /\ SendNothing(e) => Ecu(e)!SendNothing
  <1> USE Fields
  <1>1. ASSUME NEW m, SendClaim(e, m) PROVE Ecu(e)!SendClaim(m)
    <2>1. CASE /\ tx' = [tx EXCEPT ![e] = Ecu(e)!ClaimFrame(m)]
               /\ announced' = [announced EXCEPT ![e] = announced[e] \cup {m.sa}]
               /\ pc' = [pc EXCEPT ![e] = "report"]
      <3>1. /\ tx'[e] = Ecu(e)!ClaimFrame(m) /\ announced'[e] = announced[e] \cup {m.sa}
            /\ pc'[e] = "report"
        BY <2>1, At
      <3> QED BY <3>1, Zenon DEF Ecu!SendClaim
    <2>2. CASE /\ tx' = [tx EXCEPT ![e] = Ecu(e)!NoFrame] /\ announced' = announced
               /\ pc' = [pc EXCEPT ![e] = "exited"]
      <3>1. tx'[e] = Ecu(e)!NoFrame /\ announced'[e] = announced[e] /\ pc'[e] = "exited"
        BY <2>2, At
      <3> QED BY <3>1, Zenon DEF Ecu!SendClaim
    <2> QED BY <1>1, <2>1, <2>2 DEF SendClaim, Next_pc
  <1>2. ASSUME SendNothing(e) PROVE Ecu(e)!SendNothing
    <2>1. /\ tx' = [tx EXCEPT ![e] = Ecu(e)!NoFrame] /\ announced' = announced
          /\ pc' = [pc EXCEPT ![e] = "report"]
      BY <1>2 DEF SendNothing, Next_pc
    <2>2. tx'[e] = Ecu(e)!NoFrame /\ announced'[e] = announced[e] /\ pc'[e] = "report"
      BY <2>1, At
    <2> QED BY <2>2, Zenon DEF Ecu!SendNothing
  <1> QED BY <1>1, <1>2

LEMMA SamePool ==
  ASSUME NEW e \in Ecus
  PROVE  /\ Dynamic = Ecu(e)!Dynamic /\ Addresses = Ecu(e)!Addresses
         /\ \A i, avail : ChooseNewSA(i, avail) = Ecu(e)!ChooseNewSA(i, avail)
  <1>1. \A i, avail : FirstAvailable(i, avail) = Ecu(e)!FirstAvailable(i, avail)
    BY Zenon DEF FirstAvailable, Ecu!FirstAvailable, Distance, Ecu!Distance
  <1> QED
    BY <1>1, Zenon DEF Dynamic, Ecu!Dynamic, Addresses, Ecu!Addresses,
                       ChooseNewSA, Ecu!ChooseNewSA

(* What e reads is a frame the environment of AddressClaim may send.       *)
LEMMA HeadIs ==
  ASSUME BusTyped, NEW e \in Ecus, inbox[e] # <<>>
  PROVE  /\ Head(inbox[e]).pgn = "claim"
              => /\ Head(inbox[e]).sa \in Addresses
                 /\ Head(inbox[e]).name \in Names \cup {0}
         /\ Head(inbox[e]).pgn = "request" => Head(inbox[e]).destination \in Addresses
  <1>1. Head(inbox[e]) \in SentFrames
    BY TailTells DEF BusTyped
  <1> QED BY <1>1 DEF SentFrames

(* The fields of e that an action leaves alone, and those it gives a value. *)
LEMMA Same ==
  ASSUME BusTyped, NEW e \in Ecus
  PROVE  /\ UNCHANGED conf => conf'[e] = conf[e]
         /\ UNCHANGED avail_addrs => avail_addrs'[e] = avail_addrs[e]
         /\ UNCHANGED armed => armed'[e] = armed[e]
         /\ UNCHANGED announced => announced'[e] = announced[e]
         /\ UNCHANGED contested => contested'[e] = contested[e]
         /\ UNCHANGED tx => tx'[e] = tx[e]
         /\ UNCHANGED pc => pc'[e] = pc[e]
  OBVIOUS

LEMMA LoseAddressMaps ==
  ASSUME BusTyped, NEW e \in Ecus, LoseAddress(e)
  PROVE  Ecu(e)!LoseAddress
  <1> DEFINE new == ChooseNewSA(conf[e].current_sa, avail_addrs[e])
             h == Ecu(e)!Holding(new)
  <1>1. /\ conf' = [conf EXCEPT ![e] = h]
        /\ avail_addrs' = [avail_addrs EXCEPT ![e] = avail_addrs[e] \ {new}]
        /\ contested' = [contested EXCEPT ![e] = contested[e] \cup {conf[e].current_sa}]
        /\ SendClaim(e, h.claim_msg)
        /\ armed' = armed
    BY Zenon DEF LoseAddress
  <1>2. pc[e] = "rx" /\ \E name \in Names \cup {0} : name < NAME
    BY HeadIs DEF LoseAddress, Reads
  <1>3. new = Ecu(e)!ChooseNewSA(conf[e].current_sa, avail_addrs[e])
    BY SamePool
  <1>4. Ecu(e)!SendClaim(h.claim_msg)
    BY <1>1, SameSends
  <1> HIDE DEF new, h
  <1>6. conf'[e] = h /\ armed'[e] = armed[e]
    BY <1>1, At, Fields
  <1>7. avail_addrs'[e] = avail_addrs[e] \ {new}
    BY <1>1, At, Fields
  <1>8. contested'[e] = contested[e] \cup {conf[e].current_sa}
    BY <1>1, At, Fields
  <1> QED BY <1>2, <1>3, <1>4, <1>6, <1>7, <1>8, Zenon
          DEF Ecu!LoseAddress, h

LEMMA DefendAddressMaps ==
  ASSUME BusTyped, NEW e \in Ecus, DefendAddress(e)
  PROVE  Ecu(e)!DefendAddress
  <1> DEFINE mine == Ecu(e)!Holding(conf[e].current_sa).claim_msg
             c == [conf[e] EXCEPT !.claim_msg = mine]
  <1>1. /\ conf' = [conf EXCEPT ![e] = c]
        /\ SendClaim(e, mine)
        /\ UNCHANGED <<avail_addrs, armed, contested>>
    BY Zenon DEF DefendAddress
  <1>2. pc[e] = "rx" /\ \E name \in Names \cup {0} : name >= NAME
    BY HeadIs DEF DefendAddress, Reads
  <1>3. Ecu(e)!SendClaim(mine)
    BY <1>1, SameSends
  <1> HIDE DEF c, mine
  <1>4. /\ conf'[e] = c /\ avail_addrs'[e] = avail_addrs[e] /\ armed'[e] = armed[e]
        /\ contested'[e] = contested[e]
    BY <1>1, At, Fields, Same
  <1> QED BY <1>2, <1>3, <1>4, Zenon DEF Ecu!DefendAddress, c, mine

LEMMA OtherClaimMaps ==
  ASSUME BusTyped, NEW e \in Ecus, OtherClaim(e)
  PROVE  Ecu(e)!OtherClaim
  <1> DEFINE sa == Head(inbox[e]).sa
             name == Head(inbox[e]).name
             taken == IF name < NAME THEN {sa} \cap Dynamic ELSE {}
  <1>1. /\ avail_addrs' = [avail_addrs EXCEPT ![e] = avail_addrs[e] \ taken]
        /\ contested' = [contested EXCEPT ![e] = contested[e] \cup taken]
        /\ SendNothing(e)
        /\ UNCHANGED <<conf, armed>>
    BY Zenon DEF OtherClaim
  <1>2. /\ pc[e] = "rx"
        /\ sa \in Addresses \ {conf[e].current_sa} /\ name \in Names \cup {0}
    BY HeadIs DEF OtherClaim, Reads
  <1>3. Ecu(e)!SendNothing
    BY <1>1, SameSends
  <1>4. Dynamic = Ecu(e)!Dynamic /\ Addresses = Ecu(e)!Addresses
    BY SamePool
  <1>5. \E a \in Addresses \ {conf[e].current_sa}, n \in Names \cup {0} :
            LET t == IF n < NAME THEN {a} \cap Dynamic ELSE {} IN
            /\ avail_addrs'[e] = avail_addrs[e] \ t
            /\ contested'[e] = contested[e] \cup t
    <2> HIDE DEF taken
    <2>1. avail_addrs'[e] = avail_addrs[e] \ taken /\ contested'[e] = contested[e] \cup taken
      BY <1>1, At, Fields
    <2> QED BY <1>2, <2>1, Zenon DEF taken
  <1>6. conf'[e] = conf[e] /\ armed'[e] = armed[e]
    BY <1>1, Same
  <1> QED BY <1>2, <1>3, <1>4, <1>5, <1>6, Zenon DEF Ecu!OtherClaim

LEMMA RxRequestMaps ==
  ASSUME BusTyped, NEW e \in Ecus, RxRequest(e)
  PROVE  Ecu(e)!RxRequest
  <1> DEFINE d == Head(inbox[e]).destination
  <1>1. pc[e] = "rx" /\ d \in Addresses
    BY HeadIs DEF RxRequest, Reads
  <1>2. IF d \in {conf[e].current_sa, GLOBAL_ADDR}
        THEN Ecu(e)!SendClaim(conf[e].claim_msg) ELSE Ecu(e)!SendNothing
    BY SameSends, Zenon DEF RxRequest
  <1>3. /\ conf'[e] = conf[e] /\ avail_addrs'[e] = avail_addrs[e] /\ armed'[e] = armed[e]
        /\ contested'[e] = contested[e]
    BY Same DEF RxRequest
  <1> HIDE DEF d
  <1>4. d \in Ecu(e)!Addresses
    BY <1>1, SamePool
  <1> QED BY <1>1, <1>2, <1>3, <1>4, Zenon DEF Ecu!RxRequest

LEMMA RxOtherMaps ==
  ASSUME BusTyped, NEW e \in Ecus
  PROVE  /\ RxOther(e) => Ecu(e)!RxOther
         /\ Exit(e) => Ecu(e)!Exit
  <1>1. ASSUME RxOther(e) PROVE Ecu(e)!RxOther
    <2>1. /\ pc[e] = "rx" /\ pc'[e] = "report" /\ tx'[e] = Ecu(e)!NoFrame
      BY <1>1, At, Fields DEF RxOther, Next_pc
    <2>2. /\ conf'[e] = conf[e] /\ avail_addrs'[e] = avail_addrs[e] /\ armed'[e] = armed[e]
          /\ contested'[e] = contested[e]
          /\ announced'[e] = announced[e]
      BY <1>1, Same DEF RxOther
    <2> QED BY <2>1, <2>2, Zenon DEF Ecu!RxOther, Ecu!SendNothing
  <1>2. ASSUME Exit(e) PROVE Ecu(e)!Exit
    <2>1. /\ pc[e] = "rx" /\ pc'[e] = "exited" /\ tx'[e] = Ecu(e)!NoFrame
      BY <1>2, At, Fields DEF Exit, Next_pc
    <2>2. /\ conf'[e] = conf[e] /\ avail_addrs'[e] = avail_addrs[e] /\ armed'[e] = armed[e]
          /\ contested'[e] = contested[e]
          /\ announced'[e] = announced[e]
      BY <1>2, Same DEF Exit
    <2> QED BY <2>1, <2>2, Zenon DEF Ecu!Exit
  <1> QED BY <1>1, <1>2

LEMMA BootMaps ==
  ASSUME BusTyped, NEW e \in Ecus, Boot(e)
  PROVE  Ecu(e)!Boot
  <1> DEFINE m == conf[e].claim_msg
  <1>1. pc[e] = "boot"
    BY DEF Boot
  <1>2. /\ avail_addrs'[e] = avail_addrs[e] /\ contested'[e] = contested[e]
    BY Same DEF Boot
  <1>3. conf'[e] = [conf[e] EXCEPT !.sig_alrm = FALSE]
    <2> DEFINE c == [conf[e] EXCEPT !.sig_alrm = FALSE]
    <2>1. conf' = [conf EXCEPT ![e] = c]
      BY Zenon DEF Boot
    <2> HIDE DEF c
    <2>2. conf'[e] = c
      BY <2>1, At, Fields
    <2> QED BY <2>2, Zenon DEF c
  <1>4. \/ /\ tx'[e] = Ecu(e)!ClaimFrame(m) /\ announced'[e] = announced[e] \cup {m.sa}
           /\ \/ pc'[e] = "rx" /\ armed'[e] = TRUE
              \/ pc'[e] = "exited" /\ armed'[e] = armed[e]
        \/ /\ tx'[e] = Ecu(e)!NoFrame /\ pc'[e] = "exited"
           /\ announced'[e] = announced[e] /\ armed'[e] = armed[e]
    <2>1. CASE /\ tx' = [tx EXCEPT ![e] = Ecu(e)!ClaimFrame(m)]
               /\ announced' = [announced EXCEPT ![e] = announced[e] \cup {m.sa}]
               /\ \/ Next_pc(e, "rx") /\ armed' = [armed EXCEPT ![e] = TRUE]
                  \/ Next_pc(e, "exited") /\ UNCHANGED armed
      <3> HIDE DEF m
      <3>1. tx'[e] = Ecu(e)!ClaimFrame(m)
        BY <2>1, At, Fields
      <3>2. announced'[e] = announced[e] \cup {m.sa}
        BY <2>1, At, Fields
      <3>3. CASE Next_pc(e, "rx") /\ armed' = [armed EXCEPT ![e] = TRUE]
        <4>1. pc'[e] = "rx"
          BY <3>3, At, Fields DEF Next_pc
        <4>2. armed'[e] = TRUE
          BY <3>3, At, Fields
        <4> QED BY <3>1, <3>2, <4>1, <4>2
      <3>4. CASE Next_pc(e, "exited") /\ UNCHANGED armed
        <4>1. pc'[e] = "exited" /\ armed'[e] = armed[e]
          BY <3>4, At, Fields DEF Next_pc
        <4> QED BY <3>1, <3>2, <4>1
      <3> QED BY <2>1, <3>3, <3>4
    <2>2. CASE /\ tx' = [tx EXCEPT ![e] = Ecu(e)!NoFrame] /\ Next_pc(e, "exited")
               /\ UNCHANGED <<announced, armed, inbox>>
      <3>1. tx'[e] = Ecu(e)!NoFrame /\ pc'[e] = "exited"
        BY <2>2, At, Fields DEF Next_pc
      <3>2. announced'[e] = announced[e] /\ armed'[e] = armed[e]
        BY <2>2, Same
      <3> QED BY <3>1, <3>2
    <2> QED BY <2>1, <2>2, Zenon DEF Boot
  <1> QED BY <1>1, <1>2, <1>3, <1>4, Zenon DEF Ecu!Boot

LEMMA AlarmMaps ==
  ASSUME BusTyped, NEW e \in Ecus, Alarm(e)
  PROVE  Ecu(e)!Alarm
  <1> DEFINE c == [conf[e] EXCEPT !.sig_alrm = TRUE]
  <1>1. conf' = [conf EXCEPT ![e] = c]
    BY Zenon DEF Alarm
  <1> HIDE DEF c
  <1>2. conf'[e] = c
    BY <1>1, At, Fields
  <1>3. armed[e] /\ pc[e] # "exited" /\ armed'[e] = FALSE
    BY At, Fields DEF Alarm
  <1>4. /\ avail_addrs'[e] = avail_addrs[e] /\ pc'[e] = pc[e] /\ tx'[e] = tx[e]
        /\ contested'[e] = contested[e] /\ announced'[e] = announced[e]
    BY Same DEF Alarm
  <1> QED BY <1>2, <1>3, <1>4, Zenon DEF Ecu!Alarm, c

LEMMA ReportMaps ==
  ASSUME BusTyped, NEW e \in Ecus, Report(e)
  PROVE  Ecu(e)!Report
  <1>1. pc[e] = "report"
    BY DEF Report
  <1>2. /\ avail_addrs'[e] = avail_addrs[e] /\ armed'[e] = armed[e]
        /\ contested'[e] = contested[e] /\ announced'[e] = announced[e]
    BY Same DEF Report
  <1>3. ASSUME GoOperational(e) PROVE Ecu(e)!GoOperational
    <2>1. conf' = [conf EXCEPT ![e] = [conf[e] EXCEPT !.state = Ecu(e)!STATE_OPERATIONAL]]
      BY <1>3, Zenon DEF GoOperational
    <2>2. conf'[e] = [conf[e] EXCEPT !.state = Ecu(e)!STATE_OPERATIONAL]
      BY <2>1, At, Fields
    <2>3. tx'[e] = Ecu(e)!NoFrame /\ pc'[e] = "rx"
      BY <1>3, At, Fields DEF GoOperational, Next_pc
    <2>4. conf[e].state = Ecu(e)!STATE_INITIAL /\ conf[e].sig_alrm
      BY <1>3 DEF GoOperational
    <2> QED BY <1>1, <1>2, <2>2, <2>3, <2>4, Zenon DEF Ecu!GoOperational
  <1>4. ASSUME ReportStatus(e) PROVE Ecu(e)!ReportStatus
    <2>1. conf'[e] = conf[e] /\ conf[e].state = Ecu(e)!STATE_OPERATIONAL
      BY <1>4, Same DEF ReportStatus
    <2>2. \/ tx'[e] = Ecu(e)!StatusFrame(conf[e].current_sa) /\ pc'[e] = "rx"
          \/ tx'[e] = Ecu(e)!NoFrame /\ pc'[e] = "exited"
      BY <1>4, At, Fields DEF ReportStatus, Next_pc
    <2> QED BY <1>1, <1>2, <2>1, <2>2, Zenon DEF Ecu!ReportStatus
  <1>5. ASSUME NoReport(e) PROVE Ecu(e)!NoReport
    <2>1. /\ conf'[e] = conf[e]
          /\ ~(conf[e].state = Ecu(e)!STATE_INITIAL /\ conf[e].sig_alrm)
      BY <1>5, Same DEF NoReport
    <2>2. tx'[e] = Ecu(e)!NoFrame /\ pc'[e] = "rx"
      BY <1>5, At, Fields DEF NoReport, Next_pc
    <2> QED BY <1>1, <1>2, <2>1, <2>2, Zenon DEF Ecu!NoReport
  <1> QED BY <1>3, <1>4, <1>5, Zenon DEF Report, Ecu!Report

LEMMA BindSocketMaps ==
  ASSUME BusTyped, NEW e \in Ecus, BindSocket(e)
  PROVE  UNCHANGED Ecu(e)!vars
  <1>1. pc[e] = "off" /\ pc'[e] = "boot"
    BY At, Fields DEF BindSocket, Next_pc
  <1>2. /\ conf'[e] = conf[e] /\ avail_addrs'[e] = avail_addrs[e] /\ armed'[e] = armed[e]
        /\ tx'[e] = tx[e] /\ contested'[e] = contested[e] /\ announced'[e] = announced[e]
    BY Same DEF BindSocket
  <1> QED BY <1>1, <1>2, Zenon DEF Ecu!vars

LEMMA EcuMoves ==
  ASSUME BusTyped, [Next]_vars
  PROVE  \A o \in Ecus : Ecu(o)!Next \/ UNCHANGED Ecu(o)!vars
  <1>1. ASSUME NEW e \in Ecus, EcuStep(e) PROVE Ecu(e)!Next \/ UNCHANGED Ecu(e)!vars
    <2>1. RxClaim(e) => Ecu(e)!RxClaim
      BY LoseAddressMaps, DefendAddressMaps, OtherClaimMaps, Zenon DEF RxClaim, Ecu!RxClaim
    <2>2. Receive(e) => Ecu(e)!Receive
      BY <2>1, RxRequestMaps, RxOtherMaps, Zenon DEF Receive, RxFrame, Ecu!Receive
    <2> QED BY <1>1, <2>2, BindSocketMaps, BootMaps, AlarmMaps, ReportMaps, Zenon
            DEF EcuStep, Ecu!Next
  <1>2. ASSUME UNCHANGED <<conf, avail_addrs, pc, armed, tx, contested, announced>>,
               NEW o \in Ecus
        PROVE  UNCHANGED Ecu(o)!vars
    BY <1>2, Zenon DEF Ecu!vars
  <1>3. ASSUME NEW e \in Ecus, EcuStep(e), NEW o \in Ecus
        PROVE  Ecu(o)!Next \/ UNCHANGED Ecu(o)!vars
    <2>1. CASE o = e
      BY <1>1, <1>3, <2>1, Zenon
    <2>2. CASE o # e
      <3>1. UNCHANGED Ecu(o)!vars
        BY <1>3, <2>2, OthersStay
      <3> QED BY <3>1, Zenon
    <2> QED BY <2>1, <2>2
  <1>4. (\E e \in Ecus : EcuStep(e))
          \/ UNCHANGED <<conf, avail_addrs, pc, armed, tx, contested, announced>>
    BY DEF Next, ForeignFrame, vars
  <1> QED BY <1>2, <1>3, <1>4, Zenon

LEMMA EcuInit == Init => \A e \in Ecus : Ecu(e)!Init
  <1> SUFFICES ASSUME Init, NEW e \in Ecus PROVE Ecu(e)!Init
    OBVIOUS
  <1>1. /\ conf[e] = [current_sa |-> DYNAMIC_MIN, state |-> Ecu(e)!STATE_INITIAL,
                      sig_alrm |-> FALSE, claim_msg |-> Ecu(e)!InitialClaim]
        /\ avail_addrs[e] = Dynamic \ {DYNAMIC_MIN}
        /\ pc[e] = "off" /\ armed[e] = FALSE /\ tx[e] = Ecu(e)!NoFrame
        /\ contested[e] = {} /\ announced[e] = {}
    BY Zenon DEF Init
  <1> QED BY <1>1, SamePool, Zenon DEF Ecu!Init

(* On a bus with others of its kind every ECU still does nothing that      *)
(* AddressClaim does not allow; what AddressClaimProofs proves holds of    *)
(* each of them.                                                           *)
THEOREM EcusImplementClaims == Spec => EcusClaimAddresses
  <1>1. IInv => BusTyped
    BY DEF IInv
  <1>2. BusTyped /\ [Next]_vars
          => [\A e \in Ecus : Ecu(e)!Next \/ UNCHANGED Ecu(e)!vars]_vars
    BY EcuMoves
  <1> QED BY <1>1, <1>2, Invariance, EcuInit, PTL DEF Spec, EcusClaimAddresses
=============================================================================
