-------------------------- MODULE ChooseNewSaProofs --------------------------
(***************************************************************************)
(* The recursion of choose_new_sa computes ChooseNewSA, for every pool     *)
(* size, dynamic range and pool.  First the lemmas about the operators of  *)
(* the address pool, which the modules that call it use as well.           *)
(***************************************************************************)
EXTENDS ChooseNewSa, WellFoundedInduction, TLAPS

(* A set of natural numbers has a least element. *)
LEMMA LeastNatural ==
  ASSUME NEW S, S \subseteq Nat, S # {}
  PROVE  \E m \in S : \A n \in S : m <= n
  <1>1. PICK m \in S : \A n \in S : ~(<<n, m>> \in OpToRel(<, Nat))
    BY NatLessThanWellFounded, WFMin
  <1>2. ASSUME NEW n \in S PROVE m <= n
    <2>1. n \in Nat /\ m \in Nat
      OBVIOUS
    <2>2. n < m => <<n, m>> \in OpToRel(<, Nat)
      BY <2>1 DEF OpToRel
    <2>3. ~(n < m)
      BY <1>1, <2>2, Zenon
    <2> QED BY <2>1, <2>3
  <1> QED BY <1>2

LEMMA PoolConstants ==
  /\ Dynamic \subseteq Slots
  /\ DYNAMIC_MIN \in Dynamic
  /\ J1939_IDLE_ADDR \in Nat /\ J1939_IDLE_ADDR > 0
  BY AddressPoolAssumption DEF AddressPoolAssumption, Dynamic, Slots

(* Distance and Ahead are inverse to each other on the slots. *)
LEMMA DistanceAhead ==
  ASSUME NEW i \in Slots, NEW a \in Slots
  PROVE  /\ Distance(i, a) \in Slots
         /\ Ahead(i, Distance(i, a)) = a
         /\ \A k \in Slots : Ahead(i, k) = a <=> k = Distance(i, a)
  BY PoolConstants DEF Slots, Distance, Ahead

(* An available slot nearest to i exists, so the CHOOSE is well defined. *)
LEMMA FirstAvailableExists ==
  ASSUME NEW i \in Slots, NEW avail, avail \subseteq Slots, avail # {}
  PROVE  /\ FirstAvailable(i, avail) \in avail
         /\ \A b \in avail :
              Distance(i, FirstAvailable(i, avail)) <= Distance(i, b)
  <1> DEFINE D == {Distance(i, a) : a \in avail}
  <1>1. D \subseteq Nat /\ D # {}
    <2>1. ASSUME NEW a \in avail PROVE Distance(i, a) \in Nat
      BY DistanceAhead DEF Slots
    <2> QED BY <2>1
  <1>2. PICK m \in D : \A n \in D : m <= n
    BY <1>1, LeastNatural
  <1>3. PICK a \in avail : m = Distance(i, a)
    BY <1>2
  <1>4. \E x \in avail : \A b \in avail : Distance(i, x) <= Distance(i, b)
    BY <1>2, <1>3
  <1> QED BY <1>4 DEF FirstAvailable

(* ChooseNewSA leaves an exhausted pool alone.  Otherwise it returns an     *)
(* available address, the nearest one: every slot passed on the way from i *)
(* around the pool, i included, was in use, so no other available address  *)
(* is as near.                                                             *)
LEMMA ChooseNewSAResult ==
  ASSUME NEW i \in Slots, NEW avail, avail \subseteq Slots
  PROVE  /\ avail = {} => ChooseNewSA(i, avail) = i
         /\ avail # {} =>
              LET new == ChooseNewSA(i, avail) IN
              /\ new \in avail
              /\ \A k \in 0 .. Distance(i, new) - 1 : Ahead(i, k) \notin avail
              /\ \A b \in avail \ {new} : Distance(i, new) < Distance(i, b)
  <1>1. ASSUME avail = {} PROVE ChooseNewSA(i, avail) = i
    BY <1>1 DEF ChooseNewSA
  <1>2. SUFFICES ASSUME avail # {}, NEW new, new = ChooseNewSA(i, avail)
                 PROVE  /\ new \in avail
                        /\ \A k \in 0 .. Distance(i, new) - 1 : Ahead(i, k) \notin avail
                        /\ \A b \in avail \ {new} : Distance(i, new) < Distance(i, b)
    BY <1>1
  <1>3. new \in avail /\ \A b \in avail : Distance(i, new) <= Distance(i, b)
    BY <1>2, FirstAvailableExists DEF ChooseNewSA
  <1>4. Distance(i, new) \in Slots /\ Ahead(i, Distance(i, new)) = new
    BY <1>3, DistanceAhead
  <1>5. ASSUME NEW k \in 0 .. Distance(i, new) - 1, Ahead(i, k) \in avail PROVE FALSE
    <2>1. k \in Slots /\ k < Distance(i, new)
      BY <1>4, PoolConstants DEF Slots
    <2>2. k = Distance(i, Ahead(i, k))
      BY <1>5, <2>1, DistanceAhead
    <2>3. Distance(i, new) <= k
      BY <1>3, <1>5, <2>2
    <2> QED BY <1>4, <2>1, <2>3 DEF Slots
  <1>6. ASSUME NEW b \in avail \ {new} PROVE Distance(i, new) < Distance(i, b)
    <2>1. Distance(i, b) \in Slots /\ Ahead(i, Distance(i, b)) = b
      BY DistanceAhead
    <2>2. Distance(i, new) <= Distance(i, b) /\ Distance(i, new) # Distance(i, b)
      BY <1>3, <1>4, <2>1
    <2> QED BY <1>4, <2>1, <2>2 DEF Slots
  <1> QED BY <1>3, <1>5, <1>6

(* The slot the search stands on, if available, is the nearest one. *)
LEMMA NearestIsFirst ==
  ASSUME NEW i \in Slots, NEW avail, avail \subseteq Slots,
         NEW a \in avail, \A b \in avail : Distance(i, a) <= Distance(i, b)
  PROVE  a = ChooseNewSA(i, avail)
  <1> DEFINE f == FirstAvailable(i, avail)
  <1>1. f \in avail /\ Distance(i, f) <= Distance(i, a)
    BY FirstAvailableExists
  <1> HIDE DEF f
  <1>2. Distance(i, f) = Distance(i, a)
    <2>1. Distance(i, f) \in Slots /\ Distance(i, a) \in Slots
      BY <1>1, DistanceAhead
    <2> QED BY <1>1, <2>1 DEF Slots
  <1>3. f = a
    BY <1>1, <1>2, DistanceAhead
  <1> QED BY <1>3 DEF ChooseNewSA, f

-----------------------------------------------------------------------------
(* The modulus wraps the index to slot 0 after the last slot. *)
LEMMA WrapAround ==
  ASSUME NEW n \in Nat, NEW i \in 0 .. n - 1
  PROVE  (i + 1) % n = IF i + 1 < n THEN i + 1 ELSE 0
  <1>1. CASE i + 1 < n  BY <1>1
  <1>2. CASE ~(i + 1 < n)
    <2>1. i + 1 = n /\ n > 0  BY <1>2
    <2>2. n % n = 0  BY <2>1
    <2> QED BY <2>1, <2>2
  <1> QED BY <1>1, <1>2

(* The next slot lies one further along from where the search started. *)
LEMMA NextAhead ==
  ASSUME NEW i \in Slots, NEW k \in Nat, k < J1939_IDLE_ADDR
  PROVE  /\ (Ahead(i, k) + 1) % J1939_IDLE_ADDR \in Slots
         /\ k + 1 < J1939_IDLE_ADDR =>
              (Ahead(i, k) + 1) % J1939_IDLE_ADDR = Ahead(i, k + 1)
  <1>1. Ahead(i, k) \in 0 .. J1939_IDLE_ADDR - 1
    BY PoolConstants DEF Slots, Ahead
  <1>2. (Ahead(i, k) + 1) % J1939_IDLE_ADDR
          = IF Ahead(i, k) + 1 < J1939_IDLE_ADDR THEN Ahead(i, k) + 1 ELSE 0
    BY <1>1, PoolConstants, WrapAround
  <1> QED BY <1>1, <1>2, PoolConstants DEF Slots, Ahead

(* Every slot behind the search is in use, so the search ends on the       *)
(* nearest available one, and gives up only when there is none.            *)
THEOREM SearchInvariant == Spec => []IInv
  <1> USE DEF IInv
  <1>1. Init => IInv
    <2> SUFFICES ASSUME Init PROVE IInv  OBVIOUS
    <2>1. start \in Slots /\ pool \subseteq Slots /\ start \in Dynamic
      BY PoolConstants DEF Init
    <2>2. TypeOK
      <3>1. 0 \in 0 .. LAST_ITERATION + 1
        BY AddressPoolAssumption
      <3>2. pool \subseteq Dynamic
        BY DEF Init
      <3> QED BY <2>1, <3>1, <3>2, Zenon DEF Init, TypeOK
    <2>3. Ahead(start, 0) = start
      BY <2>1, PoolConstants DEF Ahead, Slots
    <2>4. \A a \in pool : Distance(start, a) >= 0
      BY <2>1, DistanceAhead DEF Slots
    <2> QED BY <2>2, <2>3, <2>4, PoolConstants
            DEF Init, Passed, TakesFirstAvailable
  <1>2. IInv /\ [Next]_vars => IInv'
    <2> SUFFICES ASSUME IInv, [Next]_vars PROVE IInv'  OBVIOUS
    <2>t. /\ start \in Slots /\ current_index \in Slots /\ current_sa \in Slots
          /\ iterations \in 0 .. LAST_ITERATION + 1 /\ iterations \in Nat
          /\ LAST_ITERATION \in Nat
          /\ pool \subseteq Slots /\ avail_addrs \subseteq Dynamic
          /\ pool \subseteq Dynamic
      BY PoolConstants, AddressPoolAssumption DEF TypeOK
    <2>1. CASE GiveUp
      <3>1. iterations >= J1939_IDLE_ADDR
        BY <2>1, <2>t, AddressPoolAssumption DEF GiveUp
      <3>2. pool = {} /\ current_sa = start /\ avail_addrs = pool
        BY <2>1, <3>1 DEF Passed, GiveUp
      <3>3. TakesFirstAvailable'
        BY <2>1, <3>2 DEF GiveUp, TakesFirstAvailable, ChooseNewSA
      <3> QED BY <2>1, <3>3 DEF GiveUp, TypeOK, Passed
    <2>2. CASE Take
      <3>1. current_index \in pool /\ avail_addrs = pool
        BY <2>2 DEF Passed, Take
      <3>2. iterations < J1939_IDLE_ADDR
        BY <2>2, <2>t, <3>1, PoolConstants DEF Passed, Take
      <3>3. current_index = Ahead(start, iterations)
             /\ \A a \in pool : Distance(start, a) >= iterations
        BY <2>2, <3>2 DEF Passed, Take
      <3>4. iterations \in Slots
        BY <2>t, <3>2, PoolConstants DEF Slots
      <3>5. Distance(start, current_index) = iterations
        BY <2>t, <3>3, <3>4, DistanceAhead
      <3>6. \A b \in pool : Distance(start, current_index) <= Distance(start, b)
        <4> TAKE b \in pool
        <4>1. Distance(start, b) \in Slots /\ Distance(start, b) >= iterations
          BY <2>t, <3>3, DistanceAhead
        <4> QED BY <2>t, <3>5, <4>1 DEF Slots
      <3>7. current_index = ChooseNewSA(start, pool)
        BY <2>t, <3>1, <3>6, NearestIsFirst
      <3>8. TakesFirstAvailable'
        BY <2>2, <3>1, <3>7 DEF Take, TakesFirstAvailable
      <3> QED BY <2>2, <2>t, <3>8 DEF Take, TypeOK, Passed
    <2>3. CASE Advance
      <3>1. /\ current_index' = (current_index + 1) % J1939_IDLE_ADDR
            /\ iterations' = iterations + 1 /\ iterations <= LAST_ITERATION
            /\ current_index \notin pool
            /\ current_sa = start /\ avail_addrs = pool
            /\ ~returned /\ ~returned' /\ returned' = returned
            /\ start' = start /\ pool' = pool
            /\ current_sa' = current_sa /\ avail_addrs' = avail_addrs
        BY <2>3 DEF Advance, Passed
      <3>2. current_index' \in Slots
        <4>1. current_index' = IF current_index + 1 < J1939_IDLE_ADDR
                               THEN current_index + 1 ELSE 0
          BY <2>t, <3>1, PoolConstants, WrapAround DEF Slots
        <4> QED BY <2>t, <4>1, PoolConstants DEF Slots
      <3>3. iterations' \in 0 .. LAST_ITERATION + 1 /\ iterations' \in Nat
        BY <2>t, <3>1
      <3>4. TypeOK'
        BY <2>t, <3>1, <3>2, <3>3, Zenon DEF TypeOK
      <3>5. CASE iterations < J1939_IDLE_ADDR
        <4>1. current_index = Ahead(start, iterations)
               /\ \A a \in pool : Distance(start, a) >= iterations
          BY <3>1, <3>5 DEF Passed
        <4>2. iterations + 1 < J1939_IDLE_ADDR =>
                current_index' = Ahead(start, iterations + 1)
          BY <2>t, <3>1, <3>5, <4>1, NextAhead
        <4>3. iterations \in Slots
          BY <2>t, <3>5, PoolConstants DEF Slots
        <4>4. ASSUME NEW a \in pool
              PROVE  /\ Distance(start, a) >= iterations + 1
                     /\ Distance(start, a) < J1939_IDLE_ADDR
          <5>1. Distance(start, a) # iterations
            BY <2>t, <3>1, <4>1, <4>3, DistanceAhead
          <5>2. Distance(start, a) \in Slots /\ Distance(start, a) >= iterations
            BY <2>t, <4>1, DistanceAhead
          <5> QED BY <2>t, <5>1, <5>2, PoolConstants DEF Slots
        <4>5. iterations + 1 >= J1939_IDLE_ADDR => pool = {}
          <5> SUFFICES ASSUME iterations + 1 >= J1939_IDLE_ADDR, NEW a \in pool
                       PROVE  FALSE
            OBVIOUS
          <5>1. Distance(start, a) \in Slots
            BY <2>t, DistanceAhead
          <5> QED BY <2>t, <4>4, <5>1, PoolConstants DEF Slots
        <4>6. Passed'
          BY <3>1, <4>2, <4>4, <4>5 DEF Passed
        <4> QED BY <3>1, <3>4, <4>6 DEF TakesFirstAvailable
      <3>6. CASE ~(iterations < J1939_IDLE_ADDR)
        <4>1. pool = {} /\ iterations + 1 >= J1939_IDLE_ADDR
               /\ ~(iterations + 1 < J1939_IDLE_ADDR)
          BY <2>t, <3>1, <3>6, PoolConstants DEF Passed
        <4> QED BY <3>1, <3>4, <4>1 DEF Passed, TakesFirstAvailable
      <3> QED BY <3>5, <3>6
    <2>4. CASE UNCHANGED vars
      BY <2>4 DEF vars, TypeOK, Passed, TakesFirstAvailable
    <2> QED BY <2>1, <2>2, <2>3, <2>4 DEF Next
  <1> QED BY <1>1, <1>2, PTL DEF Spec

(* TakesFirstAvailable: choose_new_sa returns the nearest available        *)
(* address and marks it used, or changes nothing because there is none.    *)
THEOREM SearchIsCorrect == Spec => []TakesFirstAvailable
  <1>1. IInv => TakesFirstAvailable  BY DEF IInv
  <1> QED BY <1>1, SearchInvariant, PTL
==============================================================================
