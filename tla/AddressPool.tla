----------------------------- MODULE AddressPool -----------------------------
(***************************************************************************)
(* The pool of dynamic source addresses of src/main.c.  addr_pool has one  *)
(* int for each slot; the model keeps the set of the slots that hold F_USE *)
(* ("available").  ChooseNewSA is what choose_new_sa comes to; the module  *)
(* ChooseNewSa follows its recursion call by call.                         *)
(***************************************************************************)
EXTENDS Integers

CONSTANTS
    DYNAMIC_MIN,      \* first address of the dynamic range (inc/local_defs.h)
    DYNAMIC_MAX,      \* last address of the dynamic range
    J1939_IDLE_ADDR,  \* the idle address, and the number of slots
    LAST_ITERATION    \* the 0xFF of choose_new_sa

ASSUME AddressPoolAssumption ==
    /\ DYNAMIC_MIN \in Nat
    /\ DYNAMIC_MAX \in Nat
    /\ J1939_IDLE_ADDR \in Nat
    /\ LAST_ITERATION \in Nat
    /\ DYNAMIC_MIN <= DYNAMIC_MAX
    /\ DYNAMIC_MAX < J1939_IDLE_ADDR
    /\ J1939_IDLE_ADDR <= LAST_ITERATION + 1

Slots == 0 .. J1939_IDLE_ADDR - 1

Dynamic == DYNAMIC_MIN .. DYNAMIC_MAX

(* The slot k places after slot i, around the pool. *)
Ahead(i, k) ==
    IF i + k < J1939_IDLE_ADDR THEN i + k ELSE i + k - J1939_IDLE_ADDR

(* How many places slot a is after slot i. *)
Distance(i, a) == IF a >= i THEN a - i ELSE a - i + J1939_IDLE_ADDR

(* The available slot the search from i meets first. *)
FirstAvailable(i, avail) ==
    CHOOSE a \in avail : \A b \in avail : Distance(i, a) <= Distance(i, b)

(* choose_new_sa(i, 0, avail_addrs): the address it leaves in conf.        *)
(* current_sa when the address before was i.  An exhausted pool leaves it  *)
(* alone.                                                                  *)
LastAvailable(i, avail) ==   \* mutant
    IF avail = {} THEN J1939_IDLE_ADDR
    ELSE CHOOSE a \in avail : \A b \in avail : Distance(i, a) >= Distance(i, b)

ChooseNewSA(i, avail) == IF avail = {} THEN i ELSE FirstAvailable(i, avail)
=============================================================================
