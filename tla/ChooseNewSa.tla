----------------------------- MODULE ChooseNewSa -----------------------------
(***************************************************************************)
(* choose_new_sa of src/main.c, one step per recursive call.  The search   *)
(* starts at the current address, goes once around the slots and gives up  *)
(* past LAST_ITERATION calls.  start and pool remember what it was called  *)
(* with.                                                                   *)
(***************************************************************************)
EXTENDS AddressPool

VARIABLES
    current_index, iterations,   \* the parameters of the call in progress
    current_sa,                  \* conf.current_sa
    avail_addrs,                 \* the slots that hold F_USE
    returned,                    \* the outermost call has returned
    start, pool                  \* ghosts: arguments of the outermost call

vars ==
    <<current_index, iterations, current_sa, avail_addrs, returned, start, pool>>

TypeOK ==
    /\ current_index \in Slots
    /\ iterations \in 0 .. LAST_ITERATION + 1
    /\ current_sa \in Slots
    /\ avail_addrs \subseteq Dynamic
    /\ returned \in BOOLEAN
    /\ start \in Slots
    /\ pool \subseteq Dynamic

Init ==
    /\ start \in Dynamic
    /\ pool \in SUBSET (Dynamic \ {start})
    /\ current_index = start
    /\ iterations = 0
    /\ current_sa = start
    /\ avail_addrs = pool
    /\ returned = FALSE

GiveUp ==
    /\ ~returned
    /\ iterations > LAST_ITERATION
    /\ returned' = TRUE
    /\ UNCHANGED <<current_index, iterations, current_sa, avail_addrs, start, pool>>

Take ==
    /\ ~returned
    /\ iterations <= LAST_ITERATION
    /\ current_index \in avail_addrs
    /\ current_sa' = current_index
    /\ avail_addrs' = avail_addrs \ {current_index}
    /\ returned' = TRUE
    /\ UNCHANGED <<current_index, iterations, start, pool>>

AdvanceSkipsOne ==   \* mutant
    /\ ~returned
    /\ iterations <= LAST_ITERATION
    /\ current_index \notin avail_addrs
    /\ current_index' = (current_index + 2) % J1939_IDLE_ADDR
    /\ iterations' = iterations + 1
    /\ UNCHANGED <<current_sa, avail_addrs, returned, start, pool>>

AdvanceForgetsIterations ==   \* mutant
    /\ ~returned
    /\ iterations <= LAST_ITERATION
    /\ current_index \notin avail_addrs
    /\ current_index' = (current_index + 1) % J1939_IDLE_ADDR
    /\ UNCHANGED <<iterations, current_sa, avail_addrs, returned, start, pool>>

Advance ==
    /\ ~returned
    /\ iterations <= LAST_ITERATION
    /\ current_index \notin avail_addrs
    /\ current_index' = (current_index + 1) % J1939_IDLE_ADDR
    /\ iterations' = iterations + 1
    /\ UNCHANGED <<current_sa, avail_addrs, returned, start, pool>>

Next == GiveUp \/ Take \/ Advance

Spec == Init /\ [][Next]_vars /\ WF_vars(Next)
-----------------------------------------------------------------------------
(* The search takes the nearest available address ahead of the one that    *)
(* was lost and marks it used; it changes nothing only when the pool is    *)
(* empty: the limit of LAST_ITERATION calls never cuts it off before, and  *)
(* wrapping around at J1939_IDLE_ADDR skips no slot.                       *)
TakesFirstAvailable ==
    returned =>
        /\ current_sa = ChooseNewSA(start, pool)
        /\ avail_addrs = pool \ {current_sa}

(* The recursion returns, whatever the pool holds.                         *)
Terminates == <>returned
-----------------------------------------------------------------------------
(* Every slot behind the search has been found in use.                     *)
Passed ==
    /\ ~returned => current_sa = start /\ avail_addrs = pool
    /\ ~returned /\ iterations < J1939_IDLE_ADDR =>
          /\ current_index = Ahead(start, iterations)
          /\ \A a \in pool : Distance(start, a) >= iterations
    /\ ~returned /\ iterations >= J1939_IDLE_ADDR => pool = {}

IInv == TypeOK /\ Passed /\ TakesFirstAvailable
=============================================================================
