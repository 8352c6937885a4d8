------------------------------- MODULE Burst -------------------------------
(***************************************************************************)
(* What the emergency brake display promises about the inner lamps, with   *)
(* no timers, no turn signals, no control points and no shared counters:   *)
(* each application of the brakes carries at most one burst, a burst is    *)
(* four toggles of the lamps and a fifth that leaves them lit, and only a  *)
(* release of the brakes cuts it short.                                    *)
(***************************************************************************)
EXTENDS Naturals

VARIABLES
    braking,   \* the brakes are applied
    burst,     \* the burst of this application: "none" yet, "on" or "done"
    flashes,   \* toggles of the burst that is on
    lit        \* the inner lamps

vars == <<braking, burst, flashes, lit>>

FLASHES == 4

Init ==
    /\ braking = FALSE
    /\ burst = "none"
    /\ flashes = 0
    /\ lit = FALSE

(* The brakes are applied, or still are, without a burst. *)
Apply ==
    /\ braking' = TRUE
    /\ UNCHANGED <<burst, flashes, lit>>

(* The vehicle moves and this application has had no burst: it starts, from *)
(* its first flash, with the lamps as they are.                             *)
Start ==
    /\ burst = "none"
    /\ braking' = TRUE
    /\ burst' = "on"
    /\ flashes' = 0
    /\ UNCHANGED lit

Flash ==
    /\ burst = "on"
    /\ flashes < FLASHES
    /\ flashes' = flashes + 1
    /\ lit' = ~lit
    /\ UNCHANGED <<braking, burst>>

Finish ==
    /\ burst = "on"
    /\ flashes = FLASHES
    /\ burst' = "done"
    /\ flashes' = 0
    /\ lit' = TRUE
    /\ UNCHANGED braking

Release ==
    /\ braking' = FALSE
    /\ burst' = "none"
    /\ flashes' = 0
    /\ UNCHANGED lit

(* With no burst on, the lamps come to show the brakes. *)
Settle ==
    /\ burst # "on"
    /\ lit' = braking
    /\ UNCHANGED <<braking, burst, flashes>>

Next == Apply \/ Start \/ Flash \/ Finish \/ Release \/ Settle

Spec == Init /\ [][Next]_vars
=============================================================================
