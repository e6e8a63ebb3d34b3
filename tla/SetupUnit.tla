----------------------------- MODULE SetupUnit -----------------------------
(***************************************************************************)
(* What the Wi-Fi setup unit promises those who follow it: the phases its  *)
(* status file goes through, in their order, from "none" (nothing written  *)
(* yet) to one of the ends, and that a unit no longer up writes no more.   *)
(* A unit may die with nothing said (the power, a kill past its hard       *)
(* stop): the file then says for ever what it said last.                   *)
(***************************************************************************)
VARIABLES phase,  \* what status.json says of this run
          up      \* the unit is running

vars == <<phase, up>>

Ends == {"connected", "timeout", "stopped", "error"}
After == [none     |-> {"scanning", "error", "stopped"},
          scanning |-> {"ap_up", "error", "stopped"},
          ap_up    |-> {"joining", "timeout", "stopped"},
          joining  |-> {"connected", "failed", "stopped"},
          failed   |-> {"ap_up", "timeout", "error", "stopped"},
          \* A stop may find it putting things back, or just connected.
          connected |-> {"stopped"}, timeout |-> {"stopped"},
          error     |-> {"stopped"}, stopped |-> {}]

Init == phase = "none" /\ up = TRUE

Write == /\ up
         /\ phase' \in After[phase]
         /\ UNCHANGED up

Leave == /\ up
         /\ phase \in Ends
         /\ up' = FALSE
         /\ UNCHANGED phase

Die == /\ up
       /\ up' = FALSE
       /\ UNCHANGED phase

Next == Write \/ Leave \/ Die
Spec == Init /\ [][Next]_vars
=============================================================================
