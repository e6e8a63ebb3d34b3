------------------------------ MODULE OneSlot ------------------------------
(***************************************************************************)
(* What the session arbiter promises, with no mention of how it gets       *)
(* there: one slot, and room beside it for one conversation that stepped   *)
(* away for a call.  Whoever has the slot leaves it only by ending, by     *)
(* being put out, or by stepping away for a call that is still on; and a   *)
(* conversation that stepped away has the slot back in the very step that  *)
(* call ends.                                                              *)
(***************************************************************************)
CONSTANTS
    Sessions,   \* everyone who may ever have the slot
    Callers,    \* the ones a conversation may step away for
    Nobody

VARIABLES
    slot,       \* who has the slot, or Nobody
    parked,     \* who stepped away, or Nobody
    parkedFor,  \* the call it stepped away for, or Nobody
    over        \* whose session has ended

Init ==
    /\ slot = Nobody
    /\ parked = Nobody
    /\ parkedFor = Nobody
    /\ over = {}

\* The slot is free; kept for the call someone stepped away for, if any.
Take(c) ==
    /\ slot = Nobody /\ c \notin over
    /\ parkedFor \in {Nobody, c}
    /\ slot' = c
    /\ UNCHANGED <<parked, parkedFor, over>>

\* Put out, for another's sake: only from the slot, and nobody stepped away.
PutOut(c) ==
    /\ slot = c /\ c \notin Callers
    /\ parked = Nobody
    /\ slot' = Nobody
    /\ UNCHANGED <<parked, parkedFor, over>>

\* c steps away for the call d.
StepAway(c, d) ==
    /\ slot = c /\ c \notin over \cup Callers
    /\ d \in Callers \ over
    /\ parked = Nobody
    /\ slot' = Nobody
    /\ parked' = c
    /\ parkedFor' = d
    /\ UNCHANGED over

\* c's session ends.  Whoever stepped away for it is back at once.
Leave(c) ==
    /\ c \notin over
    /\ over' = over \cup {c}
    /\ IF c = parkedFor
       THEN slot' = parked
       ELSE slot' = IF slot = c THEN Nobody ELSE slot
    /\ IF c \in {parked, parkedFor}
       THEN parked' = Nobody /\ parkedFor' = Nobody
       ELSE UNCHANGED <<parked, parkedFor>>

Next ==
    \E c \in Sessions :
        \/ Take(c) \/ PutOut(c) \/ Leave(c)
        \/ \E d \in Callers : StepAway(c, d)

Spec == Init /\ [][Next]_<<slot, parked, parkedFor, over>>

=============================================================================
