-------------------------- MODULE SessionArbiterInv --------------------------
(***************************************************************************)
(* Why the session arbiter is right: what is true between any two of its   *)
(* steps, strong enough to carry itself from one step to the next.         *)
(***************************************************************************)
EXTENDS SessionArbiter, FiniteSets

PendingCalls == {c \in Calls : Asking(c)}

Live(c) == c \notin released /\ (Asking(c) \/ pc[c] = "granted")

\* The places where a call has the conversation on[c] step aside for it.
SteppingAside == {"asking", "holding", "heldOk", "heldFailed", "endingUnheld"}

\* The counter counts the calls inside acquire().
Counted ==
    /\ IsFiniteSet(PendingCalls)
    /\ callsWaiting = Cardinality(PendingCalls)

\* The lock's owner is the one claim inside, and it waits on a session that
\* was granted the slot before it.
LockInv ==
    /\ \A c \in Claims : pc[c] \in Inside <=> owner = c
    /\ \A c \in Claims : pc[c] \in Inside => on[c] \in Claims /\ pc[on[c]] = "granted"
    /\ \A c \in Claims : pc[c] \in SteppingAside =>
            c \in Calls /\ on[c] \in Talks \cup Rooms
    /\ \A c \in Claims : pc[c] = "ending" => on[c] \in Talks \cup Rooms

\* One call at a time; only what was granted (or a call that asked) is over.
CallsInv ==
    /\ \A c, d \in Calls : Asking(c) /\ Live(d) => c = d
    /\ \A c, d \in Calls : Live(c) /\ Live(d) => c = d
    /\ \A c \in released : pc[c] = "granted" \/ c \in Calls
    /\ \A c \in Calls : pc[c] = "idle" => c \notin released

\* The slot, and the conversation beside it.
SlotInv ==
    /\ holder # None => /\ pc[holder] = "granted"
                        /\ holder \notin released \cup overrun
    /\ held # None <=> heldFor # None
    /\ held # None => /\ pc[held] = "granted"
                      /\ held \notin released \cup overrun
                      /\ heldFor \notin released
                      /\ \/ holder = heldFor
                         \/ /\ holder = None /\ on[heldFor] = held
                            /\ pc[heldFor] \in {"holding", "heldOk"}
    /\ \A c \in Claims :
            pc[c] = "granted" /\ c \notin released => c \in {holder, held} \cup overrun
    /\ using \ overrun \subseteq {holder}

\* The holds and the resumes in flight: of conversations that were granted
\* the slot; one whose session is not over has the slot until hold() returns.
HoldInv ==
    /\ \A h \in resuming : h = holder \/ h \in released
    /\ \A h \in Claims : hold[h] # "no" =>
            /\ h \in Talks \cup Rooms /\ pc[h] = "granted"
            /\ holdFor[h] \in Calls
            /\ holdFor[h] \notin released =>
                    pc[holdFor[h]] = "holding" /\ on[holdFor[h]] = h
    /\ \A h \in Claims : hold[h] = "line" =>
            h \in released \/ (h = holder /\ h \notin resuming)

\* The ends in flight, and those who outstayed one.
EndInv ==
    /\ \A h \in Claims : ending[h] # "no" => h \in Talks \cup Rooms /\ pc[h] = "granted"
    /\ \A h \in Claims : ending[h] \in {"telling", "waiting"} =>
            h \in released \/ (h = holder /\ h \notin resuming /\ hold[h] = "no")
    /\ \A h \in Claims : ending[h] = "settling" => h \in released \cup overrun
    /\ overrun \subseteq {h \in Talks \cup Rooms : pc[h] = "granted"}

\* What the claim inside the lock may count on about the slot.
AcquireInv ==
    /\ \A c \in Claims : pc[c] = "asking" =>
            /\ TaskOf(on[c]) = "no"
            /\ on[c] = holder \/ (on[c] \in released /\ holder = None)
    /\ \A c \in Claims : pc[c] = "holding" =>
            /\ hold[on[c]] # "no" /\ holdFor[on[c]] = c
            /\ hold[on[c]] = "line" =>
                    on[c] = holder \/ (on[c] \in released /\ holder = None)
            /\ hold[on[c]] = "settling" /\ c \notin released => holder = None
    /\ \A c \in Claims : pc[c] = "heldOk" /\ c \notin released => holder = None
    /\ \A c \in Claims : pc[c] = "heldFailed" =>
            \/ on[c] = holder /\ TaskOf(on[c]) = "no"
            \/ on[c] \in released /\ holder = None
    /\ \A c \in Claims : pc[c] \in {"endingUnheld", "ending"} =>
            \/ holder = None
            \/ holder = on[c] /\ ending[on[c]] \in {"telling", "waiting"}

\* Where a claim is once a holder was ended or put on hold for it: on its way
\* to the slot, past every refusal, or over without one.
TouchedInv ==
    \A c \in touched : pc[c] \in {"holding", "heldOk", "heldFailed", "endingUnheld", "ending",
                                 "granted", "stillborn", "abandoned"}

Inv ==
    /\ TypeOK
    /\ Counted
    /\ LockInv
    /\ CallsInv
    /\ SlotInv
    /\ HoldInv
    /\ EndInv
    /\ AcquireInv

=============================================================================
