--------------------------- MODULE SessionArbiter ---------------------------
(***************************************************************************)
(* The session arbiter (brain/teaport_brain/session_arbiter.py): one       *)
(* speech engine, one conversation at a time.  Every front-end builds a    *)
(* Claim and asks for the slot with acquire(); the arbiter refuses it, or  *)
(* ends the session that holds the slot, or -- a phone call coming in on a *)
(* conversation -- has the people in it asked, puts the conversation on    *)
(* hold beside the slot, and brings it back when the call is over.         *)
(*                                                                         *)
(* One step is what asyncio runs between two awaits.  A claim is used      *)
(* once, as in the code; its client comes back with a new one.             *)
(***************************************************************************)
EXTENDS Naturals, SequencesExt

CONSTANTS
    Talks,      \* the claims of /talk clients
    Rooms,      \* the claims of the room microphone
    Calls,      \* the claims of phone calls
    None,       \* no claim
    Client      \* [Claims -> the client's identity, or None when it sent none]

Claims == Talks \cup Rooms \cup Calls

ASSUME ClaimsAssumption ==
    /\ None \notin Claims
    /\ Talks \cap Rooms = {}
    /\ Talks \cap Calls = {}
    /\ Rooms \cap Calls = {}
    /\ \A c, d \in Calls : Client[c] = Client[d]    \* "sip", for every call

VARIABLES
    pc,         \* where each claim's acquire() stands, and its outcome
    on,         \* the holder whose task (or answer) that acquire() awaits
    owner,      \* the claim inside the lock, or None
    line,       \* the claims waiting for the lock, first in first out
    callsWaiting,   \* calls inside acquire()
    holder,     \* the claim that has the slot, or None
    held,       \* the conversation on hold beside it, or None
    heldFor,    \* the call it is held for, or None
    ending,     \* the end in flight of each claim, by phase
    hold,       \* the hold in flight of each claim, by phase
    holdFor,    \* the call that hold is for
    resuming,   \* the claims whose resume() is in flight
    answer,     \* what the people asked have said, while a question is open
    answered,   \* the calls whose caller is connected
    released,   \* the claims whose session is over
    using,      \* the sessions that have (or are opening) an engine session
    overrun,    \* the sessions that did not let go within END_WAIT_SECS
    away,       \* the conversations whose hold() began and resume() did not run
    touched     \* the claims for which a holder was ended or put on hold

lockVars == <<pc, on, owner, line, callsWaiting>>
slotVars == <<holder, held, heldFor>>
taskVars == <<ending, hold, holdFor, resuming>>
sessionVars == <<released, using, overrun, away>>
vars == <<lockVars, slotVars, taskVars, answer, answered, sessionVars, touched>>

-----------------------------------------------------------------------------
(* Where an acquire() is.                                                  *)

\* Waiting out a task of the holder before deciding.
WaitingOut == {"waitEnding", "waitHolding", "waitResuming"}

\* Inside the lock.
Inside == WaitingOut \cup
          {"asking", "holding", "heldOk", "heldFailed", "endingUnheld", "ending"}

\* acquire() has been entered and has not returned.
Pending == Inside \cup {"queued"}

Outcomes == {"granted", "refused", "declined", "stillborn", "abandoned"}

Asking(c) == pc[c] \in Pending

Init ==
    /\ pc = [c \in Claims |-> "idle"]
    /\ on = [c \in Claims |-> None]
    /\ owner = None
    /\ line = <<>>
    /\ callsWaiting = 0
    /\ holder = None
    /\ held = None
    /\ heldFor = None
    /\ ending = [c \in Claims |-> "no"]
    /\ hold = [c \in Claims |-> "no"]
    /\ holdFor = [c \in Claims |-> None]
    /\ resuming = {}
    /\ answer = "none"
    /\ answered = {}
    /\ released = {}
    /\ using = {}
    /\ overrun = {}
    /\ away = {}
    /\ touched = {}

-----------------------------------------------------------------------------
(* The policy.                                                             *)

\* What a claim's predicates say when decide() reads them: the front-end's
\* asleep, gone and can_ask callbacks.  A Talk session never sleeps; a call's
\* claim gives no predicate, so it is never asleep, gone or askable.
Views(h) ==
    [asleep: IF h \in Rooms THEN BOOLEAN ELSE {FALSE},
     gone: IF h \in Talks \cup Rooms THEN BOOLEAN ELSE {FALSE},
     askable: IF h \in Talks \cup Rooms THEN BOOLEAN ELSE {FALSE}]

SameKind(c, d) ==
    \E K \in {Talks, Rooms, Calls} : c \in K /\ d \in K

\* decide(): "free", why the holder is ended, "prompt", or "refused".
decide(h, new, view) ==
    IF h = None THEN "free"
    ELSE IF view.gone THEN "reaped"
    ELSE IF Client[new] # None /\ Client[new] = Client[h] /\ SameKind(h, new)
         THEN "replaced"
    ELSE IF view.asleep
         THEN IF new \in Calls THEN "callin"
              ELSE IF new \in Talks THEN "taken" ELSE "refused"
    ELSE IF new \in Calls /\ h \notin Calls
         THEN IF view.askable THEN "prompt"
              ELSE IF h \in Talks THEN "callin" ELSE "refused"
    ELSE "refused"

\* Slip: a hold under way is not waited out.
TaskOfButHolds(h) ==
    IF ending[h] # "no" THEN "waitEnding"
    ELSE IF h \in resuming THEN "waitResuming"
    ELSE "no"

\* The task of h that a newcomer waits out, in the order the code looks.
TaskOf(h) ==
    IF ending[h] # "no" THEN "waitEnding"
    ELSE IF hold[h] # "no" THEN "waitHolding"
    ELSE IF h \in resuming THEN "waitResuming"
    ELSE "no"

HolderIsBusy == holder # None /\ TaskOf(holder) # "no"

TaskOver(c) ==
    \/ pc[c] = "waitEnding" /\ ending[on[c]] = "no"
    \/ pc[c] = "waitHolding" /\ hold[on[c]] = "no"
    \/ pc[c] = "waitResuming" /\ on[c] \notin resuming

-----------------------------------------------------------------------------
(* Pieces the steps are made of.                                           *)

\* Slip: every return is counted out, a call's or not.
ReturnCountingAll(c, outcome) ==
    /\ pc' = [pc EXCEPT ![c] = outcome]
    /\ on' = [on EXCEPT ![c] = None]
    /\ owner' = None
    /\ callsWaiting' = callsWaiting - 1

\* acquire() returns with this outcome: out of the lock, and counted out.
Return(c, outcome) ==
    /\ pc' = [pc EXCEPT ![c] = outcome]
    /\ on' = [on EXCEPT ![c] = None]
    /\ owner' = None
    /\ callsWaiting' = IF c \in Calls THEN callsWaiting - 1 ELSE callsWaiting

\* acquire() goes on to this place, for (or with a task of) claim h.
GoOn(c, place, h) ==
    /\ pc' = [pc EXCEPT ![c] = place]
    /\ on' = [on EXCEPT ![c] = h]
    /\ owner' = c
    /\ UNCHANGED callsWaiting

\* Slip: what was held is forgotten, and never put back.
ResumeNobody(h, p, over) ==
    /\ held' = None
    /\ heldFor' = None
    /\ holder' = h
    /\ UNCHANGED resuming
    /\ using' = using \ over

\* _resume_held() with h in the slot: the conversation p on hold, if any, has
\* it back at once and its resume() starts -- unless its session is over.
ResumeHeld(h, p, over) ==
    LET back == p # None /\ p \notin over IN
    /\ held' = None
    /\ heldFor' = None
    /\ holder' = IF back THEN p ELSE h
    /\ resuming' = IF back THEN resuming \cup {p} ELSE resuming
    /\ using' = (IF back THEN using \cup {p} ELSE using) \ over

\* Slip: only the end of the slot's holder brings the held one back.
ReleaseHolderOnly(c) ==
    /\ released' = released \cup {c}
    /\ IF holder = c
       THEN ResumeHeld(None, IF held = c THEN None ELSE held, released \cup {c})
       ELSE /\ held' = IF held = c THEN None ELSE held
            /\ heldFor' = IF held = c THEN None ELSE heldFor
            /\ using' = using \ {c}
            /\ UNCHANGED <<holder, resuming>>

\* release(c): the session c is over.  What was held for it comes back, when
\* c had the slot or the slot is free for a call that never got it.
ReleaseClaim(c) ==
    /\ released' = released \cup {c}
    /\ IF holder = c \/ (heldFor = c /\ held # c /\ holder = None)
       THEN ResumeHeld(None, IF held = c THEN None ELSE held, released \cup {c})
       ELSE /\ held' = IF held = c THEN None ELSE held
            /\ heldFor' = IF held = c THEN None ELSE heldFor
            /\ using' = using \ {c}
            /\ UNCHANGED <<holder, resuming>>

\* _end(h, why): one task per holder, however many newcomers ask for it.
StartEnding(h, c) ==
    /\ ending' = IF ending[h] = "no" THEN [ending EXCEPT ![h] = "telling"] ELSE ending
    /\ touched' = touched \cup {c}

\* _hold(h, c): the task that puts h on hold for the call c.
StartHolding(h, c) ==
    /\ hold' = [hold EXCEPT ![h] = "line"]
    /\ holdFor' = [holdFor EXCEPT ![h] = c]
    /\ away' = away \cup {h}
    /\ touched' = touched \cup {c}

\* The newcomer is in; its session opens its engine session.
Grant(c) ==
    /\ holder' = c
    /\ using' = using \cup {c}
    /\ Return(c, "granted")

\* The slot is free for c -- or c ended while it waited, and never holds it.
Settle(c) ==
    \/ /\ c \notin released
       /\ Grant(c)
       /\ UNCHANGED <<held, heldFor, resuming>>
    \/ /\ c \in released
       /\ ResumeHeld(holder, held, released)
       /\ Return(c, "stillborn")

\* The holder h is ended for c, which waits for it at this place.
EndHolder(c, h, place) ==
    /\ StartEnding(h, c)
    /\ GoOn(c, place, h)
    /\ UNCHANGED <<slotVars, hold, holdFor, resuming, sessionVars, answer>>

\* The holder h is put on hold for the call c.
HoldHolder(c, h) ==
    /\ StartHolding(h, c)
    /\ GoOn(c, "holding", h)
    /\ UNCHANGED <<slotVars, ending, resuming, released, using, overrun>>

\* decide() has spoken: what acquire() does about it.
Judge(c, why) ==
    \/ /\ why = "free"
       /\ Settle(c)
       /\ UNCHANGED <<ending, hold, holdFor, released, overrun, away, answer, touched>>
    \/ /\ why = "refused"
       /\ Return(c, "refused")
       /\ UNCHANGED <<slotVars, taskVars, sessionVars, answer, touched>>
    \/ /\ why \in {"reaped", "replaced", "taken", "callin"}
       /\ EndHolder(c, holder, "ending")
    \/ /\ why = "prompt" /\ c \in answered   \* connected already: taken, not asked
       /\ HoldHolder(c, holder)
       /\ UNCHANGED answer
    \/ /\ why = "prompt" /\ c \notin answered
       /\ GoOn(c, "asking", holder)
       /\ answer' = "none"
       /\ UNCHANGED <<slotVars, taskVars, sessionVars, touched>>

\* The loop at the top of _acquire(): wait out what is under way for the
\* holder, then decide against whoever holds the slot by then.
Meet(c) ==
    \/ /\ HolderIsBusy
       /\ GoOn(c, TaskOf(holder), holder)
       /\ UNCHANGED <<slotVars, taskVars, sessionVars, answer, touched>>
    \/ /\ ~HolderIsBusy
       /\ \E view \in Views(holder) : Judge(c, decide(holder, c, view))

\* After the question or the hold: c ended meanwhile, or decide() once more --
\* and no second question.
SecondLook(c) ==
    IF c \in released
    THEN /\ ResumeHeld(holder, held, released)
         /\ Return(c, "stillborn")
         /\ UNCHANGED <<ending, hold, holdFor, released, overrun, away, answer, touched>>
    ELSE \E view \in Views(holder) :
            LET why == decide(holder, c, view) IN
            Judge(c, IF why = "prompt" THEN "refused" ELSE why)

-----------------------------------------------------------------------------
(* acquire(), step by step.                                                *)

\* Slip: a call asks while an earlier one still has its claim.
AskBesideACall(c) ==
    /\ pc[c] = "idle"
    /\ pc' = [pc EXCEPT ![c] = "queued"]
    /\ line' = Append(line, c)
    /\ callsWaiting' = IF c \in Calls THEN callsWaiting + 1 ELSE callsWaiting
    /\ UNCHANGED <<on, owner, slotVars, taskVars, answer, answered, sessionVars, touched>>

\* Slip: a call is counted once it is inside the lock only.
AskUncounted(c) ==
    /\ pc[c] = "idle"
    /\ c \in Calls => \A d \in Calls \ {c} :
                        ~Asking(d) /\ (pc[d] = "granted" => d \in released)
    /\ pc' = [pc EXCEPT ![c] = "queued"]
    /\ line' = Append(line, c)
    /\ UNCHANGED <<on, owner, slotVars, taskVars, callsWaiting, answer, answered,
                   sessionVars, touched>>

\* A front-end asks for the slot.  The SIP front-end lets one call ask or hold
\* at a time (its earlier calls' claims are let go before the next one asks).
Ask(c) ==
    /\ pc[c] = "idle"
    /\ c \in Calls => \A d \in Calls \ {c} :
                        ~Asking(d) /\ (pc[d] = "granted" => d \in released)
    /\ pc' = [pc EXCEPT ![c] = "queued"]
    /\ line' = Append(line, c)
    /\ callsWaiting' = IF c \in Calls THEN callsWaiting + 1 ELSE callsWaiting
    /\ UNCHANGED <<on, owner, slotVars, taskVars, answer, answered, sessionVars, touched>>

\* First in the line, and the lock is free.
Enter(c) ==
    /\ pc[c] = "queued" /\ owner = None
    /\ line # <<>> /\ Head(line) = c
    /\ line' = Tail(line)
    /\ Meet(c)
    /\ UNCHANGED answered

\* The task it waited out is over.
Wake(c) ==
    /\ TaskOver(c)
    /\ Meet(c)
    /\ UNCHANGED <<line, answered>>

\* Slip: the question has no deadline, and people who say nothing to it.
PeopleSilent(c) ==
    /\ pc[c] = "asking" /\ answer = "none"
    /\ UNCHANGED vars

\* The people in the conversation answer, or the question's deadline answers
\* for them, or the asking itself fails (taken, then).
PeopleAnswer(c) ==
    /\ pc[c] = "asking" /\ answer = "none"
    /\ answer' \in {"yes", "no", "failed"}
    /\ UNCHANGED <<lockVars, slotVars, taskVars, answered, sessionVars, touched>>

\* _ask(): over when there is an answer, when the caller got connected, or
\* when the holder let the slot go; whichever came first may not be the only
\* one true by the time this runs.
Taken(c) ==
    \/ c \in answered /\ on[c] \notin released
    \/ answer \in {"yes", "failed"}

AskEnds(c) ==
    /\ pc[c] = "asking"
    /\ answer # "none" \/ c \in answered \/ on[c] \in released
    /\ \/ /\ Taken(c)
          /\ HoldHolder(c, on[c])
          /\ answer' = "none"
       \/ /\ ~Taken(c) /\ answer = "no"
          /\ Return(c, "declined")
          /\ answer' = "none"
          /\ UNCHANGED <<slotVars, taskVars, sessionVars, touched>>
       \/ /\ ~Taken(c) /\ answer = "none"       \* the holder left while asked
          /\ SecondLook(c)
    /\ UNCHANGED <<line, answered>>

\* The hold ended without letting the engine go: the holder is ended instead.
EndUnheld(c) ==
    /\ pc[c] = "heldFailed"
    /\ EndHolder(c, on[c], "endingUnheld")
    /\ UNCHANGED <<line, answered>>

\* The hold is over, or the end that stood in for it.
Held(c) ==
    /\ \/ pc[c] = "heldOk"
       \/ pc[c] = "endingUnheld" /\ ending[on[c]] = "no"
    /\ SecondLook(c)
    /\ UNCHANGED <<line, answered>>

\* The holder that had to go is gone: the slot is taken.
TakeOver(c) ==
    /\ pc[c] = "ending" /\ ending[on[c]] = "no"
    /\ Settle(c)
    /\ UNCHANGED <<line, ending, hold, holdFor, answer, answered, released, overrun,
                   away, touched>>

-----------------------------------------------------------------------------
(* The tasks that run on whatever becomes of the acquire() that began them.*)

\* Slip: the holder is told, and nothing waits for it to let go.
ToldAndForgotten(h) ==
    /\ ending[h] = "telling"
    /\ ending' = [ending EXCEPT ![h] = "settling"]
    /\ holder' = IF holder = h THEN None ELSE holder
    /\ UNCHANGED <<lockVars, held, heldFor, hold, holdFor, resuming, answer, answered,
                   sessionVars, touched>>

\* _ending(): the front-end's end() has said and closed what it had to.
Told(h) ==
    /\ ending[h] = "telling"
    /\ ending' = [ending EXCEPT ![h] = "waiting"]
    /\ UNCHANGED <<lockVars, slotVars, hold, holdFor, resuming, answer, answered,
                   sessionVars, touched>>

\* _ending(): the holder has let go, or has not within END_WAIT_SECS; either
\* way it no longer has the slot.
LetGo(h) ==
    /\ ending[h] = "waiting"
    /\ ending' = [ending EXCEPT ![h] = "settling"]
    /\ overrun' = IF h \in released THEN overrun ELSE overrun \cup {h}
    /\ holder' = IF holder = h THEN None ELSE holder
    /\ UNCHANGED <<lockVars, held, heldFor, hold, holdFor, resuming, answer, answered,
                   released, using, away, touched>>

\* _ending(): SETTLE_SECS on, the engine has freed its slot.
EndSettled(h) ==
    /\ ending[h] = "settling"
    /\ ending' = [ending EXCEPT ![h] = "no"]
    /\ UNCHANGED <<lockVars, slotVars, hold, holdFor, resuming, answer, answered,
                   sessionVars, touched>>

\* The hold task of h ends with this result, which its acquire(), if it is
\* still there, reads next.
HoldOver(h, result) ==
    /\ hold' = [hold EXCEPT ![h] = "no"]
    /\ holdFor' = [holdFor EXCEPT ![h] = None]
    /\ pc' = [c \in Claims |-> IF pc[c] = "holding" /\ on[c] = h THEN result ELSE pc[c]]
    /\ UNCHANGED <<on, owner, line, callsWaiting>>

\* Slip: the call's own end is not looked at when hold() returns.
PutOnHoldBlindly(h) ==
    /\ hold[h] = "line" /\ h \notin released
    /\ held' = h
    /\ heldFor' = holdFor[h]
    /\ holder' = IF holder = h THEN None ELSE holder
    /\ using' = using \ {h}
    /\ hold' = [hold EXCEPT ![h] = "settling"]
    /\ UNCHANGED <<lockVars, holdFor, resuming>>
    /\ UNCHANGED <<ending, answer, answered, released, overrun, away, touched>>

\* Slip: the conversation on hold keeps the slot as well.
PutOnHoldInPlace(h) ==
    /\ hold[h] = "line" /\ h \notin released
    /\ held' = h
    /\ heldFor' = holdFor[h]
    /\ using' = using \ {h}
    /\ hold' = [hold EXCEPT ![h] = "settling"]
    /\ UNCHANGED <<lockVars, holder, holdFor, resuming>>
    /\ UNCHANGED <<ending, answer, answered, released, overrun, away, touched>>

\* _holding(): hold() returned, and the conversation is beside the slot --
\* or back in it at once, when the call it was for is gone already.
PutOnHold(h) ==
    /\ hold[h] = "line" /\ h \notin released
    /\ IF holdFor[h] \in released
       THEN /\ ResumeHeld(IF holder = h THEN None ELSE holder, h, released)
            /\ HoldOver(h, "heldOk")
       ELSE /\ held' = h
            /\ heldFor' = holdFor[h]
            /\ holder' = IF holder = h THEN None ELSE holder
            /\ using' = using \ {h}
            /\ hold' = [hold EXCEPT ![h] = "settling"]
            /\ UNCHANGED <<lockVars, holdFor, resuming>>
    /\ UNCHANGED <<ending, answer, answered, released, overrun, away, touched>>

\* _holding(): hold() returned, and the session had ended meanwhile.
HoldMoot(h) ==
    /\ hold[h] = "line" /\ h \in released
    /\ holder' = IF holder = h THEN None ELSE holder
    /\ HoldOver(h, "heldOk")
    /\ UNCHANGED <<held, heldFor, ending, resuming, answer, answered, sessionVars, touched>>

\* _holding(): hold() raised, or took longer than HOLD_WAIT_SECS.
HoldFails(h) ==
    /\ hold[h] = "line"
    /\ HoldOver(h, "heldFailed")
    /\ UNCHANGED <<slotVars, ending, resuming, answer, answered, sessionVars, touched>>

\* _holding(): SETTLE_SECS on.
HoldSettled(h) ==
    /\ hold[h] = "settling"
    /\ HoldOver(h, "heldOk")
    /\ UNCHANGED <<slotVars, ending, resuming, answer, answered, sessionVars, touched>>

\* _resuming(): the conversation is back (or could not come back, and its
\* session ends by itself).
Resumed(h) ==
    /\ h \in resuming
    /\ resuming' = resuming \ {h}
    /\ away' = away \ {h}
    /\ UNCHANGED <<lockVars, slotVars, ending, hold, holdFor, answer, answered,
                   released, using, overrun, touched>>

-----------------------------------------------------------------------------
(* What the sessions and the callers do.                                   *)

\* A session ends, by itself or told to: release().
Leave(c) ==
    /\ pc[c] = "granted" /\ c \notin released
    /\ ReleaseClaim(c)
    /\ UNCHANGED <<lockVars, ending, hold, holdFor, answer, answered, overrun, away, touched>>

\* The caller of a call that is asking gets connected.
GetConnected(c) ==
    /\ c \in Calls /\ Asking(c)
    /\ answered' = answered \cup {c}
    /\ UNCHANGED <<lockVars, slotVars, taskVars, answer, sessionVars, touched>>

\* A call is over while it asks: CallClaim.end() lets its claim go, acquire()
\* runs on.
HangUp(c) ==
    /\ c \in Calls /\ Asking(c) /\ c \notin released
    /\ ReleaseClaim(c)
    /\ UNCHANGED <<lockVars, ending, hold, holdFor, answer, answered, overrun, away, touched>>

\* Its acquire() is cancelled, wherever it is: CallClaim.start() lets it go.
Abandon(c) ==
    /\ c \in Calls /\ Asking(c)
    /\ pc' = [pc EXCEPT ![c] = "abandoned"]
    /\ on' = [on EXCEPT ![c] = None]
    /\ callsWaiting' = callsWaiting - 1
    /\ IF owner = c
       THEN owner' = None /\ UNCHANGED line
       ELSE /\ UNCHANGED owner
            /\ \E i \in DOMAIN line : line[i] = c /\ line' = RemoveAt(line, i)
    /\ answer' = IF pc[c] = "asking" THEN "none" ELSE answer
    /\ ReleaseClaim(c)
    /\ UNCHANGED <<ending, hold, holdFor, answered, overrun, away, touched>>

-----------------------------------------------------------------------------

Acquiring(c) ==
    \/ Enter(c) \/ Wake(c) \/ PeopleAnswer(c) \/ AskEnds(c)
    \/ EndUnheld(c) \/ Held(c) \/ TakeOver(c)

Running(h) ==
    \/ Told(h) \/ LetGo(h) \/ EndSettled(h)
    \/ PutOnHold(h) \/ HoldMoot(h) \/ HoldFails(h) \/ HoldSettled(h)
    \/ Resumed(h)

World(c) ==
    \/ Ask(c) \/ Leave(c) \/ GetConnected(c) \/ HangUp(c) \/ Abandon(c)

\* Every claim used and its session over.
AllOver ==
    /\ \A c \in Claims : pc[c] \in Outcomes /\ (pc[c] = "granted" => c \in released)
    /\ \A c \in Claims : ending[c] = "no" /\ hold[c] = "no"
    /\ resuming = {}
    /\ UNCHANGED vars

Next ==
    \/ \E c \in Claims : Acquiring(c) \/ Running(c) \/ World(c)
    \/ AllOver

Spec == Init /\ [][Next]_vars

\* Each acquire() and each task runs on: every wait in them is bounded (the
\* question by the prompt's deadline, the hold by HOLD_WAIT_SECS, the end by
\* END_WAIT_SECS, the lines a session says by their own limits).  Nothing says
\* that anyone asks, answers the phone, hangs up or leaves.
FairSpec ==
    /\ Spec
    /\ \A c \in Claims : WF_vars(Acquiring(c)) /\ WF_vars(Running(c))

-----------------------------------------------------------------------------
(* What must hold.                                                         *)

Phases == {"no", "telling", "waiting", "settling"}
HoldPhases == {"no", "line", "settling"}

\* The shape of the arbiter's state; callsWaiting never goes below zero.
TypeOK ==
    /\ pc \in [Claims -> {"idle"} \cup Pending \cup Outcomes]
    /\ on \in [Claims -> Claims \cup {None}]
    /\ owner \in Claims \cup {None}
    /\ line \in Seq(Claims)
    /\ callsWaiting \in Nat
    /\ holder \in Claims \cup {None}
    /\ held \in Talks \cup Rooms \cup {None}
    /\ heldFor \in Calls \cup {None}
    /\ ending \in [Claims -> Phases]
    /\ hold \in [Claims -> HoldPhases]
    /\ holdFor \in [Claims -> Calls \cup {None}]
    /\ resuming \in SUBSET Claims
    /\ answer \in {"none", "yes", "no", "failed"}
    /\ answered \in SUBSET Calls
    /\ released \in SUBSET Claims
    /\ using \in SUBSET Claims
    /\ overrun \in SUBSET Claims
    /\ away \in SUBSET Claims
    /\ touched \in SUBSET Claims

\* Two sessions never have the speech engine at once, but for one that was
\* ended and did not let go within END_WAIT_SECS.
EngineExclusive ==
    \A c, d \in using \ overrun : c = d

\* A session that was granted the slot and is not over is never running with
\* nobody knowing of it: it has the slot, or it is on hold beside it, or it
\* was ended and has outstayed END_WAIT_SECS.
NobodyStranded ==
    \A c \in Claims :
        pc[c] = "granted" /\ c \notin released => c \in {holder, held} \cup overrun

\* A conversation on hold is on hold for a call that is not over, and that has
\* the slot or is about to: so that the end of that call brings it back.
HeldForALiveCall ==
    held # None =>
        /\ held \notin released
        /\ heldFor \in Calls \ released
        /\ \/ holder = heldFor
           \/ holder = None /\ owner = heldFor /\ on[heldFor] = held

\* "A Refusal: not granted, and nothing was touched" (acquire): nobody was
\* ended or put on hold for a newcomer that is refused or declined.
RefusedTouchedNothing ==
    \A c \in touched : pc[c] \notin {"refused", "declined"}

\* The question is put only to the conversation that has the slot (or just
\* left it), never to one that is being ended, going on hold or coming back.
QuestionHasItsHolder ==
    \A c \in Claims : pc[c] = "asking" =>
        /\ on[c] = holder \/ on[c] \in released
        /\ TaskOf(on[c]) = "no"

\* What GET /session says to a room microphone that yielded to a call: a call
\* is on.  It stays so from the moment the call asks until it is refused or
\* over, with no gap between the room letting go and the call being granted.
StatusCall == (holder # None /\ holder \in Calls) \/ callsWaiting > 0

CallShows ==
    \A c \in Calls :
        Asking(c) \/ (pc[c] = "granted" /\ c \notin released) => StatusCall

\* Nobody takes the slot over the head of the one who has it: between two
\* holders the first has let go or was put out.
NoClobberStep ==
    holder # None /\ holder' \notin {None, holder} => holder \in released'

NoClobber == [][NoClobberStep]_vars

\* What is promised: every claim that asks is answered, whatever the others do
\* meanwhile: no wait in acquire() is for something that never comes.
Promises == Claims
AreDue == {c \in Claims : pc[c] = "queued"}
AreKept == {c \in Claims : pc[c] \in Outcomes}

\* "a caller who hangs up while the user hears "back in a moment" must not
\* leave the conversation half held" (_hold): a conversation whose hold began
\* is being held, is on hold, is coming back, or is being ended -- or the
\* acquire() that asked for the hold is there to end it.
NotHalfHeld ==
    \A h \in away \ released :
        \/ TaskOf(h) # "no"
        \/ held = h
        \/ h \in overrun
        \/ \E c \in Claims : pc[c] \in {"heldFailed", "endingUnheld"} /\ on[c] = h

\* The arbiter is one slot, as OneSlot has it.
Slot == INSTANCE OneSlot WITH
    Sessions <- Claims, Callers <- Calls, Nobody <- None,
    slot <- holder, parked <- held, parkedFor <- heldFor, over <- released

IsOneSlot == Slot!Spec

=============================================================================
