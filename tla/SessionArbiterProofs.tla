------------------------ MODULE SessionArbiterProofs ------------------------
(***************************************************************************)
(* What holds of the session arbiter for every set of claims: its          *)
(* inductive invariant Inv, one lemma per step of the specification, and   *)
(* the properties that follow from it.                                     *)
(***************************************************************************)
EXTENDS SessionArbiterInv, FiniteSetTheorems, TLAPS

-----------------------------------------------------------------------------
(* Lemmas about the pieces.                                                *)

\* Taking one element out of a sequence leaves a sequence over the same set.
LEMMA RemoveAtType ==
    ASSUME NEW S, NEW s \in Seq(S), NEW i \in DOMAIN s
    PROVE  RemoveAt(s, i) \in Seq(S)
  <1>1. SubSeq(s, 1, i - 1) \in Seq(S)
    OBVIOUS
  <1>2. SubSeq(s, i + 1, Len(s)) \in Seq(S)
    OBVIOUS
  <1>. QED BY <1>1, <1>2 DEF RemoveAt

\* What decide() may say, by who has the slot: a free slot is granted, only a
\* conversation is asked, and only for a call, and a call is put out for
\* nobody but another call.
LEMMA DecideFacts ==
    ASSUME NEW h \in Claims \cup {None}, NEW new \in Claims, NEW view \in Views(h)
    PROVE  /\ decide(h, new, view) = "free" <=> h = None
           /\ decide(h, new, view) = "prompt" => new \in Calls /\ h \in Talks \cup Rooms
           /\ decide(h, new, view) \in {"reaped", "replaced", "taken", "callin"} =>
                    h # None /\ (h \in Calls => new \in Calls)
  BY ClaimsAssumption DEF Claims, decide, Views, SameKind

\* One more call inside acquire(), counted in.
LEMMA CountIn ==
    ASSUME Counted, NEW c, c \notin PendingCalls,
           PendingCalls' = PendingCalls \cup {c}, callsWaiting' = callsWaiting + 1
    PROVE  Counted'
  BY FS_AddElement DEF Counted

\* One call fewer, counted out; the counter stays a natural number.
LEMMA CountOut ==
    ASSUME Counted, NEW c \in PendingCalls,
           PendingCalls' = PendingCalls \ {c}, callsWaiting' = callsWaiting - 1
    PROVE  Counted' /\ callsWaiting' \in Nat
  <1>1. Counted'
    BY FS_RemoveElement DEF Counted
  <1>. QED BY <1>1, FS_CardinalityType DEF Counted

\* An acquire() that returns is counted out.
LEMMA ReturnCounts ==
    ASSUME TypeOK, Counted, NEW c \in Claims, Asking(c),
           NEW outcome \in Outcomes, Return(c, outcome)
    PROVE  Counted' /\ callsWaiting' \in Nat
  <1>. USE DEF TypeOK, Return, Pending, Inside, WaitingOut, Outcomes, Asking, PendingCalls
  <1>1. CASE c \in Calls
    <2>1. c \in PendingCalls /\ PendingCalls' = PendingCalls \ {c}
      BY <1>1 DEF Claims
    <2>. QED BY <1>1, <2>1, CountOut
  <1>2. CASE c \notin Calls
    <2>1. PendingCalls' = PendingCalls
      BY <1>2 DEF Claims
    <2>. QED BY <1>2, <2>1 DEF Counted
  <1>. QED BY <1>1, <1>2

\* An acquire() that goes on is still counted.
LEMMA GoOnCounts ==
    ASSUME TypeOK, Counted, NEW c \in Claims, Asking(c), NEW h,
           NEW place \in Inside, GoOn(c, place, h)
    PROVE  Counted'
  <1>1. PendingCalls' = PendingCalls
    BY DEF TypeOK, GoOn, Pending, Inside, WaitingOut, Outcomes, Asking, PendingCalls, Claims
  <1>. QED BY <1>1 DEF Counted, GoOn

\* The initial state.
LEMMA InitInv == Init => Inv
  <1>. SUFFICES ASSUME Init PROVE Inv
    OBVIOUS
  <1>. USE ClaimsAssumption DEF Init, Claims, Pending, Inside, WaitingOut, Outcomes,
            SteppingAside, Asking, Live
  <1>1. TypeOK
    BY DEF TypeOK, Phases, HoldPhases
  <1>2. Counted
    <2>1. PendingCalls = {}
      BY DEF PendingCalls
    <2>. QED BY <2>1, FS_EmptySet DEF Counted
  <1>3. LockInv /\ CallsInv /\ SlotInv /\ HoldInv /\ EndInv /\ AcquireInv
    BY DEF LockInv, CallsInv, SlotInv, HoldInv, EndInv, AcquireInv
  <1>. QED BY <1>1, <1>2, <1>3 DEF Inv

-----------------------------------------------------------------------------
(* The tasks.                                                              *)

\* Told(h): the front-end has told the session that is to go.
LEMMA ToldInv ==
    ASSUME Inv, NEW h \in Claims, Told(h)
    PROVE  Inv'
  <1>. USE ClaimsAssumption DEF Inv, Told,
            Claims, Pending, Inside, WaitingOut, Outcomes, SteppingAside, Asking, Live,
            lockVars, slotVars, taskVars, sessionVars
  <1>1. TypeOK'
    BY DEF TypeOK, LockInv, SlotInv, HoldInv, EndInv, Phases, HoldPhases
  <1>2. Counted'
    <2>1. PendingCalls' = PendingCalls
      BY DEF TypeOK, LockInv, PendingCalls
    <2>. QED BY <2>1 DEF Counted
  <1>3. LockInv'
    BY DEF TypeOK, LockInv, CallsInv, SlotInv, HoldInv, EndInv, AcquireInv, TaskOf,
            Phases, HoldPhases
  <1>4. CallsInv'
    BY DEF TypeOK, LockInv, CallsInv, SlotInv, HoldInv, EndInv, AcquireInv, TaskOf,
            Phases, HoldPhases
  <1>5. SlotInv'
    BY DEF TypeOK, LockInv, CallsInv, SlotInv, HoldInv, EndInv, AcquireInv, TaskOf,
            Phases, HoldPhases
  <1>6. HoldInv'
    BY DEF TypeOK, LockInv, CallsInv, SlotInv, HoldInv, EndInv, AcquireInv, TaskOf,
            Phases, HoldPhases
  <1>7. EndInv'
    BY DEF TypeOK, LockInv, CallsInv, SlotInv, HoldInv, EndInv, AcquireInv, TaskOf,
            Phases, HoldPhases
  <1>8. AcquireInv'
    BY DEF TypeOK, LockInv, CallsInv, SlotInv, HoldInv, EndInv, AcquireInv, TaskOf,
            Phases, HoldPhases
  <1>. QED BY <1>1, <1>2, <1>3, <1>4, <1>5, <1>6, <1>7, <1>8 DEF Inv

\* LetGo(h): the slot is taken from the session being ended.
LEMMA LetGoInv ==
    ASSUME Inv, NEW h \in Claims, LetGo(h)
    PROVE  Inv'
  <1>. USE ClaimsAssumption DEF Inv, LetGo,
            Claims, Pending, Inside, WaitingOut, Outcomes, SteppingAside, Asking, Live,
            lockVars, slotVars, taskVars, sessionVars
  <1>1. TypeOK'
    BY DEF TypeOK, LockInv, SlotInv, HoldInv, EndInv, Phases, HoldPhases
  <1>2. Counted'
    <2>1. PendingCalls' = PendingCalls
      BY DEF TypeOK, LockInv, PendingCalls
    <2>. QED BY <2>1 DEF Counted
  <1>3. LockInv'
    BY DEF TypeOK, LockInv, CallsInv, SlotInv, HoldInv, EndInv, AcquireInv, TaskOf,
            Phases, HoldPhases
  <1>4. CallsInv'
    BY DEF TypeOK, LockInv, CallsInv, SlotInv, HoldInv, EndInv, AcquireInv, TaskOf,
            Phases, HoldPhases
  <1>5. SlotInv'
    BY DEF TypeOK, LockInv, CallsInv, SlotInv, HoldInv, EndInv, AcquireInv, TaskOf,
            Phases, HoldPhases
  <1>6. HoldInv'
    BY DEF TypeOK, LockInv, CallsInv, SlotInv, HoldInv, EndInv, AcquireInv, TaskOf,
            Phases, HoldPhases
  <1>7. EndInv'
    BY DEF TypeOK, LockInv, CallsInv, SlotInv, HoldInv, EndInv, AcquireInv, TaskOf,
            Phases, HoldPhases
  <1>8. AcquireInv'
    BY DEF TypeOK, LockInv, CallsInv, SlotInv, HoldInv, EndInv, AcquireInv, TaskOf,
            Phases, HoldPhases
  <1>. QED BY <1>1, <1>2, <1>3, <1>4, <1>5, <1>6, <1>7, <1>8 DEF Inv

\* EndSettled(h): an end is over.
LEMMA EndSettledInv ==
    ASSUME Inv, NEW h \in Claims, EndSettled(h)
    PROVE  Inv'
  <1>. USE ClaimsAssumption DEF Inv, EndSettled,
            Claims, Pending, Inside, WaitingOut, Outcomes, SteppingAside, Asking, Live,
            lockVars, slotVars, taskVars, sessionVars
  <1>1. TypeOK'
    BY DEF TypeOK, LockInv, SlotInv, HoldInv, EndInv, Phases, HoldPhases
  <1>2. Counted'
    <2>1. PendingCalls' = PendingCalls
      BY DEF TypeOK, LockInv, PendingCalls
    <2>. QED BY <2>1 DEF Counted
  <1>3. LockInv'
    BY DEF TypeOK, LockInv, CallsInv, SlotInv, HoldInv, EndInv, AcquireInv, TaskOf,
            Phases, HoldPhases
  <1>4. CallsInv'
    BY DEF TypeOK, LockInv, CallsInv, SlotInv, HoldInv, EndInv, AcquireInv, TaskOf,
            Phases, HoldPhases
  <1>5. SlotInv'
    BY DEF TypeOK, LockInv, CallsInv, SlotInv, HoldInv, EndInv, AcquireInv, TaskOf,
            Phases, HoldPhases
  <1>6. HoldInv'
    BY DEF TypeOK, LockInv, CallsInv, SlotInv, HoldInv, EndInv, AcquireInv, TaskOf,
            Phases, HoldPhases
  <1>7. EndInv'
    BY DEF TypeOK, LockInv, CallsInv, SlotInv, HoldInv, EndInv, AcquireInv, TaskOf,
            Phases, HoldPhases
  <1>8. AcquireInv'
    BY DEF TypeOK, LockInv, CallsInv, SlotInv, HoldInv, EndInv, AcquireInv, TaskOf,
            Phases, HoldPhases
  <1>. QED BY <1>1, <1>2, <1>3, <1>4, <1>5, <1>6, <1>7, <1>8 DEF Inv

\* HoldSettled(h): a hold is over.
LEMMA HoldSettledInv ==
    ASSUME Inv, NEW h \in Claims, HoldSettled(h)
    PROVE  Inv'
  <1>. USE ClaimsAssumption DEF Inv, HoldSettled, HoldOver,
            Claims, Pending, Inside, WaitingOut, Outcomes, SteppingAside, Asking, Live,
            lockVars, slotVars, taskVars, sessionVars
  <1>1. TypeOK'
    BY DEF TypeOK, LockInv, SlotInv, HoldInv, EndInv, Phases, HoldPhases
  <1>2. Counted'
    <2>1. PendingCalls' = PendingCalls
      BY DEF TypeOK, LockInv, PendingCalls
    <2>. QED BY <2>1 DEF Counted
  <1>3. LockInv'
    BY DEF TypeOK, LockInv, CallsInv, SlotInv, HoldInv, EndInv, AcquireInv, TaskOf,
            Phases, HoldPhases
  <1>4. CallsInv'
    BY DEF TypeOK, LockInv, CallsInv, SlotInv, HoldInv, EndInv, AcquireInv, TaskOf,
            Phases, HoldPhases
  <1>5. SlotInv'
    BY DEF TypeOK, LockInv, CallsInv, SlotInv, HoldInv, EndInv, AcquireInv, TaskOf,
            Phases, HoldPhases
  <1>6. HoldInv'
    BY DEF TypeOK, LockInv, CallsInv, SlotInv, HoldInv, EndInv, AcquireInv, TaskOf,
            Phases, HoldPhases
  <1>7. EndInv'
    BY DEF TypeOK, LockInv, CallsInv, SlotInv, HoldInv, EndInv, AcquireInv, TaskOf,
            Phases, HoldPhases
  <1>8. AcquireInv'
    BY DEF TypeOK, LockInv, CallsInv, SlotInv, HoldInv, EndInv, AcquireInv, TaskOf,
            Phases, HoldPhases
  <1>. QED BY <1>1, <1>2, <1>3, <1>4, <1>5, <1>6, <1>7, <1>8 DEF Inv

\* HoldFails(h): a hold came to nothing.
LEMMA HoldFailsInv ==
    ASSUME Inv, NEW h \in Claims, HoldFails(h)
    PROVE  Inv'
  <1>. USE ClaimsAssumption DEF Inv, HoldFails, HoldOver,
            Claims, Pending, Inside, WaitingOut, Outcomes, SteppingAside, Asking, Live,
            lockVars, slotVars, taskVars, sessionVars
  <1>1. TypeOK'
    BY DEF TypeOK, LockInv, SlotInv, HoldInv, EndInv, Phases, HoldPhases
  <1>2. Counted'
    <2>1. PendingCalls' = PendingCalls
      BY DEF TypeOK, LockInv, PendingCalls
    <2>. QED BY <2>1 DEF Counted
  <1>3. LockInv'
    BY DEF TypeOK, LockInv, CallsInv, SlotInv, HoldInv, EndInv, AcquireInv, TaskOf,
            Phases, HoldPhases
  <1>4. CallsInv'
    BY DEF TypeOK, LockInv, CallsInv, SlotInv, HoldInv, EndInv, AcquireInv, TaskOf,
            Phases, HoldPhases
  <1>5. SlotInv'
    BY DEF TypeOK, LockInv, CallsInv, SlotInv, HoldInv, EndInv, AcquireInv, TaskOf,
            Phases, HoldPhases
  <1>6. HoldInv'
    BY DEF TypeOK, LockInv, CallsInv, SlotInv, HoldInv, EndInv, AcquireInv, TaskOf,
            Phases, HoldPhases
  <1>7. EndInv'
    BY DEF TypeOK, LockInv, CallsInv, SlotInv, HoldInv, EndInv, AcquireInv, TaskOf,
            Phases, HoldPhases
  <1>8. AcquireInv'
    <2>1. h \in released \/ TaskOf(h)' = "no"
      BY DEF TypeOK, SlotInv, HoldInv, EndInv, TaskOf, Phases
    <2>. QED BY <2>1 DEF TypeOK, LockInv, CallsInv, SlotInv, HoldInv, EndInv, AcquireInv, TaskOf,
            Phases, HoldPhases
  <1>. QED BY <1>1, <1>2, <1>3, <1>4, <1>5, <1>6, <1>7, <1>8 DEF Inv

\* HoldMoot(h): the session ended while it was put on hold.
LEMMA HoldMootInv ==
    ASSUME Inv, NEW h \in Claims, HoldMoot(h)
    PROVE  Inv'
  <1>. USE ClaimsAssumption DEF Inv, HoldMoot, HoldOver,
            Claims, Pending, Inside, WaitingOut, Outcomes, SteppingAside, Asking, Live,
            lockVars, slotVars, taskVars, sessionVars
  <1>1. TypeOK'
    BY DEF TypeOK, LockInv, SlotInv, HoldInv, EndInv, Phases, HoldPhases
  <1>2. Counted'
    <2>1. PendingCalls' = PendingCalls
      BY DEF TypeOK, LockInv, PendingCalls
    <2>. QED BY <2>1 DEF Counted
  <1>3. LockInv'
    BY DEF TypeOK, LockInv, CallsInv, SlotInv, HoldInv, EndInv, AcquireInv, TaskOf,
            Phases, HoldPhases
  <1>4. CallsInv'
    BY DEF TypeOK, LockInv, CallsInv, SlotInv, HoldInv, EndInv, AcquireInv, TaskOf,
            Phases, HoldPhases
  <1>5. SlotInv'
    BY DEF TypeOK, LockInv, CallsInv, SlotInv, HoldInv, EndInv, AcquireInv, TaskOf,
            Phases, HoldPhases
  <1>6. HoldInv'
    BY DEF TypeOK, LockInv, CallsInv, SlotInv, HoldInv, EndInv, AcquireInv, TaskOf,
            Phases, HoldPhases
  <1>7. EndInv'
    BY DEF TypeOK, LockInv, CallsInv, SlotInv, HoldInv, EndInv, AcquireInv, TaskOf,
            Phases, HoldPhases
  <1>8. AcquireInv'
    BY DEF TypeOK, LockInv, CallsInv, SlotInv, HoldInv, EndInv, AcquireInv, TaskOf,
            Phases, HoldPhases
  <1>. QED BY <1>1, <1>2, <1>3, <1>4, <1>5, <1>6, <1>7, <1>8 DEF Inv

\* PutOnHold(h): the conversation is on hold, or back at once.
LEMMA PutOnHoldInv ==
    ASSUME Inv, NEW h \in Claims, PutOnHold(h)
    PROVE  Inv'
  <1>. USE ClaimsAssumption DEF Inv, PutOnHold, HoldOver, ResumeHeld,
            Claims, Pending, Inside, WaitingOut, Outcomes, SteppingAside, Asking, Live,
            lockVars, slotVars, taskVars, sessionVars
  <1>1. TypeOK'
    BY DEF TypeOK, LockInv, SlotInv, HoldInv, EndInv, Phases, HoldPhases
  <1>2. Counted'
    <2>1. PendingCalls' = PendingCalls
      BY DEF TypeOK, LockInv, PendingCalls
    <2>. QED BY <2>1 DEF Counted
  <1>3. LockInv'
    BY DEF TypeOK, LockInv, CallsInv, SlotInv, HoldInv, EndInv, AcquireInv, TaskOf,
            Phases, HoldPhases
  <1>4. CallsInv'
    BY DEF TypeOK, LockInv, CallsInv, SlotInv, HoldInv, EndInv, AcquireInv, TaskOf,
            Phases, HoldPhases
  <1>5. SlotInv'
    BY DEF TypeOK, LockInv, CallsInv, SlotInv, HoldInv, EndInv, AcquireInv, TaskOf,
            Phases, HoldPhases
  <1>6. HoldInv'
    BY DEF TypeOK, LockInv, CallsInv, SlotInv, HoldInv, EndInv, AcquireInv, TaskOf,
            Phases, HoldPhases
  <1>7. EndInv'
    BY DEF TypeOK, LockInv, CallsInv, SlotInv, HoldInv, EndInv, AcquireInv, TaskOf,
            Phases, HoldPhases
  <1>8. AcquireInv'
    BY DEF TypeOK, LockInv, CallsInv, SlotInv, HoldInv, EndInv, AcquireInv, TaskOf,
            Phases, HoldPhases
  <1>. QED BY <1>1, <1>2, <1>3, <1>4, <1>5, <1>6, <1>7, <1>8 DEF Inv

\* Resumed(h): a resume is over.
LEMMA ResumedInv ==
    ASSUME Inv, NEW h \in Claims, Resumed(h)
    PROVE  Inv'
  <1>. USE ClaimsAssumption DEF Inv, Resumed,
            Claims, Pending, Inside, WaitingOut, Outcomes, SteppingAside, Asking, Live,
            lockVars, slotVars, taskVars, sessionVars
  <1>1. TypeOK'
    BY DEF TypeOK, LockInv, SlotInv, HoldInv, EndInv, Phases, HoldPhases
  <1>2. Counted'
    <2>1. PendingCalls' = PendingCalls
      BY DEF TypeOK, LockInv, PendingCalls
    <2>. QED BY <2>1 DEF Counted
  <1>3. LockInv'
    BY DEF TypeOK, LockInv, CallsInv, SlotInv, HoldInv, EndInv, AcquireInv, TaskOf,
            Phases, HoldPhases
  <1>4. CallsInv'
    BY DEF TypeOK, LockInv, CallsInv, SlotInv, HoldInv, EndInv, AcquireInv, TaskOf,
            Phases, HoldPhases
  <1>5. SlotInv'
    BY DEF TypeOK, LockInv, CallsInv, SlotInv, HoldInv, EndInv, AcquireInv, TaskOf,
            Phases, HoldPhases
  <1>6. HoldInv'
    BY DEF TypeOK, LockInv, CallsInv, SlotInv, HoldInv, EndInv, AcquireInv, TaskOf,
            Phases, HoldPhases
  <1>7. EndInv'
    BY DEF TypeOK, LockInv, CallsInv, SlotInv, HoldInv, EndInv, AcquireInv, TaskOf,
            Phases, HoldPhases
  <1>8. AcquireInv'
    BY DEF TypeOK, LockInv, CallsInv, SlotInv, HoldInv, EndInv, AcquireInv, TaskOf,
            Phases, HoldPhases
  <1>. QED BY <1>1, <1>2, <1>3, <1>4, <1>5, <1>6, <1>7, <1>8 DEF Inv

-----------------------------------------------------------------------------
(* The sessions and the callers.                                           *)

\* Leave(c): a session is over.
LEMMA LeaveInv ==
    ASSUME Inv, NEW c \in Claims, Leave(c)
    PROVE  Inv'
  <1>. USE ClaimsAssumption DEF Inv, Leave, ReleaseClaim, ResumeHeld,
            Claims, Pending, Inside, WaitingOut, Outcomes, SteppingAside, Asking, Live,
            lockVars, slotVars, taskVars, sessionVars
  <1>1. TypeOK'
    BY DEF TypeOK, LockInv, SlotInv, HoldInv, EndInv, Phases, HoldPhases
  <1>2. Counted'
    <2>1. PendingCalls' = PendingCalls
      BY DEF TypeOK, LockInv, PendingCalls
    <2>. QED BY <2>1 DEF Counted
  <1>3. LockInv'
    BY DEF TypeOK, LockInv, CallsInv, SlotInv, HoldInv, EndInv, AcquireInv, TaskOf,
            Phases, HoldPhases
  <1>4. CallsInv'
    BY DEF TypeOK, LockInv, CallsInv, SlotInv, HoldInv, EndInv, AcquireInv, TaskOf,
            Phases, HoldPhases
  <1>5. SlotInv'
    BY DEF TypeOK, LockInv, CallsInv, SlotInv, HoldInv, EndInv, AcquireInv, TaskOf,
            Phases, HoldPhases
  <1>6. HoldInv'
    BY DEF TypeOK, LockInv, CallsInv, SlotInv, HoldInv, EndInv, AcquireInv, TaskOf,
            Phases, HoldPhases
  <1>7. EndInv'
    BY DEF TypeOK, LockInv, CallsInv, SlotInv, HoldInv, EndInv, AcquireInv, TaskOf,
            Phases, HoldPhases
  <1>8. AcquireInv'
    BY DEF TypeOK, LockInv, CallsInv, SlotInv, HoldInv, EndInv, AcquireInv, TaskOf,
            Phases, HoldPhases
  <1>. QED BY <1>1, <1>2, <1>3, <1>4, <1>5, <1>6, <1>7, <1>8 DEF Inv

\* GetConnected(c): a caller is connected.
LEMMA GetConnectedInv ==
    ASSUME Inv, NEW c \in Claims, GetConnected(c)
    PROVE  Inv'
  <1>. USE ClaimsAssumption DEF Inv, GetConnected,
            Claims, Pending, Inside, WaitingOut, Outcomes, SteppingAside, Asking, Live,
            lockVars, slotVars, taskVars, sessionVars
  <1>1. TypeOK'
    BY DEF TypeOK, LockInv, SlotInv, HoldInv, EndInv, Phases, HoldPhases
  <1>2. Counted'
    <2>1. PendingCalls' = PendingCalls
      BY DEF TypeOK, LockInv, PendingCalls
    <2>. QED BY <2>1 DEF Counted
  <1>3. LockInv'
    BY DEF TypeOK, LockInv, CallsInv, SlotInv, HoldInv, EndInv, AcquireInv, TaskOf,
            Phases, HoldPhases
  <1>4. CallsInv'
    BY DEF TypeOK, LockInv, CallsInv, SlotInv, HoldInv, EndInv, AcquireInv, TaskOf,
            Phases, HoldPhases
  <1>5. SlotInv'
    BY DEF TypeOK, LockInv, CallsInv, SlotInv, HoldInv, EndInv, AcquireInv, TaskOf,
            Phases, HoldPhases
  <1>6. HoldInv'
    BY DEF TypeOK, LockInv, CallsInv, SlotInv, HoldInv, EndInv, AcquireInv, TaskOf,
            Phases, HoldPhases
  <1>7. EndInv'
    BY DEF TypeOK, LockInv, CallsInv, SlotInv, HoldInv, EndInv, AcquireInv, TaskOf,
            Phases, HoldPhases
  <1>8. AcquireInv'
    BY DEF TypeOK, LockInv, CallsInv, SlotInv, HoldInv, EndInv, AcquireInv, TaskOf,
            Phases, HoldPhases
  <1>. QED BY <1>1, <1>2, <1>3, <1>4, <1>5, <1>6, <1>7, <1>8 DEF Inv

\* HangUp(c): a call is over while it asks.
LEMMA HangUpInv ==
    ASSUME Inv, NEW c \in Claims, HangUp(c)
    PROVE  Inv'
  <1>. USE ClaimsAssumption DEF Inv, HangUp, ReleaseClaim, ResumeHeld,
            Claims, Pending, Inside, WaitingOut, Outcomes, SteppingAside, Asking, Live,
            lockVars, slotVars, taskVars, sessionVars
  <1>1. TypeOK'
    BY DEF TypeOK, LockInv, SlotInv, HoldInv, EndInv, Phases, HoldPhases
  <1>2. Counted'
    <2>1. PendingCalls' = PendingCalls
      BY DEF TypeOK, LockInv, PendingCalls
    <2>. QED BY <2>1 DEF Counted
  <1>3. LockInv'
    BY DEF TypeOK, LockInv, CallsInv, SlotInv, HoldInv, EndInv, AcquireInv, TaskOf,
            Phases, HoldPhases
  <1>4. CallsInv'
    BY DEF TypeOK, LockInv, CallsInv, SlotInv, HoldInv, EndInv, AcquireInv, TaskOf,
            Phases, HoldPhases
  <1>5. SlotInv'
    BY DEF TypeOK, LockInv, CallsInv, SlotInv, HoldInv, EndInv, AcquireInv, TaskOf,
            Phases, HoldPhases
  <1>6. HoldInv'
    BY DEF TypeOK, LockInv, CallsInv, SlotInv, HoldInv, EndInv, AcquireInv, TaskOf,
            Phases, HoldPhases
  <1>7. EndInv'
    BY DEF TypeOK, LockInv, CallsInv, SlotInv, HoldInv, EndInv, AcquireInv, TaskOf,
            Phases, HoldPhases
  <1>8. AcquireInv'
    BY DEF TypeOK, LockInv, CallsInv, SlotInv, HoldInv, EndInv, AcquireInv, TaskOf,
            Phases, HoldPhases
  <1>. QED BY <1>1, <1>2, <1>3, <1>4, <1>5, <1>6, <1>7, <1>8 DEF Inv

\* Ask(c): a front-end asks for the slot.
LEMMA AskInv ==
    ASSUME Inv, NEW c \in Claims, Ask(c)
    PROVE  Inv'
  <1>. USE ClaimsAssumption DEF Inv, Ask,
            Claims, Pending, Inside, WaitingOut, Outcomes, SteppingAside, Asking, Live,
            lockVars, slotVars, taskVars, sessionVars
  <1>1. TypeOK'
    BY DEF TypeOK, LockInv, SlotInv, HoldInv, EndInv, Phases, HoldPhases
  <1>2. Counted'
    <2>1. CASE c \in Calls
      <3>1. c \notin PendingCalls /\ PendingCalls' = PendingCalls \cup {c}
        BY <2>1 DEF TypeOK, PendingCalls
      <3>. QED BY <2>1, <3>1, CountIn
    <2>2. CASE c \notin Calls
      <3>1. PendingCalls' = PendingCalls
        BY <2>2 DEF TypeOK, PendingCalls
      <3>. QED BY <2>2, <3>1 DEF Counted
    <2>. QED BY <2>1, <2>2
  <1>3. LockInv'
    BY DEF TypeOK, LockInv, CallsInv, SlotInv, HoldInv, EndInv, AcquireInv, TaskOf,
            Phases, HoldPhases
  <1>4. CallsInv'
    BY DEF TypeOK, LockInv, CallsInv, SlotInv, HoldInv, EndInv, AcquireInv, TaskOf,
            Phases, HoldPhases
  <1>5. SlotInv'
    BY DEF TypeOK, LockInv, CallsInv, SlotInv, HoldInv, EndInv, AcquireInv, TaskOf,
            Phases, HoldPhases
  <1>6. HoldInv'
    BY DEF TypeOK, LockInv, CallsInv, SlotInv, HoldInv, EndInv, AcquireInv, TaskOf,
            Phases, HoldPhases
  <1>7. EndInv'
    BY DEF TypeOK, LockInv, CallsInv, SlotInv, HoldInv, EndInv, AcquireInv, TaskOf,
            Phases, HoldPhases
  <1>8. AcquireInv'
    BY DEF TypeOK, LockInv, CallsInv, SlotInv, HoldInv, EndInv, AcquireInv, TaskOf,
            Phases, HoldPhases
  <1>. QED BY <1>1, <1>2, <1>3, <1>4, <1>5, <1>6, <1>7, <1>8 DEF Inv

\* Abandon(c): an acquire() is cancelled.
LEMMA AbandonInv ==
    ASSUME Inv, NEW c \in Claims, Abandon(c)
    PROVE  Inv'
  <1>. USE ClaimsAssumption DEF Inv, Abandon, ReleaseClaim, ResumeHeld,
            Claims, Pending, Inside, WaitingOut, Outcomes, SteppingAside, Asking, Live,
            lockVars, slotVars, taskVars, sessionVars
  <1>a. Counted' /\ callsWaiting' \in Nat
    <2>1. c \in PendingCalls /\ PendingCalls' = PendingCalls \ {c}
      BY DEF TypeOK, PendingCalls
    <2>. QED BY <2>1, CountOut
  <1>b. line' \in Seq(Claims)
    BY RemoveAtType DEF TypeOK
  <1>1. TypeOK'
    BY <1>a, <1>b DEF TypeOK, LockInv, SlotInv, HoldInv, EndInv, Phases, HoldPhases
  <1>2. Counted'
    BY <1>a
  <1>3. LockInv'
    BY DEF TypeOK, LockInv, CallsInv, SlotInv, HoldInv, EndInv, AcquireInv, TaskOf,
            Phases, HoldPhases
  <1>4. CallsInv'
    BY DEF TypeOK, LockInv, CallsInv, SlotInv, HoldInv, EndInv, AcquireInv, TaskOf,
            Phases, HoldPhases
  <1>5. SlotInv'
    BY DEF TypeOK, LockInv, CallsInv, SlotInv, HoldInv, EndInv, AcquireInv, TaskOf,
            Phases, HoldPhases
  <1>6. HoldInv'
    BY DEF TypeOK, LockInv, CallsInv, SlotInv, HoldInv, EndInv, AcquireInv, TaskOf,
            Phases, HoldPhases
  <1>7. EndInv'
    BY DEF TypeOK, LockInv, CallsInv, SlotInv, HoldInv, EndInv, AcquireInv, TaskOf,
            Phases, HoldPhases
  <1>8. AcquireInv'
    BY DEF TypeOK, LockInv, CallsInv, SlotInv, HoldInv, EndInv, AcquireInv, TaskOf,
            Phases, HoldPhases
  <1>. QED BY <1>1, <1>2, <1>3, <1>4, <1>5, <1>6, <1>7, <1>8 DEF Inv

-----------------------------------------------------------------------------
(* acquire().                                                              *)

\* PeopleAnswer(c): the question has its answer.
LEMMA PeopleAnswerInv ==
    ASSUME Inv, NEW c \in Claims, PeopleAnswer(c)
    PROVE  Inv'
  <1>. USE ClaimsAssumption DEF Inv, PeopleAnswer,
            Claims, Pending, Inside, WaitingOut, Outcomes, SteppingAside, Asking, Live,
            lockVars, slotVars, taskVars, sessionVars
  <1>1. TypeOK'
    BY DEF TypeOK, LockInv, SlotInv, HoldInv, EndInv, Phases, HoldPhases
  <1>2. Counted'
    <2>1. PendingCalls' = PendingCalls
      BY DEF TypeOK, LockInv, PendingCalls
    <2>. QED BY <2>1 DEF Counted
  <1>3. LockInv'
    BY DEF TypeOK, LockInv, CallsInv, SlotInv, HoldInv, EndInv, AcquireInv, TaskOf,
            Phases, HoldPhases
  <1>4. CallsInv'
    BY DEF TypeOK, LockInv, CallsInv, SlotInv, HoldInv, EndInv, AcquireInv, TaskOf,
            Phases, HoldPhases
  <1>5. SlotInv'
    BY DEF TypeOK, LockInv, CallsInv, SlotInv, HoldInv, EndInv, AcquireInv, TaskOf,
            Phases, HoldPhases
  <1>6. HoldInv'
    BY DEF TypeOK, LockInv, CallsInv, SlotInv, HoldInv, EndInv, AcquireInv, TaskOf,
            Phases, HoldPhases
  <1>7. EndInv'
    BY DEF TypeOK, LockInv, CallsInv, SlotInv, HoldInv, EndInv, AcquireInv, TaskOf,
            Phases, HoldPhases
  <1>8. AcquireInv'
    BY DEF TypeOK, LockInv, CallsInv, SlotInv, HoldInv, EndInv, AcquireInv, TaskOf,
            Phases, HoldPhases
  <1>. QED BY <1>1, <1>2, <1>3, <1>4, <1>5, <1>6, <1>7, <1>8 DEF Inv

\* Once the claim inside the lock has returned, nobody is inside, and there is
\* nothing left to count on.
LEMMA NobodyInside ==
    ASSUME TypeOK, LockInv, NEW c \in Claims, owner \in {None, c},
           NEW outcome \in Outcomes, Return(c, outcome)
    PROVE  LockInv' /\ AcquireInv'
  <1>. USE ClaimsAssumption DEF Claims, Inside, WaitingOut, Outcomes
  <1>1. owner' = None
    BY DEF Return
  <1>2. \A d \in Claims : pc'[d] \notin Inside
    <2>1. \A d \in Claims \ {c} : pc'[d] = pc[d] /\ pc[d] \notin Inside
      BY DEF Return, TypeOK, LockInv
    <2>2. pc'[c] \notin Inside
      BY DEF Return, TypeOK
    <2>. QED BY <2>1, <2>2
  <1>3. LockInv'
    BY <1>1, <1>2 DEF LockInv, SteppingAside
  <1>4. AcquireInv'
    BY <1>2 DEF AcquireInv
  <1>. QED BY <1>3, <1>4

\* Settle(c), with the slot free unless c is over: c has it, or ends there.
LEMMA SettleInv ==
    ASSUME Inv, NEW c \in Claims, Asking(c), pc[c] # "holding", owner \in {None, c},
           c \notin released => holder = None,
           answer' \in {"none", "yes", "no", "failed"}, line' \in Seq(Claims),
           Settle(c),
           UNCHANGED <<ending, hold, holdFor, answered, released, overrun, away, touched>>
    PROVE  Inv'
  <1>. USE ClaimsAssumption DEF Inv,
            Claims, Pending, Inside, WaitingOut, Outcomes, SteppingAside, Asking, Live,
            lockVars, slotVars, taskVars, sessionVars
  <1>a. Counted' /\ callsWaiting' \in Nat
    BY ReturnCounts DEF Settle, Grant
  <1>b. CASE c \notin released
    <2>0. /\ holder = None /\ (held = None \/ heldFor = c)
          /\ holder' = c /\ using' = using \cup {c} /\ Return(c, "granted")
          /\ UNCHANGED <<held, heldFor, resuming>>
      BY <1>b DEF Settle, Grant, LockInv, CallsInv, SlotInv, TypeOK
    <2>1. TypeOK'
      BY <1>a, <2>0 DEF TypeOK, Return, Phases, HoldPhases
    <2>2. \A d \in Claims \ {c} : pc'[d] = pc[d] /\ on'[d] = on[d]
      BY <2>0 DEF Return, TypeOK
    <2>3. pc'[c] = "granted" /\ on'[c] = None /\ owner' = None
      BY <2>0 DEF Return, TypeOK
    <2>4. LockInv' /\ AcquireInv'
      BY <2>0, NobodyInside
    <2>5. CallsInv'
      BY <1>b, <2>0, <2>2, <2>3 DEF CallsInv, TypeOK
    <2>6. SlotInv'
      BY <1>b, <2>0, <2>2, <2>3 DEF SlotInv, HoldInv, EndInv, CallsInv, LockInv, TypeOK
    <2>7. HoldInv'
      BY <1>b, <2>0, <2>2, <2>3 DEF HoldInv, SlotInv, TypeOK
    <2>8. EndInv'
      BY <1>b, <2>0, <2>2, <2>3 DEF EndInv, SlotInv, TypeOK, Phases
    <2>. QED BY <1>a, <2>1, <2>4, <2>5, <2>6, <2>7, <2>8
  <1>c. CASE c \in released
    <2>0. held = None /\ heldFor = None
      BY <1>c DEF LockInv, CallsInv, SlotInv, TypeOK
    <2>1. /\ UNCHANGED <<holder, held, heldFor, resuming>>
          /\ using' = using \ released /\ Return(c, "stillborn")
      BY <1>c, <2>0 DEF Settle, ResumeHeld
    <2>2. TypeOK'
      BY <1>a, <2>1 DEF TypeOK, Return, Phases, HoldPhases
    <2>3. \A d \in Claims \ {c} : pc'[d] = pc[d] /\ on'[d] = on[d]
      BY <2>1 DEF Return, TypeOK
    <2>4. pc[c] # "granted" /\ pc'[c] = "stillborn" /\ on'[c] = None /\ owner' = None
      BY <2>1 DEF Return, TypeOK
    <2>5. LockInv' /\ AcquireInv'
      BY <2>1, NobodyInside
    <2>6. CallsInv'
      BY <1>c, <2>1, <2>3, <2>4 DEF CallsInv, TypeOK
    <2>7. SlotInv'
      BY <1>c, <2>0, <2>1, <2>3, <2>4 DEF SlotInv, TypeOK
    <2>8. HoldInv'
      BY <1>c, <2>1, <2>3, <2>4 DEF HoldInv, TypeOK
    <2>9. EndInv'
      BY <1>c, <2>1, <2>3, <2>4 DEF EndInv, TypeOK, Phases
    <2>. QED BY <1>a, <2>2, <2>5, <2>6, <2>7, <2>8, <2>9
  <1>. QED BY <1>b, <1>c

\* EndUnheld(c) and decide(): the holder is ended for c.
LEMMA EndHolderInv ==
    ASSUME Inv, NEW c \in Claims, NEW h \in Talks \cup Rooms,
           NEW place \in {"ending", "endingUnheld"},
           Asking(c), owner \in {None, c}, place = "endingUnheld" => c \in Calls,
           pc[h] = "granted",
           \/ h = holder /\ TaskOf(h) = "no"
           \/ h \in released /\ holder = None,
           pc[c] \notin {"holding", "heldOk"},
           line' \in Seq(Claims), answered' = answered,
           EndHolder(c, h, place)
    PROVE  Inv'
  <1>. USE ClaimsAssumption DEF Inv, EndHolder, StartEnding,
            Claims, Pending, Inside, WaitingOut, Outcomes, SteppingAside, Asking, Live,
            lockVars, slotVars, taskVars, sessionVars
  <1>2. Counted'
    BY GoOnCounts
  <1>. USE DEF GoOn
  <1>b. pc' = [pc EXCEPT ![c] = place] /\ pc'[c] = place
    BY DEF TypeOK
  <1>a. \A d \in Claims : /\ Asking(d)' <=> Asking(d)
                         /\ pc'[d] = "granted" <=> pc[d] = "granted"
    <2>. TAKE d \in Claims
    <2>1. CASE d = c
      BY <1>b, <2>1
    <2>2. CASE d # c
      <3>1. pc'[d] = pc[d]
        BY <1>b, <2>2 DEF TypeOK
      <3>. QED BY <3>1
    <2>. QED BY <2>1, <2>2
  <1>1. TypeOK'
    BY DEF TypeOK, LockInv, SlotInv, HoldInv, EndInv, Phases, HoldPhases
  <1>3. LockInv'
    BY DEF TypeOK, LockInv, CallsInv, SlotInv, HoldInv, EndInv, AcquireInv, TaskOf,
            Phases, HoldPhases
  <1>4. CallsInv'
    BY <1>a DEF TypeOK, LockInv, CallsInv, SlotInv, HoldInv, EndInv, AcquireInv, TaskOf,
            Phases, HoldPhases
  <1>5. SlotInv'
    BY <1>a DEF TypeOK, LockInv, CallsInv, SlotInv, HoldInv, EndInv, AcquireInv, TaskOf,
            Phases, HoldPhases
  <1>6. HoldInv'
    BY DEF TypeOK, LockInv, CallsInv, SlotInv, HoldInv, EndInv, AcquireInv, TaskOf,
            Phases, HoldPhases
  <1>7. EndInv'
    BY DEF TypeOK, LockInv, CallsInv, SlotInv, HoldInv, EndInv, AcquireInv, TaskOf,
            Phases, HoldPhases
  <1>8. AcquireInv'
    BY DEF TypeOK, LockInv, CallsInv, SlotInv, HoldInv, EndInv, AcquireInv, TaskOf,
            Phases, HoldPhases
  <1>. QED BY <1>1, <1>2, <1>3, <1>4, <1>5, <1>6, <1>7, <1>8 DEF Inv

\* AskEnds(c) and decide(): the holder h goes on hold for c.
LEMMA HoldHolderInv ==
    ASSUME Inv, NEW c \in Calls, NEW h \in Talks \cup Rooms,
           Asking(c), owner \in {None, c}, pc[h] = "granted", TaskOf(h) = "no",
           \/ h = holder
           \/ h \in released /\ holder = None,
           pc[c] \notin {"holding", "heldOk"},
           line' \in Seq(Claims), answered' = answered,
           answer' \in {"none", "yes", "no", "failed"},
           HoldHolder(c, h)
    PROVE  Inv'
  <1>. USE ClaimsAssumption DEF Inv, HoldHolder, StartHolding,
            Claims, Pending, Inside, WaitingOut, Outcomes, SteppingAside, Asking, Live,
            lockVars, slotVars, taskVars, sessionVars
  <1>2. Counted'
    BY GoOnCounts
  <1>. USE DEF GoOn
  <1>1. TypeOK'
    BY DEF TypeOK, LockInv, SlotInv, HoldInv, EndInv, Phases, HoldPhases
  <1>3. LockInv'
    BY DEF TypeOK, LockInv, CallsInv, SlotInv, HoldInv, EndInv, AcquireInv, TaskOf,
            Phases, HoldPhases
  <1>4. CallsInv'
    BY DEF TypeOK, LockInv, CallsInv, SlotInv, HoldInv, EndInv, AcquireInv, TaskOf,
            Phases, HoldPhases
  <1>5. SlotInv'
    BY DEF TypeOK, LockInv, CallsInv, SlotInv, HoldInv, EndInv, AcquireInv, TaskOf,
            Phases, HoldPhases
  <1>6. HoldInv'
    BY DEF TypeOK, LockInv, CallsInv, SlotInv, HoldInv, EndInv, AcquireInv, TaskOf,
            Phases, HoldPhases
  <1>7. EndInv'
    BY DEF TypeOK, LockInv, CallsInv, SlotInv, HoldInv, EndInv, AcquireInv, TaskOf,
            Phases, HoldPhases
  <1>8. AcquireInv'
    BY DEF TypeOK, LockInv, CallsInv, SlotInv, HoldInv, EndInv, AcquireInv, TaskOf,
            Phases, HoldPhases
  <1>. QED BY <1>1, <1>2, <1>3, <1>4, <1>5, <1>6, <1>7, <1>8 DEF Inv

\* acquire() returns with nothing touched: refused, or declined.
LEMMA ReturnInv ==
    ASSUME Inv, NEW c \in Claims, Asking(c), pc[c] \notin {"holding", "heldOk"},
           owner \in {None, c}, NEW outcome \in {"refused", "declined"},
           Return(c, outcome), answer' \in {"none", "yes", "no", "failed"},
           line' \in Seq(Claims), answered' = answered,
           UNCHANGED <<slotVars, taskVars, sessionVars, touched>>
    PROVE  Inv'
  <1>. USE ClaimsAssumption DEF Inv,
            Claims, Pending, Inside, WaitingOut, Outcomes, SteppingAside, Asking, Live,
            lockVars, slotVars, taskVars, sessionVars
  <1>a. Counted' /\ callsWaiting' \in Nat
    BY ReturnCounts
  <1>b. \A d \in Claims \ {c} : pc'[d] = pc[d] /\ on'[d] = on[d]
    BY DEF Return, TypeOK
  <1>c. pc'[c] = outcome /\ on'[c] = None /\ owner' = None
    BY DEF Return, TypeOK
  <1>1. TypeOK'
    BY <1>a DEF TypeOK, Return, Phases, HoldPhases
  <1>2. Counted'
    BY <1>a
  <1>3. LockInv' /\ AcquireInv'
    BY NobodyInside
  <1>4. CallsInv'
    BY <1>b, <1>c DEF CallsInv, TypeOK
  <1>5. SlotInv'
    BY <1>b, <1>c DEF SlotInv, TypeOK
  <1>6. HoldInv'
    BY <1>b, <1>c DEF HoldInv, TypeOK
  <1>7. EndInv'
    BY <1>b, <1>c DEF EndInv, TypeOK, Phases
  <1>. QED BY <1>1, <1>2, <1>3, <1>4, <1>5, <1>6, <1>7 DEF Inv

\* acquire() goes on, with nothing touched: it waits out a task of h, or has
\* the people in h asked.
LEMMA GoToInv ==
    ASSUME Inv, NEW c \in Claims, Asking(c), pc[c] \notin {"holding", "heldOk"},
           owner \in {None, c}, NEW h \in Claims, pc[h] = "granted", h = holder,
           NEW place \in WaitingOut \cup {"asking"},
           place = "asking" =>
                c \in Calls /\ h \in Talks \cup Rooms /\ TaskOf(h) = "no",
           GoOn(c, place, h), answer' \in {"none", "yes", "no", "failed"},
           line' \in Seq(Claims), answered' = answered,
           UNCHANGED <<slotVars, taskVars, sessionVars, touched>>
    PROVE  Inv'
  <1>. USE ClaimsAssumption DEF Inv,
            Claims, Pending, Inside, WaitingOut, Outcomes, SteppingAside, Asking, Live,
            lockVars, slotVars, taskVars, sessionVars
  <1>b. \A d \in Claims \ {c} : pc'[d] = pc[d] /\ on'[d] = on[d]
    BY DEF GoOn, TypeOK
  <1>c. pc'[c] = place /\ on'[c] = h /\ owner' = c
    BY DEF GoOn, TypeOK
  <1>1. TypeOK'
    BY DEF TypeOK, GoOn, Phases, HoldPhases
  <1>2. Counted'
    BY GoOnCounts
  <1>d. \A d \in Claims \ {c} : pc'[d] \notin Inside
    BY <1>b DEF LockInv, TypeOK
  <1>3. LockInv'
    <2>1. pc'[h] = "granted"
      BY <1>b
    <2>. QED BY <1>c, <1>d, <2>1 DEF LockInv
  <1>4. CallsInv'
    BY SMTT(30), <1>b, <1>c DEF CallsInv, TypeOK
  <1>5. SlotInv'
    BY <1>b, <1>c DEF SlotInv, TypeOK
  <1>6. HoldInv'
    BY <1>b, <1>c DEF HoldInv, TypeOK
  <1>7. EndInv'
    BY SMTT(30), <1>b, <1>c DEF EndInv, TypeOK, Phases
  <1>8. AcquireInv'
    <2>1. pc'[c] = "asking" => TaskOf(h)' = "no" /\ holder' = h
      BY <1>c DEF TaskOf
    <2>. QED BY <1>c, <1>d, <2>1 DEF AcquireInv
  <1>. QED BY <1>1, <1>2, <1>3, <1>4, <1>5, <1>6, <1>7, <1>8 DEF Inv

\* decide() has spoken, for a claim at the top of its acquire().
LEMMA JudgeInv ==
    ASSUME Inv, NEW c \in Claims, pc[c] \in WaitingOut \cup {"queued"},
           owner \in {None, c}, ~HolderIsBusy, NEW view \in Views(holder),
           Judge(c, decide(holder, c, view)),
           line' \in Seq(Claims), answered' = answered
    PROVE  Inv'
  <1>. DEFINE why == decide(holder, c, view)
  <1>1. Asking(c) /\ pc[c] \notin {"holding", "heldOk"}
    BY DEF Asking, Pending, Inside, WaitingOut
  <1>2. holder \in Claims \cup {None} /\ answer \in {"none", "yes", "no", "failed"}
    BY DEF Inv, TypeOK
  <1>3. CASE why = "free"
    <2>1. holder = None
      BY <1>2, <1>3, DecideFacts
    <2>2. /\ Settle(c)
          /\ UNCHANGED <<ending, hold, holdFor, released, overrun, away, answer, touched>>
      BY <1>3 DEF Judge
    <2>. QED BY <1>1, <1>2, <2>1, <2>2, SettleInv
  <1>4. CASE why = "refused"
    <2>1. /\ Return(c, "refused")
          /\ UNCHANGED <<slotVars, taskVars, sessionVars, answer, touched>>
      BY <1>4 DEF Judge
    <2>. QED BY <1>1, <1>2, <2>1, ReturnInv DEF Outcomes
  <1>5. CASE why \in {"reaped", "replaced", "taken", "callin"}
    <2>1. EndHolder(c, holder, "ending")
      BY <1>5 DEF Judge
    <2>2. holder # None /\ (holder \in Calls => c \in Calls)
      BY <1>2, <1>5, DecideFacts
    <2>3. holder \in Talks \cup Rooms
      BY <1>1, <1>2, <2>2, ClaimsAssumption
         DEF Claims, Inv, TypeOK, SlotInv, CallsInv, Live, Asking, Pending, Inside, WaitingOut
    <2>4. pc[holder] = "granted" /\ TaskOf(holder) = "no"
      BY <2>2 DEF Inv, SlotInv, HolderIsBusy
    <2>. QED BY <1>1, <2>1, <2>3, <2>4, EndHolderInv
  <1>6. CASE why = "prompt"
    <2>1. c \in Calls /\ holder \in Talks \cup Rooms
      BY <1>2, <1>6, DecideFacts
    <2>2. pc[holder] = "granted" /\ TaskOf(holder) = "no"
      BY <2>1, ClaimsAssumption DEF Inv, SlotInv, HolderIsBusy, Claims
    <2>3. CASE c \in answered
      <3>1. HoldHolder(c, holder) /\ UNCHANGED answer
        BY <1>6, <2>3 DEF Judge
      <3>. QED BY <1>1, <1>2, <2>1, <2>2, <3>1, HoldHolderInv
    <2>4. CASE c \notin answered
      <3>1. /\ GoOn(c, "asking", holder)
            /\ answer' = "none"
            /\ UNCHANGED <<slotVars, taskVars, sessionVars, touched>>
        BY <1>6, <2>4 DEF Judge
      <3>. QED BY <1>1, <2>1, <2>2, <3>1, GoToInv DEF Claims
    <2>. QED BY <2>3, <2>4
  <1>. QED BY <1>3, <1>4, <1>5, <1>6 DEF Judge

\* Enter(c) and Wake(c): a task is waited out, or decide() speaks.
LEMMA MeetInv ==
    ASSUME Inv, NEW c \in Claims, pc[c] \in WaitingOut \cup {"queued"},
           owner \in {None, c}, Meet(c), line' \in Seq(Claims), answered' = answered
    PROVE  Inv'
  <1>1. CASE HolderIsBusy
    <2>1. /\ GoOn(c, TaskOf(holder), holder)
          /\ UNCHANGED <<slotVars, taskVars, sessionVars, answer, touched>>
      BY <1>1 DEF Meet
    <2>2. holder \in Claims /\ pc[holder] = "granted" /\ TaskOf(holder) \in WaitingOut
      BY <1>1 DEF Inv, TypeOK, SlotInv, HolderIsBusy, TaskOf, WaitingOut
    <2>. QED BY <2>1, <2>2, GoToInv DEF Inv, TypeOK, Asking, Pending, Inside, WaitingOut
  <1>2. CASE ~HolderIsBusy
    BY <1>2, JudgeInv DEF Meet
  <1>. QED BY <1>1, <1>2

\* Enter(c): a claim gets the lock.
LEMMA EnterInv ==
    ASSUME Inv, NEW c \in Claims, Enter(c)
    PROVE  Inv'
  <1>1. Tail(line) \in Seq(Claims)
    BY DEF Enter, Inv, TypeOK
  <1>. QED BY <1>1, MeetInv DEF Enter

\* Wake(c): the task it waited out is over.
LEMMA WakeInv ==
    ASSUME Inv, NEW c \in Claims, Wake(c)
    PROVE  Inv'
  <1>1. pc[c] \in WaitingOut
    BY DEF Wake, TaskOver, WaitingOut
  <1>2. owner = c
    BY <1>1 DEF Inv, LockInv, Inside
  <1>. QED BY <1>1, <1>2, MeetInv DEF Wake, Inv, TypeOK

\* After the question or the hold, with the slot free unless c is over.
LEMMA SecondLookInv ==
    ASSUME Inv, NEW c \in Claims, Asking(c), pc[c] # "holding", owner = c,
           c \notin released => holder = None,
           SecondLook(c), UNCHANGED <<line, answered>>
    PROVE  Inv'
  <1>1. line' \in Seq(Claims) /\ answer \in {"none", "yes", "no", "failed"}
    BY DEF Inv, TypeOK
  <1>2. CASE c \in released
    BY <1>1, <1>2, SettleInv DEF SecondLook, Settle
  <1>3. CASE c \notin released
    <2>1. PICK view \in Views(holder) :
            LET why == decide(holder, c, view) IN
            Judge(c, IF why = "prompt" THEN "refused" ELSE why)
      BY <1>3 DEF SecondLook
    <2>2. decide(holder, c, view) = "free"
      BY <1>3, DecideFacts
    <2>3. Judge(c, "free")
      BY <2>1, <2>2
    <2>. QED BY <1>1, <1>3, <2>3, SettleInv DEF Judge
  <1>. QED BY <1>2, <1>3

\* AskEnds(c): the question is over.
LEMMA AskEndsInv ==
    ASSUME Inv, NEW c \in Claims, AskEnds(c)
    PROVE  Inv'
  <1>1. /\ Asking(c) /\ pc[c] = "asking" /\ owner = c /\ c \in Calls
        /\ on[c] \in Talks \cup Rooms /\ pc[on[c]] = "granted" /\ TaskOf(on[c]) = "no"
        /\ on[c] = holder \/ (on[c] \in released /\ holder = None)
        /\ line \in Seq(Claims)
    BY DEF AskEnds, Inv, TypeOK, LockInv, AcquireInv, Asking, Pending, Inside, SteppingAside
  <1>2. CASE Taken(c)
    <2>1. HoldHolder(c, on[c]) /\ answer' = "none" /\ UNCHANGED <<line, answered>>
      BY <1>2 DEF AskEnds
    <2>. QED BY <1>1, <2>1, HoldHolderInv
  <1>3. CASE ~Taken(c) /\ answer = "no"
    <2>1. /\ Return(c, "declined") /\ answer' = "none"
          /\ UNCHANGED <<slotVars, taskVars, sessionVars, touched, line, answered>>
      BY <1>3 DEF AskEnds
    <2>. QED BY <1>1, <2>1, ReturnInv DEF Outcomes
  <1>4. CASE ~Taken(c) /\ answer = "none"
    <2>1. SecondLook(c) /\ UNCHANGED <<line, answered>>
      BY <1>4 DEF AskEnds
    <2>2. holder = None
      BY <1>1, <1>4, ClaimsAssumption DEF AskEnds, Taken, Inv, SlotInv, Claims
    <2>. QED BY <1>1, <2>1, <2>2, SecondLookInv
  <1>. QED BY <1>2, <1>3, <1>4 DEF AskEnds

\* EndUnheld(c): the conversation that could not be held is ended.
LEMMA EndUnheldInv ==
    ASSUME Inv, NEW c \in Claims, EndUnheld(c)
    PROVE  Inv'
  <1>1. /\ Asking(c) /\ pc[c] = "heldFailed" /\ owner = c /\ c \in Calls
        /\ on[c] \in Talks \cup Rooms /\ pc[on[c]] = "granted"
        /\ \/ on[c] = holder /\ TaskOf(on[c]) = "no"
           \/ on[c] \in released /\ holder = None
        /\ line' \in Seq(Claims) /\ answered' = answered
    BY DEF EndUnheld, Inv, TypeOK, LockInv, AcquireInv, Asking, Pending, Inside, SteppingAside
  <1>2. EndHolder(c, on[c], "endingUnheld")
    BY DEF EndUnheld
  <1>. QED BY <1>1, <1>2, EndHolderInv

\* Held(c): the hold is over, or the end that stood in for it.
LEMMA HeldInv ==
    ASSUME Inv, NEW c \in Claims, Held(c)
    PROVE  Inv'
  <1>1. Asking(c) /\ pc[c] # "holding" /\ owner = c
    BY DEF Held, Inv, LockInv, Asking, Pending, Inside
  <1>2. c \notin released => holder = None
    BY DEF Held, Inv, AcquireInv
  <1>. QED BY <1>1, <1>2, SecondLookInv DEF Held

\* TakeOver(c): the holder that had to go is gone.
LEMMA TakeOverInv ==
    ASSUME Inv, NEW c \in Claims, TakeOver(c)
    PROVE  Inv'
  <1>1. Asking(c) /\ pc[c] = "ending" /\ owner = c /\ holder = None
    BY DEF TakeOver, Inv, LockInv, AcquireInv, Asking, Pending, Inside
  <1>. QED BY <1>1, SettleInv DEF TakeOver, Inv, TypeOK

-----------------------------------------------------------------------------

\* Every step keeps the invariant.
THEOREM NextInv == Inv /\ [Next]_vars => Inv'
  <1>. SUFFICES ASSUME Inv, [Next]_vars PROVE Inv'
    OBVIOUS
  <1>1. ASSUME NEW c \in Claims, Acquiring(c) PROVE Inv'
    BY <1>1, EnterInv, WakeInv, PeopleAnswerInv, AskEndsInv, EndUnheldInv, HeldInv,
       TakeOverInv DEF Acquiring
  <1>2. ASSUME NEW h \in Claims, Running(h) PROVE Inv'
    BY <1>2, ToldInv, LetGoInv, EndSettledInv, PutOnHoldInv, HoldMootInv, HoldFailsInv,
       HoldSettledInv, ResumedInv DEF Running
  <1>3. ASSUME NEW c \in Claims, World(c) PROVE Inv'
    BY <1>3, AskInv, LeaveInv, GetConnectedInv, HangUpInv, AbandonInv DEF World
  <1>4. CASE UNCHANGED vars
    <2>1. PendingCalls' = PendingCalls
      BY <1>4 DEF vars, lockVars, PendingCalls, Asking
    <2>2. Counted'
      BY <1>4, <2>1 DEF Inv, Counted, vars, lockVars
    <2>3. (TypeOK /\ LockInv /\ CallsInv /\ SlotInv /\ HoldInv /\ EndInv /\ AcquireInv)'
      BY <1>4 DEF Inv, TypeOK, LockInv, CallsInv, SlotInv, HoldInv, EndInv, AcquireInv,
         TaskOf, Live, Asking, vars, lockVars, slotVars, taskVars, sessionVars
    <2>. QED BY <2>2, <2>3 DEF Inv
  <1>. QED BY <1>1, <1>2, <1>3, <1>4 DEF Next, AllOver

\* The invariant holds throughout.
THEOREM InvHolds == Spec => []Inv
  BY InitInv, NextInv, PTL DEF Spec

\* The arbiter's state keeps its shape, and the counter of calls asking for
\* the slot (which GET /session reads) never goes below zero.
THEOREM TypeHolds == Spec => []TypeOK
  <1>1. Inv => TypeOK
    BY DEF Inv
  <1>. QED BY <1>1, InvHolds, PTL

\* Two sessions never have the engine at once, outstayers aside.
THEOREM EngineIsExclusive == Spec => []EngineExclusive
  <1>1. Inv => EngineExclusive
    BY DEF Inv, SlotInv, TypeOK, EngineExclusive
  <1>. QED BY <1>1, InvHolds, PTL

\* No session runs on unknown to the arbiter: with what acquire() and release()
\* do, a granted session keeps the slot or its place beside it to its end.
THEOREM NobodyIsStranded == Spec => []NobodyStranded
  <1>1. Inv => NobodyStranded
    BY DEF Inv, SlotInv, NobodyStranded
  <1>. QED BY <1>1, InvHolds, PTL

\* A conversation on hold has a live call to bring it back, however the call's
\* bring-up, its hanging up and the hold itself interleave.
THEOREM HeldHasItsCall == Spec => []HeldForALiveCall
  <1>1. Inv => HeldForALiveCall
    <2>. SUFFICES ASSUME Inv, held # None PROVE HeldForALiveCall
      BY DEF HeldForALiveCall
    <2>1. heldFor \in Calls \ released /\ held \notin released
      BY DEF Inv, TypeOK, SlotInv
    <2>2. holder = heldFor \/ (holder = None /\ owner = heldFor /\ on[heldFor] = held)
      BY <2>1 DEF Inv, SlotInv, LockInv, Inside, Claims
    <2>. QED BY <2>1, <2>2 DEF HeldForALiveCall
  <1>. QED BY <1>1, InvHolds, PTL

\* The question about a call is never put to a conversation that is going.
THEOREM QuestionsHaveTheirHolder == Spec => []QuestionHasItsHolder
  <1>1. Inv => QuestionHasItsHolder
    BY DEF Inv, AcquireInv, QuestionHasItsHolder
  <1>. QED BY <1>1, InvHolds, PTL

\* A room microphone that yielded to a call sees a call until it is over.
THEOREM CallsShow == Spec => []CallShows
  <1>1. Inv => CallShows
    <2>. SUFFICES ASSUME Inv, NEW c \in Calls,
                         Asking(c) \/ (pc[c] = "granted" /\ c \notin released)
                  PROVE  StatusCall
      BY DEF CallShows
    <2>1. CASE Asking(c)
      <3>1. c \in PendingCalls
        BY <2>1 DEF PendingCalls
      <3>2. Cardinality(PendingCalls) # 0
        BY <3>1, FS_EmptySet DEF Inv, Counted
      <3>. QED BY <3>2 DEF Inv, TypeOK, Counted, StatusCall
    <2>2. CASE pc[c] = "granted" /\ c \notin released
      <3>1. c = holder
        BY <2>2, ClaimsAssumption DEF Inv, TypeOK, SlotInv, EndInv, Claims
      <3>. QED BY <3>1, ClaimsAssumption DEF StatusCall, Claims
    <2>. QED BY <2>1, <2>2
  <1>. QED BY <1>1, InvHolds, PTL

-----------------------------------------------------------------------------
(* The arbiter implements OneSlot.                                         *)

SlotStep == Slot!Next \/ UNCHANGED <<holder, held, heldFor, released>>

\* A claim that is granted takes a free slot, kept for it if for anyone.
LEMMA SettleTakes ==
    ASSUME Inv, NEW c \in Claims, Asking(c), c \notin released => holder = None,
           owner \in {None, c}, Settle(c), UNCHANGED released
    PROVE  SlotStep
  <1>1. CASE c \notin released
    <2>1. held = None \/ heldFor = c
      BY <1>1 DEF Inv, SlotInv, LockInv, CallsInv, TypeOK, Inside, Claims
    <2>2. Slot!Take(c)
      BY <1>1, <2>1 DEF Settle, Grant, Slot!Take, Inv, SlotInv
    <2>. QED BY <2>2 DEF SlotStep, Slot!Next
  <1>2. CASE c \in released
    <2>1. held = None /\ heldFor = None
      BY <1>2 DEF Inv, LockInv, CallsInv, SlotInv, TypeOK, Live, Asking, Pending, Inside,
                  WaitingOut, Claims
    <2>. QED BY <1>2, <2>1 DEF Settle, ResumeHeld, SlotStep
  <1>. QED BY <1>1, <1>2

\* What decide() says does to the slot what OneSlot allows.
LEMMA JudgeTakes ==
    ASSUME Inv, NEW c \in Claims, Asking(c), owner \in {None, c},
           NEW view \in Views(holder), Judge(c, decide(holder, c, view))
    PROVE  SlotStep
  <1>1. CASE decide(holder, c, view) = "free"
    <2>1. holder = None
      BY <1>1, DecideFacts DEF Inv, TypeOK
    <2>2. Settle(c) /\ UNCHANGED released
      BY <1>1 DEF Judge
    <2>. QED BY <2>1, <2>2, SettleTakes
  <1>2. CASE decide(holder, c, view) # "free"
    BY <1>2 DEF Judge, EndHolder, HoldHolder, SlotStep, slotVars, sessionVars
  <1>. QED BY <1>1, <1>2

\* So does the second look, with the slot free unless c is over.
LEMMA SecondLookTakes ==
    ASSUME Inv, NEW c \in Claims, Asking(c), owner = c,
           c \notin released => holder = None, SecondLook(c)
    PROVE  SlotStep
  <1>1. CASE c \in released
    <2>1. Settle(c) /\ UNCHANGED released
      BY <1>1 DEF SecondLook, Settle
    <2>. QED BY <1>1, <2>1, SettleTakes
  <1>2. CASE c \notin released
    <2>1. \A view \in Views(holder) : decide(holder, c, view) = "free"
      BY <1>2, DecideFacts
    <2>2. Settle(c) /\ UNCHANGED released
      BY <1>2, <2>1 DEF SecondLook, Judge
    <2>. QED BY <1>2, <2>2, SettleTakes
  <1>. QED BY <1>1, <1>2

\* Every step of acquire() takes the slot as OneSlot allows, or leaves it.
LEMMA AcquiringIsSlotStep ==
    ASSUME Inv, NEW c \in Claims, Acquiring(c)
    PROVE  SlotStep
  <1>. USE DEF slotVars, sessionVars
  <1>1. CASE Enter(c) \/ Wake(c)
    <2>1. Asking(c) /\ owner \in {None, c} /\ Meet(c)
      BY <1>1 DEF Enter, Wake, TaskOver, Inv, LockInv, Asking, Pending, Inside, WaitingOut
    <2>2. CASE HolderIsBusy
      BY <2>1, <2>2 DEF Meet, SlotStep
    <2>3. CASE ~HolderIsBusy
      BY <2>1, <2>3, JudgeTakes DEF Meet
    <2>. QED BY <2>2, <2>3
  <1>2. CASE PeopleAnswer(c) \/ EndUnheld(c)
    BY <1>2 DEF PeopleAnswer, EndUnheld, EndHolder, SlotStep
  <1>3. CASE AskEnds(c)
    <2>1. Asking(c) /\ owner = c
      BY <1>3 DEF AskEnds, Inv, LockInv, Asking, Pending, Inside
    <2>2. CASE Taken(c) \/ answer = "no"
      BY <1>3, <2>2 DEF AskEnds, HoldHolder, SlotStep
    <2>3. CASE ~Taken(c) /\ answer # "no"
      <3>1. holder = None
        BY <1>3, <2>3, ClaimsAssumption
           DEF AskEnds, Taken, Inv, TypeOK, AcquireInv, SlotInv, Claims
      <3>2. SecondLook(c)
        BY <1>3, <2>3 DEF AskEnds
      <3>. QED BY <2>1, <3>1, <3>2, SecondLookTakes
    <2>. QED BY <2>2, <2>3
  <1>4. CASE Held(c)
    <2>1. Asking(c) /\ owner = c
      BY <1>4 DEF Held, Inv, LockInv, Asking, Pending, Inside
    <2>2. c \notin released => holder = None
      BY <1>4 DEF Held, Inv, AcquireInv
    <2>. QED BY <1>4, <2>1, <2>2, SecondLookTakes DEF Held
  <1>5. CASE TakeOver(c)
    <2>1. Asking(c) /\ owner = c /\ holder = None
      BY <1>5 DEF TakeOver, Inv, LockInv, AcquireInv, Asking, Pending, Inside
    <2>. QED BY <1>5, <2>1, SettleTakes DEF TakeOver
  <1>. QED BY <1>1, <1>2, <1>3, <1>4, <1>5 DEF Acquiring

\* Every step of a task puts a session out, has it step away, or leaves the
\* slot as it is.
LEMMA RunningIsSlotStep ==
    ASSUME Inv, NEW h \in Claims, Running(h)
    PROVE  SlotStep
  <1>. USE DEF slotVars, sessionVars
  <1>1. CASE LetGo(h)
    <2>1. CASE holder = h
      <3>1. h \in Talks \cup Rooms /\ held = None
        BY <1>1, <2>1, ClaimsAssumption DEF LetGo, Inv, EndInv, SlotInv, TypeOK, Claims
      <3>2. Slot!PutOut(h)
        BY <1>1, <2>1, <3>1, ClaimsAssumption DEF LetGo, Slot!PutOut, Claims
      <3>. QED BY <3>2 DEF SlotStep, Slot!Next
    <2>2. CASE holder # h
      BY <1>1, <2>2 DEF LetGo, SlotStep
    <2>. QED BY <2>1, <2>2
  <1>2. CASE PutOnHold(h)
    <2>1. /\ h \in Talks \cup Rooms /\ holder = h /\ h \notin released
          /\ held = None /\ heldFor = None /\ holdFor[h] \in Calls
      BY <1>2, ClaimsAssumption DEF PutOnHold, Inv, HoldInv, SlotInv, TypeOK, Claims
    <2>2. CASE holdFor[h] \in released
      BY <1>2, <2>1, <2>2, ClaimsAssumption DEF PutOnHold, ResumeHeld, SlotStep, Claims
    <2>3. CASE holdFor[h] \notin released
      <3>1. Slot!StepAway(h, holdFor[h])
        BY <1>2, <2>1, <2>3, ClaimsAssumption DEF PutOnHold, Slot!StepAway, Claims
      <3>. QED BY <2>1, <3>1 DEF SlotStep, Slot!Next
    <2>. QED BY <2>2, <2>3
  <1>3. CASE HoldMoot(h)
    <2>1. holder # h
      BY <1>3, ClaimsAssumption DEF HoldMoot, Inv, SlotInv, Claims
    <2>. QED BY <1>3, <2>1 DEF HoldMoot, SlotStep
  <1>4. CASE Told(h) \/ EndSettled(h) \/ HoldFails(h) \/ HoldSettled(h) \/ Resumed(h)
    BY <1>4 DEF Told, EndSettled, HoldFails, HoldSettled, Resumed, SlotStep
  <1>. QED BY <1>1, <1>2, <1>3, <1>4 DEF Running

\* A session that is over leaves the slot, and whoever stepped away for it is
\* back in that very step.
LEMMA ReleaseIsSlotStep ==
    ASSUME Inv, NEW c \in Claims, ReleaseClaim(c)
    PROVE  SlotStep
  <1>1. CASE c \in released
    <2>1. c \notin {holder, held, heldFor}
      BY <1>1, ClaimsAssumption DEF Inv, SlotInv, Claims
    <2>. QED BY <1>1, <2>1 DEF ReleaseClaim, SlotStep
  <1>2. CASE c \notin released
    <2>1. held # None => holder \in {heldFor, None} /\ held # heldFor /\ held \notin released
      BY ClaimsAssumption DEF Inv, SlotInv, TypeOK, Claims
    <2>2. held = None <=> heldFor = None
      BY DEF Inv, SlotInv
    <2>3. Slot!Leave(c)
      BY <1>2, <2>1, <2>2, ClaimsAssumption DEF ReleaseClaim, ResumeHeld, Slot!Leave, Claims
    <2>. QED BY <2>3 DEF SlotStep, Slot!Next
  <1>. QED BY <1>1, <1>2

\* Every step of the arbiter is a step of OneSlot, or none.
LEMMA NextIsSlotStep == Inv /\ [Next]_vars => SlotStep
  <1>. SUFFICES ASSUME Inv, [Next]_vars PROVE SlotStep
    OBVIOUS
  <1>. USE DEF slotVars, sessionVars
  <1>1. ASSUME NEW c \in Claims, World(c) PROVE SlotStep
    BY <1>1, ReleaseIsSlotStep
       DEF World, Ask, Leave, GetConnected, HangUp, Abandon, SlotStep
  <1>2. CASE UNCHANGED vars
    BY <1>2 DEF vars, SlotStep
  <1>. QED BY <1>1, <1>2, AcquiringIsSlotStep, RunningIsSlotStep DEF Next, AllOver

\* The arbiter implements OneSlot: a session leaves the slot only by ending, by
\* being put out, or by stepping away for a live call, whose end brings it back.
THEOREM ArbiterIsOneSlot == Spec => IsOneSlot
  <1>1. Init => Slot!Init
    BY DEF Init, Slot!Init
  <1>2. Inv /\ [Next]_vars => [Slot!Next]_<<holder, held, heldFor, released>>
    BY NextIsSlotStep DEF SlotStep
  <1>. QED BY <1>1, <1>2, InvHolds, PTL DEF Spec, IsOneSlot, Slot!Spec

\* The slot never passes from one session to another over the first one's head.
THEOREM NobodyIsClobbered == Spec => NoClobber
  <1>1. Inv /\ [Next]_vars => NoClobberStep
    <2>. SUFFICES ASSUME Inv, SlotStep PROVE NoClobberStep
      BY NextIsSlotStep
    <2>1. CASE UNCHANGED <<holder, held, heldFor, released>>
      BY <2>1 DEF NoClobberStep
    <2>2. ASSUME NEW c \in Claims, Slot!Take(c) \/ Slot!PutOut(c) PROVE NoClobberStep
      BY <2>2 DEF Slot!Take, Slot!PutOut, NoClobberStep
    <2>3. ASSUME NEW c \in Claims, NEW d \in Calls, Slot!StepAway(c, d) PROVE NoClobberStep
      BY <2>3 DEF Slot!StepAway, NoClobberStep
    <2>4. ASSUME NEW c \in Claims, Slot!Leave(c) PROVE NoClobberStep
      <3>1. heldFor = c => holder \in {None, c}
        BY ClaimsAssumption DEF Inv, SlotInv, Claims
      <3>. QED BY <2>4, <3>1 DEF Slot!Leave, NoClobberStep
    <2>. QED BY <2>1, <2>2, <2>3, <2>4 DEF SlotStep, Slot!Next
  <1>. QED BY <1>1, InvHolds, PTL DEF Spec, NoClobber

-----------------------------------------------------------------------------
(* Nothing is touched for a claim that is refused.  A claim no holder was    *)
(* ended or held for may be judged any way; one for which a holder was finds *)
(* the slot free (AcquireInv), and is granted it or comes to nothing.        *)

\* The slot taken, or left by a call that is over: no refusal.
LEMMA SettleTouches ==
    ASSUME Inv, TouchedInv, NEW c \in Claims, Settle(c), UNCHANGED touched
    PROVE  TouchedInv'
  BY DEF Inv, TypeOK, TouchedInv, Settle, Grant, Return

\* A claim for which nothing was touched yet, judged.
LEMMA JudgeTouches ==
    ASSUME Inv, TouchedInv, NEW c \in Claims, c \notin touched, NEW why, Judge(c, why)
    PROVE  TouchedInv'
  <1>. USE DEF Inv, TypeOK, TouchedInv
  <1>1. CASE Settle(c) /\ UNCHANGED touched
    BY <1>1, SettleTouches
  <1>2. CASE Return(c, "refused") /\ UNCHANGED touched
    BY <1>2 DEF Return
  <1>3. CASE EndHolder(c, holder, "ending")
    BY <1>3 DEF EndHolder, StartEnding, GoOn
  <1>4. CASE HoldHolder(c, holder)
    BY <1>4 DEF HoldHolder, StartHolding, GoOn
  <1>5. CASE GoOn(c, "asking", holder) /\ UNCHANGED touched
    BY <1>5 DEF GoOn
  <1>. QED BY <1>1, <1>2, <1>3, <1>4, <1>5 DEF Judge

\* A call that finds the slot free, or is over, is not refused at its second look.
LEMMA SecondLookTouches ==
    ASSUME Inv, TouchedInv, NEW c \in Claims, c \notin released => holder = None,
           SecondLook(c)
    PROVE  TouchedInv'
  <1>1. Settle(c) /\ UNCHANGED touched
    <2>1. CASE c \in released
      BY <2>1 DEF SecondLook, Settle
    <2>2. CASE c \notin released
      <3>1. \A view \in Views(holder) : decide(holder, c, view) = "free"
        BY <2>2, DecideFacts
      <3>. QED BY <2>2, <3>1 DEF SecondLook, Judge
    <2>. QED BY <2>1, <2>2
  <1>. QED BY <1>1, SettleTouches

\* acquire() as it begins, or after a wait.
LEMMA MeetTouches ==
    ASSUME Inv, TouchedInv, NEW c \in Claims, c \notin touched, Meet(c)
    PROVE  TouchedInv'
  <1>1. CASE HolderIsBusy
    BY <1>1 DEF Meet, GoOn, Inv, TypeOK, TouchedInv
  <1>2. CASE ~HolderIsBusy
    BY <1>2, JudgeTouches DEF Meet
  <1>. QED BY <1>1, <1>2

\* Every step of acquire().
LEMMA AcquiringTouches ==
    ASSUME Inv, TouchedInv, NEW c \in Claims, Acquiring(c)
    PROVE  TouchedInv'
  <1>1. CASE Enter(c) \/ Wake(c)
    <2>1. Meet(c) /\ c \notin touched
      BY <1>1 DEF Enter, Wake, TaskOver, TouchedInv
    <2>. QED BY <2>1, MeetTouches
  <1>2. CASE PeopleAnswer(c)
    BY <1>2 DEF PeopleAnswer, TouchedInv, lockVars
  <1>3. CASE AskEnds(c)
    <2>1. pc[c] = "asking" /\ c \notin touched
      BY <1>3 DEF AskEnds, TouchedInv
    <2>2. CASE HoldHolder(c, on[c])
      BY <2>2 DEF HoldHolder, StartHolding, GoOn, Inv, TypeOK, TouchedInv
    <2>3. CASE Return(c, "declined") /\ UNCHANGED touched
      BY <2>1, <2>3 DEF Return, Inv, TypeOK, TouchedInv
    <2>4. CASE ~Taken(c) /\ SecondLook(c) /\ on[c] \in released
      <3>1. holder = None
        BY <2>1, <2>4, ClaimsAssumption DEF Inv, TypeOK, AcquireInv, SlotInv, Claims
      <3>. QED BY <2>4, <3>1, SecondLookTouches
    <2>. QED BY <1>3, <2>2, <2>3, <2>4 DEF AskEnds, Taken
  <1>4. CASE EndUnheld(c)
    BY <1>4 DEF EndUnheld, EndHolder, StartEnding, GoOn, Inv, TypeOK, TouchedInv
  <1>5. CASE Held(c)
    <2>1. c \notin released => holder = None
      BY <1>5 DEF Held, Inv, AcquireInv
    <2>. QED BY <1>5, <2>1, SecondLookTouches DEF Held
  <1>6. CASE TakeOver(c)
    BY <1>6, SettleTouches DEF TakeOver
  <1>. QED BY <1>1, <1>2, <1>3, <1>4, <1>5, <1>6 DEF Acquiring

\* A hold that ends leads its call on; nothing else the tasks or the world do
\* moves a claim for which something was touched but to its end.
LEMMA OthersTouch ==
    ASSUME Inv, TouchedInv, NEW c \in Claims, Running(c) \/ World(c)
    PROVE  TouchedInv'
  <1>. USE DEF Inv, TypeOK, TouchedInv, lockVars
  <1>1. CASE PutOnHold(c) \/ HoldMoot(c) \/ HoldFails(c) \/ HoldSettled(c)
    BY <1>1 DEF PutOnHold, HoldMoot, HoldFails, HoldSettled, HoldOver
  <1>2. CASE Told(c) \/ LetGo(c) \/ EndSettled(c) \/ Resumed(c)
    BY <1>2 DEF Told, LetGo, EndSettled, Resumed
  <1>3. CASE Ask(c) \/ Leave(c) \/ GetConnected(c) \/ HangUp(c) \/ Abandon(c)
    BY <1>3 DEF Ask, Leave, GetConnected, HangUp, Abandon
  <1>. QED BY <1>1, <1>2, <1>3 DEF Running, World

\* "A Refusal: not granted, and nothing was touched" (acquire): whoever is
\* refused, or declined by the people in the room, had no session ended or put
\* on hold for it.
THEOREM RefusedTouchNothing == Spec => []RefusedTouchedNothing
  <1>1. Init => TouchedInv
    BY DEF Init, TouchedInv
  <1>2. Inv /\ TouchedInv /\ [Next]_vars => TouchedInv'
    <2>. SUFFICES ASSUME Inv, TouchedInv, [Next]_vars PROVE TouchedInv'
      OBVIOUS
    <2>1. CASE UNCHANGED vars
      BY <2>1 DEF vars, lockVars, TouchedInv
    <2>. QED BY <2>1, AcquiringTouches, OthersTouch DEF Next, AllOver
  <1>3. TouchedInv => RefusedTouchedNothing
    BY DEF TouchedInv, RefusedTouchedNothing
  <1>. QED BY <1>1, <1>2, <1>3, InvHolds, PTL DEF Spec

=============================================================================
