---------------------------- MODULE HeldSession -----------------------------
(* A conversation and a phone call: call_prompt.py, and of agent_session.py    *)
(* what asks the question, says a line in full, holds and resumes, with the    *)
(* watch on a line's delivery that followup_gate.py keeps.                     *)
(*                                                                             *)
(* The session arbiter is the caller of `ask`, `hold` and `resume`; `arb` is   *)
(* where it is with this conversation. Every timer (the answer's deadline,     *)
(* STEP_AWAY_MAX_SECS, START_NOTICE_MAX_SECS) may run out at any time.         *)
EXTENDS Naturals

CONSTANT MaxQuestions   \* how many calls ask (bound)

VARIABLES
  arb,        \* the arbiter: "idle", "asking", "take", "holding", "closing", "held", "back"
  questions,  \* calls that have asked
  caller,     \* of the last question: "no" (gone), "rings", "on" (connected before it was taken)
  askAt,      \* CallPrompt.ask: "no", "asking" (its own_line block), "waiting"
  fut,        \* its future: "none", "open", "taken", "declined", "withdrawn"
  closed,     \* CallPrompt._last
  told,       \* what the model was last told by `answer`, or "none"
  line,       \* own_line, by who says it: "no", "clearing", "playing", "played", "cut"
  passing,    \* interruptions queued by own_line and not yet at the gate
  waited,     \* the lines an interruption has reached the gate for
  mute,       \* InputMute.muted
  holding,    \* AgentSession.holding
  held,       \* AgentSession.held
  gateHeld,   \* FollowupGate.held
  holdOff,    \* BargeInPauser.hold_off
  ownCut,     \* Owed.own_cut
  stt,        \* the engine session: "on", "off", "connecting", "failed"
  greeting    \* the start notice: "due", "saying", "over"

vars == <<arb, questions, caller, askAt, fut, closed, told, line, passing, waited,
          mute, holding, held, gateHeld, holdOff, ownCut, stt, greeting>>

promptVars == <<askAt, fut, closed, told>>
holdVars == <<holding, held, gateHeld, stt>>
arbVars == <<arb, questions, caller>>
lineVars == <<line, passing, waited>>

Lines == {"question", "step", "notice"}

TypeOK ==
  /\ arb \in {"idle", "asking", "take", "holding", "closing", "held", "back"}
  /\ questions \in 0..MaxQuestions
  /\ askAt \in {"no", "asking", "waiting"}
  /\ fut \in {"none", "open", "taken", "declined", "withdrawn"}
  /\ closed \in {"none", "gone", "closed-taken", "closed-ringing"}
  /\ told \in {"none", "NONE", "taken", "declined", "gone", "closed-taken", "closed-ringing"}
  /\ line \in [Lines -> {"no", "clearing", "playing", "played", "cut"}]
  /\ passing \in 0..(2 * MaxQuestions + 1) /\ waited \subseteq Lines
  /\ caller \in {"no", "rings", "on"}
  /\ mute \in BOOLEAN /\ holding \in BOOLEAN /\ held \in BOOLEAN /\ gateHeld \in BOOLEAN
  /\ holdOff \in BOOLEAN /\ ownCut \in BOOLEAN
  /\ stt \in {"on", "off", "connecting", "failed"}
  /\ greeting \in {"due", "saying", "over"}

(* A conversation that has begun, its start notice to come or none. *)
Init ==
  /\ arb = "idle" /\ questions = 0 /\ caller = "no"
  /\ askAt = "no" /\ fut = "none" /\ closed = "none" /\ told = "none"
  /\ line = [l \in Lines |-> "no"] /\ passing = 0 /\ waited = {}
  /\ mute = FALSE /\ holding = FALSE /\ held = FALSE /\ gateHeld = FALSE
  /\ holdOff = FALSE /\ ownCut = FALSE /\ stt = "on"
  /\ greeting \in {"due", "over"}

on_hold == held \/ holding

-----------------------------------------------------------------------------
(* own_line: interrupt what is said, wait for that to pass the gate, then put  *)
(* the line in, watched.                                                       *)

BeginLine(l) ==
  /\ line' = [line EXCEPT ![l] = "clearing"]
  /\ passing' = passing + 1
  /\ waited' = waited \ {l}
  /\ ownCut' = TRUE

EndLine(l) ==
  /\ line' = [line EXCEPT ![l] = "no"]
  /\ ownCut' = FALSE

(* The gate sees an interruption: every line it watches is settled as cut. Of  *)
(* own_line's, or of a user who is heard.                                      *)
Interruption ==
  /\ \/ passing > 0 /\ passing' = passing - 1
     \/ ~mute /\ stt = "on" /\ passing' = passing
  /\ line' = [l \in Lines |-> IF line[l] = "playing" THEN "cut" ELSE line[l]]
  /\ waited' = waited \cup {l \in Lines : line[l] = "clearing"}
  /\ line' # line \/ waited' # waited \/ passing' # passing
  /\ UNCHANGED <<arbVars, promptVars, mute, holdVars, holdOff, ownCut, greeting>>

(* The line goes in once an interruption has passed. (The limit on that wait is *)
(* for a pipeline that passes none on, and is left out.)                        *)
PutLine(l) ==
  /\ line[l] = "clearing" /\ l \in waited
  /\ line' = [line EXCEPT ![l] = "playing"]
  /\ UNCHANGED <<arbVars, promptVars, passing, waited, mute, holdVars, holdOff, ownCut, greeting>>

LinePlayed(l) ==
  /\ line[l] = "playing"
  /\ line' = [line EXCEPT ![l] = "played"]
  /\ UNCHANGED <<arbVars, promptVars, passing, waited, mute, holdVars, holdOff, ownCut, greeting>>

-----------------------------------------------------------------------------
(* The conversation-start notice.                                              *)

(* greet: the STT has just connected, and nobody has come to hold it yet. *)
NoticeBegins ==
  /\ greeting = "due" /\ arb \in {"idle", "asking"} /\ stt = "on"
  /\ greeting' = "saying"
  /\ mute' = TRUE
  /\ BeginLine("notice")
  /\ UNCHANGED <<arbVars, promptVars, holdVars, holdOff>>

\* Slip: no look at a hold that has begun.
UnmutedSlip == FALSE

(* It played, was cut, or ran out of time, or the hold cancelled its task (a    *)
(* wake's, cancel_start): listening again, unless a call is putting the         *)
(* conversation on hold.                                                        *)
Unmuted == IF on_hold THEN mute ELSE FALSE

NoticeEnds ==
  /\ greeting = "saying" /\ (line["notice"] = "clearing" => holding)
  /\ greeting' = "over"
  /\ mute' = Unmuted
  /\ EndLine("notice")
  /\ UNCHANGED <<arbVars, promptVars, passing, waited, holdVars, holdOff>>

-----------------------------------------------------------------------------
(* CallPrompt.ask, and the answer the model gives.                             *)

Ask ==
  /\ arb = "idle" /\ questions < MaxQuestions /\ stt = "on"
  /\ questions' = questions + 1 /\ caller' = "rings" /\ arb' = "asking"
  /\ askAt' = "asking" /\ fut' = "open" /\ closed' = "none" /\ told' = "none"
  /\ holdOff' = TRUE
  /\ BeginLine("question")
  /\ UNCHANGED <<mute, holdVars, greeting>>

(* The block ends when the line has, at QUESTION_MAX_SECS, or with the answer. *)
Asked ==
  /\ askAt = "asking" /\ line["question"] # "clearing"
  /\ askAt' = "waiting"
  /\ holdOff' = FALSE
  /\ EndLine("question")
  /\ UNCHANGED <<arbVars, fut, closed, told, passing, waited, mute, holdVars, greeting>>

\* Slip: the two ends of a question are swapped.
ClosingSlip(taken) == IF taken THEN "closed-ringing" ELSE "closed-taken"

Closing(taken) == IF taken THEN "closed-taken" ELSE "closed-ringing"

Returns(taken) ==
  /\ askAt' = "no" /\ fut' = IF taken THEN "taken" ELSE "declined"
  /\ closed' = Closing(taken)
  /\ arb' = IF taken THEN "take" ELSE "idle"
  /\ UNCHANGED <<questions, caller, told, lineVars, mute, holdVars, holdOff, ownCut, greeting>>

Answered == askAt = "waiting" /\ fut \in {"taken", "declined"} /\ Returns(fut = "taken")

(* Nobody answered, nor in the grace of a turn in flight: PROMPT_DEFAULT. *)
Deadline == askAt = "waiting" /\ fut = "open" /\ \E default \in BOOLEAN : Returns(default)

\* Slip: the answer is passed on as it was given.
AnswerToSlip(take) == told' = (IF take THEN "take" ELSE "leave") /\ fut' = fut

(* The answer_phone_call tool: whatever the model makes of the user, whenever. *)
AnswerTo(take) ==
  IF fut = "open" /\ askAt # "no"
  THEN /\ fut' = IF take THEN "taken" ELSE "declined"
       /\ told' = IF take THEN "taken" ELSE "declined"
  ELSE /\ told' = IF closed = "none" THEN "NONE" ELSE closed
       /\ fut' = fut

answer ==
  /\ questions > 0 /\ arb # "held"
  /\ \E take \in BOOLEAN : AnswerTo(take)
  /\ UNCHANGED <<arbVars, askAt, closed, lineVars, mute, holdVars, holdOff, ownCut, greeting>>

(* ask() is cancelled: the caller hung up, or the call is connected already and *)
(* the conversation goes on hold for it all the same.                           *)
Cancelled(connected) ==
  /\ arb = "asking"
  /\ arb' = IF connected THEN "take" ELSE "idle"
  /\ caller' = IF connected THEN "on" ELSE "no"
  /\ askAt' = "no"
  /\ fut' = IF fut = "open" THEN "withdrawn" ELSE fut
  /\ closed' = IF fut = "open" THEN "gone" ELSE closed
  /\ holdOff' = FALSE
  /\ IF askAt = "asking" THEN EndLine("question") ELSE UNCHANGED <<line, ownCut>>
  /\ UNCHANGED <<questions, told, passing, waited, mute, holdVars, greeting>>

Withdrawn == Cancelled(FALSE)
Connected == Cancelled(TRUE)

-----------------------------------------------------------------------------
(* CallPrompt.hold and AgentSession.hold.                                      *)

HoldBegins ==
  /\ arb = "take" /\ arb' = "holding"
  /\ closed' = "closed-taken"
  /\ holding' = TRUE
  /\ mute' = TRUE
  /\ BeginLine("step")
  /\ UNCHANGED <<questions, caller, askAt, fut, told, held, gateHeld, holdOff, stt, greeting>>

(* The step-away line has played, was cut or took too long. *)
HoldSaid ==
  /\ arb = "holding" /\ line["step"] # "clearing" /\ arb' = "closing"
  /\ gateHeld' = TRUE
  /\ EndLine("step")
  /\ UNCHANGED <<questions, caller, promptVars, passing, waited, mute, holding, held, holdOff,
                 stt, greeting>>

HoldDone ==
  /\ arb = "closing" /\ arb' = "held"
  /\ stt' = "off" /\ held' = TRUE
  /\ UNCHANGED <<questions, caller, promptVars, lineVars, mute, holding, gateHeld, holdOff,
                 ownCut, greeting>>

HangUp ==
  /\ caller # "no" /\ arb \in {"take", "holding", "closing", "held"}
  /\ caller' = "no"
  /\ UNCHANGED <<arb, questions, promptVars, lineVars, mute, holdVars, holdOff, ownCut, greeting>>

(* CallPrompt.resume and AgentSession.resume, until the STT has resolved. *)
ResumeBegins ==
  /\ arb = "held" /\ caller = "no" /\ arb' = "back"
  /\ closed' = "none"
  /\ holding' = FALSE
  /\ stt' = "connecting"
  /\ UNCHANGED <<questions, caller, askAt, fut, told, lineVars, mute, held, gateHeld, holdOff,
                 ownCut, greeting>>

\* Slip: the gate is not let go.
ResumedSlip ==
  /\ arb = "back" /\ stt = "connecting" /\ arb' = "idle"
  /\ held' = FALSE /\ UNCHANGED gateHeld
  /\ \E hears \in BOOLEAN :
       /\ stt' = IF hears THEN "on" ELSE "failed"
       /\ mute' = IF hears THEN FALSE ELSE mute
  /\ UNCHANGED <<questions, caller, promptVars, lineVars, holding, holdOff, ownCut, greeting>>

\* Slip: a session that cannot hear is left where it is.
ResumedDeafSlip ==
  /\ arb = "back" /\ stt = "connecting"
  /\ \E hears \in BOOLEAN :
       /\ stt' = IF hears THEN "on" ELSE "failed"
       /\ arb' = IF hears THEN "idle" ELSE arb
       /\ mute' = IF hears THEN FALSE ELSE mute
       /\ held' = IF hears THEN FALSE ELSE held
       /\ gateHeld' = IF hears THEN FALSE ELSE gateHeld
  /\ UNCHANGED <<questions, caller, promptVars, lineVars, holding, holdOff, ownCut, greeting>>

(* A session that cannot hear says so and ends. *)
Resumed ==
  /\ arb = "back" /\ stt = "connecting" /\ arb' = "idle"
  /\ held' = FALSE /\ gateHeld' = FALSE
  /\ \E hears \in BOOLEAN :
       /\ stt' = IF hears THEN "on" ELSE "failed"
       /\ mute' = IF hears THEN FALSE ELSE mute
  /\ UNCHANGED <<questions, caller, promptVars, lineVars, holding, holdOff, ownCut, greeting>>

Over == (stt = "failed" \/ questions = MaxQuestions) /\ arb = "idle" /\ UNCHANGED vars

Next ==
  \/ Interruption \/ (\E l \in Lines : PutLine(l) \/ LinePlayed(l))
  \/ NoticeBegins \/ NoticeEnds
  \/ Ask \/ Asked \/ Answered \/ Deadline \/ answer \/ Withdrawn \/ Connected
  \/ HoldBegins \/ HoldSaid \/ HoldDone \/ HangUp \/ ResumeBegins \/ Resumed
  \/ Over

Spec == Init /\ [][Next]_vars

(* Every wait of the session's has a limit. Nothing is assumed of the user or the caller. *)
Fairness ==
  /\ WF_vars(passing > 0 /\ Interruption)
  /\ \A l \in Lines : WF_vars(PutLine(l))
  /\ WF_vars(NoticeEnds) /\ WF_vars(Asked) /\ WF_vars(Answered \/ Deadline)
  /\ WF_vars(HoldBegins) /\ WF_vars(HoldSaid) /\ WF_vars(HoldDone)
  /\ WF_vars(ResumeBegins) /\ WF_vars(Resumed)

FairSpec == Spec /\ Fairness

-----------------------------------------------------------------------------
(* Properties.                                                                 *)

(* From the step-away line to the way back nobody in the room is heard, though *)
(* a start notice that was playing ends in between and listens again.          *)
UnheardOnHold == arb \in {"holding", "closing", "held"} => mute

(* Back from a call, from a question nobody took or from a notice, everything  *)
(* a hold or a question switches is back as it was.                            *)
NothingLeftOn ==
  arb = "idle" /\ stt = "on" /\ greeting # "saying" =>
    ~mute /\ ~gateHeld /\ ~holdOff /\ ~ownCut /\ ~on_hold

(* What the model was told of its answer is what happens: a question it closed *)
(* is not decided otherwise, and a call told as left to ring is not taken.      *)
AnswerIsWhatHappens ==
  arb \in {"take", "holding", "closing", "held"} /\ caller = "rings" =>
    told \notin {"declined", "closed-ringing"}

(* What is promised: a question is answered, by someone or by the clock, or        *)
(* withdrawn; a conversation whose caller has hung up comes back.                 *)
Promises == {"answer", "return"}
AreDue == {p \in Promises : IF p = "answer" THEN arb = "asking" ELSE arb = "held" /\ caller = "no"}
AreKept == {p \in Promises : IF p = "answer" THEN arb # "asking" ELSE arb = "idle"}

=============================================================================
