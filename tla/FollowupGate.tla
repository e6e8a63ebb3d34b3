----------------------------- MODULE FollowupGate ----------------------------
(* Who may speak unprompted, and when: followup_gate.py, with the two that wait   *)
(* at it for a window no turn is in (a run of the owed book's, the client notes'  *)
(* reaction) and the answer to a tool's result that it holds while the caller     *)
(* talks.                                                                         *)
(*                                                                                *)
(* Frames come as the pipeline sends them; the release timer, the hold's cap and  *)
(* the debounce run out whenever they run. What the pipeline does at once is over *)
(* before a second is: a result's answer is asked for and a request reaches the   *)
(* model within the debounce and the claim, and a push crosses a turn's start,    *)
(* never its commit.                                                              *)
EXTENDS Naturals, FiniteSets

CONSTANTS
  Calls,      \* tool calls the model makes
  Lasting,    \* those an interruption does not cancel (cancel_on_interruption False)
  MaxSpeech,  \* times the caller is heard (bound)
  MaxRuns     \* runs and reactions asked for (bound)

VARIABLES
  user, bot, llm, turn, vad, held,  \* FollowupGate._user, _bot, _llm, _turn, _vad, held
  speechPending,
  timer,      \* the release timer runs
  covered,    \* the last speech stopped before the marker a commit would take
  out,        \* _calls_out
  due,        \* results whose answer the aggregator is to ask for
  answer,     \* _held_answer
  unread,     \* ghost: a result no request has been rendered with
  lost,       \* ghost: what was unread was dropped, with no request behind it
  claimed,
  unrendered, \* _commit_unrendered
  asked,      \* requests on their way to the model, by who asked
  run,        \* _run: "none", "waits", "debounce"
  note,       \* ClientNotes' drainer: "none", "waits", "debounce"
  speeches, runs, called  \* bounds

vars == <<user, bot, llm, turn, vad, held, speechPending, timer, covered, out, due, answer,
          unread, lost, claimed, unrendered, asked, run, note, speeches, runs, called>>

speechVars == <<vad, speechPending, timer, covered>>
waitVars == <<run, note>>
boundVars == <<speeches, runs, called>>
turnVars == <<llm, turn, out, claimed, unrendered>>

TypeOK ==
  /\ user \in BOOLEAN /\ bot \in BOOLEAN /\ llm \in BOOLEAN /\ turn \in BOOLEAN /\ vad \in BOOLEAN
  /\ held \in BOOLEAN /\ speechPending \in BOOLEAN /\ timer \in BOOLEAN /\ covered \in BOOLEAN
  /\ answer \in BOOLEAN /\ unread \in BOOLEAN /\ lost \in BOOLEAN /\ claimed \in BOOLEAN
  /\ unrendered \in BOOLEAN
  /\ out \subseteq Calls /\ called \subseteq Calls /\ due \in 0..Cardinality(Calls)
  /\ asked \subseteq {"commit", "answer", "run", "note"}
  /\ run \in {"none", "waits", "debounce"} /\ note \in {"none", "waits", "debounce"}

Init ==
  /\ user = FALSE /\ bot = FALSE /\ llm = FALSE /\ turn = FALSE /\ vad = FALSE /\ held = FALSE
  /\ speechPending = FALSE /\ timer = FALSE /\ covered = FALSE /\ out = {} /\ due = 0
  /\ answer = FALSE /\ unread = FALSE /\ lost = FALSE /\ claimed = FALSE /\ unrendered = FALSE /\ asked = {}
  /\ run = "none" /\ note = "none" /\ speeches = 0 /\ runs = 0 /\ called = {}

clear == ~(user \/ bot \/ llm \/ held \/ turn \/ claimed \/ out # {})
caller_request_pending == user \/ unrendered
caller_speaking == vad \/ speechPending
door_open == clear /\ ~caller_speaking /\ ~answer /\ ~held

-----------------------------------------------------------------------------
(* The caller.                                                                   *)

VADStarts ==
  /\ ~vad /\ speeches < MaxSpeech
  /\ vad' = TRUE /\ speechPending' = TRUE /\ timer' = FALSE /\ covered' = FALSE
  /\ speeches' = speeches + 1
  /\ UNCHANGED <<lost, user, bot, held, due, answer, unread, asked, turnVars, waitVars, runs, called>>

VADStops ==
  /\ vad /\ vad' = FALSE
  /\ timer' = speechPending /\ covered' = TRUE
  /\ UNCHANGED <<lost, user, bot, held, speechPending, due, answer, unread, asked, turnVars, waitVars, boundVars>>

(* _release_answer: up to the model it goes. *)
Released == answer' = FALSE /\ asked' = IF answer THEN asked \cup {"answer"} ELSE asked

(* _speech_over: no words came of it. *)
SpeechOver ==
  /\ timer /\ timer' = FALSE /\ speechPending' = FALSE
  /\ Released
  /\ UNCHANGED <<lost, user, bot, held, vad, covered, due, unread, turnVars, waitVars, boundVars>>

(* An interruption: what is said and asked for goes, the calls with it. *)
Interrupts ==
  /\ llm' = FALSE /\ turn' = FALSE /\ out' = out \cap Lasting /\ claimed' = FALSE /\ unrendered' = FALSE
  /\ bot' = FALSE /\ answer' = FALSE /\ asked' = {}

(* Words start a turn. *)
DropRun == run' = "none"

TurnStarts ==
  /\ ~user /\ speeches > 0 /\ ~held
  /\ user' = TRUE
  /\ speechPending' = (speechPending /\ vad) /\ timer' = (timer /\ vad)
  /\ DropRun /\ Interrupts
  /\ UNCHANGED <<lost, held, vad, covered, due, unread, note, boundVars>>

(* Its end, and the commit of its words: a request of the caller's, the window    *)
(* claimed for it; speech they are the words of is over.                          *)
words_committed ==
  IF speechPending /\ ~vad /\ covered
  THEN speechPending' = FALSE /\ timer' = FALSE
  ELSE UNCHANGED <<speechPending, timer>>

TurnCommits ==
  /\ user /\ due = 0 /\ user' = FALSE
  /\ words_committed
  /\ unrendered' = TRUE /\ claimed' = TRUE /\ asked' = asked \cup {"commit"}
  /\ UNCHANGED <<lost, bot, held, vad, covered, due, answer, unread, llm, turn, out, waitVars, boundVars>>

(* A turn whose words all went elsewhere ends with nothing to commit. *)
TurnEndsEmpty ==
  /\ user /\ due = 0 /\ user' = FALSE
  /\ lost' = (lost \/ unread)
  /\ UNCHANGED <<bot, held, speechVars, due, answer, unread, asked, turnVars, waitVars, boundVars>>

(* A line of the session's own cuts what is said: no turn behind it. *)
OwnLine ==
  /\ ~user
  /\ Interrupts
  /\ lost' = (lost \/ (unread /\ due = 0))
  /\ UNCHANGED <<user, held, speechVars, due, unread, waitVars, boundVars>>

Hold ==
  /\ ~user /\ ~caller_speaking
  /\ held' = ~held
  /\ UNCHANGED <<lost, user, bot, speechVars, due, answer, unread, asked, turnVars, waitVars, boundVars>>

-----------------------------------------------------------------------------
(* The model and its calls.                                                      *)

(* A request is rendered, with every result in the context; its completion starts. *)
Rendered ==
  /\ asked # {} /\ ~llm
  /\ \E who \in asked : asked' = asked \ {who}
  /\ unread' = (due > 0) /\ lost' = FALSE /\ unrendered' = FALSE
  /\ llm' = TRUE /\ turn' = TRUE /\ claimed' = FALSE
  /\ UNCHANGED <<user, bot, held, speechVars, out, due, answer, waitVars, boundVars>>

(* It ends with text, which plays, or has said nothing (a call's own, a run's). *)
Completes ==
  /\ llm /\ llm' = FALSE /\ turn' = FALSE
  /\ bot' \in {bot, TRUE}
  /\ UNCHANGED <<lost, user, held, speechVars, out, due, answer, unread, claimed, unrendered, asked, waitVars, boundVars>>

(* The end of one that called and spoke, held until its text has played.          *)
LateEnd ==
  /\ out # {} /\ turn /\ ~llm /\ turn' = FALSE
  /\ UNCHANGED <<lost, user, bot, held, speechVars, due, answer, unread, llm, out, claimed, unrendered, asked,
                 waitVars, boundVars>>

BotStops ==
  /\ bot /\ bot' = FALSE
  /\ UNCHANGED <<lost, user, held, speechVars, due, answer, unread, asked, turnVars, waitVars, boundVars>>

CallStarts ==
  /\ llm /\ \E c \in Calls \ called : out' = out \cup {c} /\ called' = called \cup {c}
  /\ llm' = FALSE
  /\ UNCHANGED <<lost, user, bot, held, speechVars, due, answer, unread, turn, claimed, unrendered, asked,
                 waitVars, speeches, runs>>

\* Slip: a settled call stays on the list
CallSettledSlip(c, answers) ==
  /\ due' = IF answers /\ ~user THEN due + 1 ELSE due
  /\ unread' = (unread \/ answers) /\ lost' = (lost /\ ~answers)
  /\ UNCHANGED <<out, turn>>

(* Its result: the aggregator asks for the answer, unless it is to run none or a   *)
(* turn it has heard of is open.                                                  *)
CallSettled(c, answers) ==
  /\ out' = out \ {c}
  /\ turn' = IF ~answers /\ out' = {} THEN FALSE ELSE turn
  /\ due' = IF answers /\ ~user THEN due + 1 ELSE due
  /\ unread' = (unread \/ answers) /\ lost' = (lost /\ ~answers)

CallResult ==
  /\ \E c \in out, answers \in BOOLEAN : CallSettled(c, answers)
  /\ UNCHANGED <<user, bot, held, speechVars, answer, llm, claimed, unrendered, asked, waitVars, boundVars>>

(* The push comes up: dropped in a turn, held while the caller talks. *)
AnswerComes ==
  /\ due > 0 /\ due' = due - 1
  /\ answer' = (answer \/ (~user /\ caller_speaking))
  /\ asked' = IF ~user /\ ~caller_speaking THEN asked \cup {"answer"} ELSE asked
  /\ UNCHANGED <<lost, user, bot, held, speechVars, unread, turnVars, waitVars, boundVars>>

\* Slip: dropped at the cap, turn or no turn
AnswerCappedSlip ==
  /\ answer /\ answer' = FALSE
  /\ UNCHANGED <<lost, user, bot, held, speechVars, due, unread, asked, turnVars, waitVars, boundVars>>

(* The hold has lasted too long. *)
AnswerCapped ==
  /\ answer
  /\ IF user THEN answer' = FALSE /\ UNCHANGED asked ELSE Released
  /\ UNCHANGED <<lost, user, bot, held, speechVars, due, unread, turnVars, waitVars, boundVars>>

-----------------------------------------------------------------------------
(* A run at the door, and a reaction's wait for the window.                      *)

Ask ==
  /\ run = "none" /\ runs < MaxRuns /\ ~caller_request_pending
  /\ run' = "waits" /\ runs' = runs + 1
  /\ UNCHANGED <<lost, user, bot, held, speechVars, due, answer, unread, asked, turnVars, note, speeches, called>>

AskNote ==
  /\ note = "none" /\ runs < MaxRuns
  /\ note' = "waits" /\ runs' = runs + 1
  /\ UNCHANGED <<lost, user, bot, held, speechVars, due, answer, unread, asked, turnVars, run, speeches, called>>

DoorOpens ==
  /\ run = "waits" /\ ~held /\ ~caller_speaking /\ clear
  /\ run' = "debounce"
  /\ UNCHANGED <<lost, user, bot, held, speechVars, due, answer, unread, asked, turnVars, note, boundVars>>

prompt == due = 0 /\ asked = {}  \* the debounce outlasts what comes at once

Goes(who) == claimed' = TRUE /\ asked' = asked \cup {who}

RunGoes ==
  /\ run = "debounce" /\ prompt
  /\ IF door_open THEN run' = "none" /\ Goes("run") ELSE run' = "waits" /\ UNCHANGED <<claimed, asked>>
  /\ UNCHANGED <<lost, user, bot, held, speechVars, due, answer, unread, llm, turn, out, unrendered, note, boundVars>>

(* The hold cap, the caller still talking. *)
RunCapped ==
  /\ run = "waits" /\ caller_speaking /\ ~held
  /\ run' = "none"
  /\ UNCHANGED <<lost, user, bot, held, speechVars, due, answer, unread, asked, turnVars, note, boundVars>>

(* wait_until_idle(turn_free=True). *)
NoteWaits ==
  /\ note = "waits" /\ clear
  /\ note' = "debounce"
  /\ UNCHANGED <<lost, user, bot, held, speechVars, due, answer, unread, asked, turnVars, run, boundVars>>

NoteGoes ==
  /\ note = "debounce" /\ prompt
  /\ IF clear THEN note' = "none" /\ Goes("note") ELSE note' = "waits" /\ UNCHANGED <<claimed, asked>>
  /\ UNCHANGED <<lost, user, bot, held, speechVars, due, answer, unread, llm, turn, out, unrendered, run, boundVars>>

Over ==
  /\ speeches = MaxSpeech /\ runs = MaxRuns /\ ~vad /\ ~user /\ asked = {} /\ ~llm /\ ~bot
  /\ out = {} /\ due = 0
  /\ UNCHANGED vars

Next ==
  \/ VADStarts \/ VADStops \/ SpeechOver \/ TurnStarts \/ TurnCommits \/ TurnEndsEmpty \/ OwnLine \/ Hold
  \/ Rendered \/ Completes \/ LateEnd \/ BotStops \/ CallStarts \/ CallResult \/ AnswerComes \/ AnswerCapped
  \/ Ask \/ AskNote \/ DoorOpens \/ RunGoes \/ RunCapped \/ NoteWaits \/ NoteGoes
  \/ Over

Spec == Init /\ [][Next]_vars

-----------------------------------------------------------------------------
(* Properties.                                                                   *)

(* A tool's result is read: by a request on its way, by the answer held or to be   *)
(* asked for, or by the turn that is open ("its commit reads the result"). Two drop *)
(* it with no request behind them, and are left out until the next result or        *)
(* request: a line of the session's own that cuts in, and a turn that was open and   *)
(* then has nothing to commit.                                                       *)
ResultIsRead == unread /\ ~lost => asked # {} \/ answer \/ due > 0 \/ user

=============================================================================
