----------------------------- MODULE RunControl -----------------------------
(***************************************************************************)
(* Who answers what the user says about a request that is running: the     *)
(* model, or OpenClaw's spoken run control.                                *)
(*                                                                         *)
(* The brain (run_control.py, RunControlClaims) holds a final while one of *)
(* its consults runs, and the STT's frames behind it, and asks the plugin. *)
(* The plugin (provider.js, TeaportBridge) says "claimed" only once the    *)
(* relay has acted.  The relay is external: it reads every final from the  *)
(* plugin, and acts on control words while it has a run in flight, which   *)
(* it has from some time after it acknowledged the consult to some time    *)
(* before it answers it.  Brain and plugin share a socket, in order each   *)
(* way; the final and its transcript part ways in the brain, so that the   *)
(* question about a final and its transcript may cross.                    *)
(* A question may overtake its final's transcript, never one of the        *)
(* relay's acts or the session's other steps (mayCross, Overtaken).  How    *)
(* the line between them behaves (mayCross, timely) stays as it begins.     *)
(* Left out: the echo filter, which relay and plugin apply alike (an echo  *)
(* is a text that is not Control), and the end of the socket.              *)
(***************************************************************************)
EXTENDS Integers, Sequences, SequencesExt

CONSTANTS
  LastFrame,     \* how many frames the STT sends: a bound
  Control,       \* texts the relay's classifier calls run control
  Plain,         \* texts it does not
  NoWords,       \* a frame that is no final
  MaxConsults    \* the consults of the session: a bound

Frames == 1..LastFrame
Consults == 1..MaxConsults
Texts == Control \cup Plain \cup {NoWords}

VARIABLES
  mayCross,     \* a question may overtake its final's transcript
  timely,       \* the relay acts within CONFIRM_MS, the plugin answers in time
  text,         \* what each frame says
  said,         \* how many frames the STT has sent
  emitting,     \* the final whose transcript is not out yet, or 0
  arriving,     \* the frame on its way to RunControlClaims, or 0
  held,         \* _held
  asked,        \* _id, by number; 0: not asking
  asks,         \* _seq: the questions asked
  out,          \* the frames gone on, in order
  taken,        \* the finals gone on taken
  ended,        \* the session has ended
  consult,      \* the brain's consult in flight, or 0
  working,      \* whether the relay acknowledged it
  calls,        \* the consults it has made

  toPlugin,     \* the socket, each way
  toBrain,

  open,         \* _consults: "told", or "acked" by the relay
  heard,        \* _heard
  order,        \* _seq, the plugin's
  actedAt,      \* _actedSeq
  usedUp,       \* _answeredSeq
  claim,        \* _claim, a question waiting for an act; or NoQuestion

  running,      \* the relay's runs in flight
  duty,         \* the finals it is to act on
  acted,        \* history: the finals it acted on
  read,         \* history: the finals the plugin has been told or asked of
  confirmed,    \* history: those of them an act came after
  late,         \* history: finals asked about once their transcript was read
  met           \* history: finals asked about and known to the plugin

given      == <<mayCross, timely, text>>
brainVars  == <<given, said, emitting, arriving, held, asked, asks, out, taken, ended,
                consult, working, calls>>
pluginVars == <<open, heard, order, actedAt, usedUp, claim>>
relayVars  == <<running, duty, acted>>
history    == <<read, confirmed, late, met>>
vars == <<brainVars, toPlugin, toBrain, pluginVars, relayVars, history>>

NoQuestion == [id |-> 0, on |-> 0, since |-> 0, matched |-> FALSE]
NotHeard   == [on |-> 0, at |-> 0, running |-> FALSE]

Questions == [id: Nat, on: Frames \cup {0}, since: Nat, matched: BOOLEAN]

TypeOK ==
  /\ {mayCross, timely} \subseteq BOOLEAN
  /\ text \in [Frames -> Texts]
  /\ said \in Frames \cup {0} /\ {emitting, arriving} \subseteq Frames \cup {0}
  /\ {held, out} \subseteq Seq(Frames)
  /\ asked \in 0..asks /\ asks \in Nat
  /\ asked = 0 <=> held = <<>>
  /\ taken \subseteq Frames
  /\ consult \in 0..calls /\ calls \in 0..MaxConsults
  /\ {ended, working} \subseteq BOOLEAN
  /\ open \in [Consults -> {"none", "told", "acked"}]
  /\ heard \in [on: Frames \cup {0}, at: Nat, running: BOOLEAN]
  /\ order \in Nat /\ actedAt \in 0..order /\ usedUp \in 0..order
  /\ {claim} \subseteq Questions
  /\ running \subseteq {c \in Consults : open[c] = "acked"}
  /\ {duty, acted, read, confirmed, late, met} \subseteq SUBSET Frames

Init ==
  /\ mayCross \in BOOLEAN /\ timely \in BOOLEAN
  /\ text \in [Frames -> Texts]
  /\ said = 0 /\ emitting = 0 /\ arriving = 0 /\ held = <<>> /\ asked = 0 /\ asks = 0
  /\ out = <<>> /\ taken = {} /\ ended = FALSE /\ consult = 0 /\ calls = 0
  /\ working = FALSE
  /\ toPlugin = <<>> /\ toBrain = <<>>
  /\ open = [c \in Consults |-> "none"]
  /\ heard = NotHeard /\ order = 0 /\ actedAt = 0 /\ usedUp = 0
  /\ claim = NoQuestion
  /\ running = {} /\ duty = {} /\ acted = {}
  /\ read = {} /\ confirmed = {} /\ late = {} /\ met = {}

-----------------------------------------------------------------------------
(* The brain.                                                               *)

(* A frame of the STT; a final's transcript follows it out                  *)
(* (UserTranscriptEmitter).  The two are handed on in one turn of the event *)
(* loop and may cross further down; nothing else of the brain comes between *)
(* (a socket's round trip, a model's reply, a timer).                       *)
Settled == emitting = 0 /\ arriving = 0

Say ==
  /\ ~ended /\ said + 1 \in Frames /\ Settled
  /\ said' = said + 1
  /\ arriving' = said'
  /\ emitting' = IF text[said'] = NoWords THEN 0 ELSE said'
  /\ UNCHANGED <<given, held, asked, asks, out, taken, ended, consult, working, calls,
                 toPlugin, toBrain, pluginVars, relayVars, history>>

Emit ==
  /\ emitting # 0
  /\ toPlugin' = Append(toPlugin, [what |-> "transcript", on |-> emitting])
  /\ emitting' = 0
  /\ UNCHANGED <<given, said, arriving, held, asked, asks, out, taken, ended, consult,
                 working, calls, toBrain, pluginVars, relayVars, history>>

\* _asks: a final with words, while a consult runs.
Asks(f) == text[f] # NoWords /\ consult # 0

\* _ask: hold the frames fs, the first of them the final asked about.
AskAbout(fs) ==
  /\ asks' = asks + 1
  /\ asked' = asks'
  /\ held' = fs
  /\ toPlugin' = Append(toPlugin, [what |-> "question", id |-> asks', on |-> Head(fs)])

\* Slip: the question's id stays when the last of the frames has gone.
IdStays == held' = <<>> /\ UNCHANGED <<asked, asks, toPlugin>>

NotAsking == asked' = 0 /\ held' = <<>> /\ UNCHANGED <<asks, toPlugin>>

\* Slip: only finals are held behind a final.
TakeFinals ==
  /\ arriving # 0 /\ (mayCross \/ emitting = 0)
  /\ arriving' = 0
  /\ \/ /\ held # <<>> /\ Asks(arriving)
        /\ held' = Append(held, arriving)
        /\ UNCHANGED <<asked, asks, out, toPlugin>>
     \/ /\ held = <<>> /\ Asks(arriving)
        /\ AskAbout(<<arriving>>)
        /\ UNCHANGED out
     \/ /\ ~Asks(arriving)
        /\ out' = Append(out, arriving)
        /\ UNCHANGED <<held, asked, asks, toPlugin>>
  /\ UNCHANGED <<given, said, emitting, taken, ended, consult, working, calls, toBrain,
                 pluginVars, relayVars, history>>

Take ==
  /\ arriving # 0 /\ (mayCross \/ emitting = 0)
  /\ arriving' = 0
  /\ \/ /\ held # <<>>
        /\ held' = Append(held, arriving)
        /\ UNCHANGED <<asked, asks, out, toPlugin>>
     \/ /\ held = <<>> /\ Asks(arriving)
        /\ AskAbout(<<arriving>>)
        /\ UNCHANGED out
     \/ /\ held = <<>> /\ ~Asks(arriving)
        /\ out' = Append(out, arriving)
        /\ UNCHANGED <<held, asked, asks, toPlugin>>
  /\ UNCHANGED <<given, said, emitting, taken, ended, consult, working, calls, toBrain,
                 pluginVars, relayVars, history>>

\* The frames that go on when a question is decided: up to the next that asks.
Going(ending) ==
  SelectInSubSeq(held, 2, Len(held), LAMBDA f : ~ending /\ Asks(f))

(* _decided, of the question being asked.                                   *)
Decide(claimed, ending) ==
  /\ held # <<>>
  /\ taken' = IF claimed THEN taken \cup {Head(held)} ELSE taken
  /\ LET next == Going(ending)
     IN IF next = 0
        THEN out' = out \o held /\ NotAsking
        ELSE /\ out' = out \o SubSeq(held, 1, next - 1)
             /\ AskAbout(SubSeq(held, next, Len(held)))
  /\ UNCHANGED <<given, said, emitting, arriving, consult, working, calls, pluginVars,
                 relayVars, history>>

\* The next message of the plugin is this one.
FromPlugin(what) ==
  /\ toBrain # <<>> /\ Head(toBrain).what = what /\ Settled
  /\ toBrain' = Tail(toBrain)

\* Slip: the answer's id is not looked at.
AnyAnswer ==
  /\ FromPlugin("answer")
  /\ \/ /\ asked # 0 /\ ~ended
        /\ Decide(Head(toBrain).claimed, FALSE)
        /\ UNCHANGED ended
     \/ /\ asked = 0 \/ ended
        /\ UNCHANGED <<brainVars, toPlugin, pluginVars, relayVars, history>>

\* An answer; one to a question no longer asked changes nothing.
Answered ==
  /\ FromPlugin("answer")
  /\ LET m == Head(toBrain)
     IN \/ /\ m.id = asked /\ asked # 0 /\ ~ended
           /\ Decide(m.claimed, FALSE)
           /\ UNCHANGED ended
        \/ /\ m.id # asked \/ ended
           /\ UNCHANGED <<brainVars, toPlugin, pluginVars, relayVars, history>>

\* Slip: a question asked as another is decided has no timer.
ExpireFirst ==
  /\ asked = 1 /\ ~timely /\ ~ended /\ Settled
  /\ Decide(FALSE, FALSE)
  /\ UNCHANGED <<ended, toBrain>>

\* CLAIM_WAIT_S is longer than the plugin's own wait: it bounds a wedged plugin.
Expire ==
  /\ asked # 0 /\ ~timely /\ ~ended /\ Settled
  /\ Decide(FALSE, FALSE)
  /\ UNCHANGED <<ended, toBrain>>

\* The session's end: what is held goes on ahead of it, unasked.
End ==
  /\ ~ended /\ Settled
  /\ ended' = TRUE
  /\ UNCHANGED toBrain
  /\ \/ Decide(FALSE, TRUE)
     \/ /\ held = <<>>
        /\ UNCHANGED <<given, said, emitting, arriving, held, asked, asks, out, taken,
                       consult, working, calls, toPlugin, pluginVars, relayVars, history>>

Counting(c) ==
  /\ consult' = c
  /\ UNCHANGED <<given, said, emitting, arriving, held, asked, asks, out, taken, ended,
                 pluginVars, relayVars, history>>

StartConsult ==
  /\ ~ended /\ consult = 0 /\ calls < MaxConsults /\ Settled
  /\ calls' = calls + 1
  /\ Counting(calls')
  /\ working' = FALSE
  /\ toPlugin' = Append(toPlugin, [what |-> "tool_call", call |-> calls'])
  /\ UNCHANGED toBrain

\* The relay's acknowledgement, or its answer; neither counts for a consult that is over.
ConsultWorking ==
  /\ FromPlugin("working")
  /\ working' = (working \/ Head(toBrain).call = consult)
  /\ Counting(consult)
  /\ UNCHANGED <<calls, toPlugin>>

ConsultAnswered ==
  /\ FromPlugin("tool_result")
  /\ Counting(IF Head(toBrain).call = consult THEN 0 ELSE consult)
  /\ UNCHANGED <<working, calls, toPlugin>>

\* The brain's own wait runs out: an acknowledged consult is cancelled at the relay.
ConsultTimesOut ==
  /\ consult # 0 /\ ~ended /\ working /\ Settled
  /\ Counting(0)
  /\ toPlugin' = Append(toPlugin, [what |-> "tool_cancel", call |-> consult])
  /\ UNCHANGED <<working, calls, toBrain>>

\* One never acknowledged was asked of the agent directly, and is over.
ConsultAnsweredDirectly ==
  /\ consult # 0 /\ ~ended /\ ~working /\ ~timely /\ Settled
  /\ Counting(0)
  /\ UNCHANGED <<working, calls, toPlugin, toBrain>>

-----------------------------------------------------------------------------
(* The plugin.                                                              *)

Greater(a, b) == IF a > b THEN a ELSE b

ToPlugin(what) ==
  toPlugin # <<>> /\ Head(toPlugin).what = what /\ toPlugin' = Tail(toPlugin)

ConsultRunning == \E c \in Consults : open[c] = "acked"

SameWords(f, g) == f # 0 /\ g # 0 /\ text[f] = text[g]

Answer(q, claimed) == [what |-> "answer", id |-> q.id, claimed |-> claimed]

(* reply(): an answered question has used up its final; if it was asked     *)
(* ahead of that, the one with its words that came while it waited.         *)
UsedBy(q) ==
  LET came == IF ~q.matched /\ SameWords(heard.on, q.on) THEN heard.at ELSE 0
  IN Greater(usedUp, Greater(q.since, came))

Reply(q, claimed) ==
  /\ usedUp' = UsedBy(q)
  /\ toBrain' = Append(toBrain, Answer(q, claimed))

\* _recordFinal and _forward: the relay reads the words as they come in.
Hear ==
  /\ ToPlugin("transcript")
  /\ LET f == Head(toPlugin).on
     IN /\ order' = order + 1
        /\ heard' = [on |-> f, at |-> order', running |-> ConsultRunning]
        /\ duty' = IF running # {} /\ text[f] \in Control THEN duty \cup {f} ELSE duty
        /\ read' = read \cup {f}
  /\ UNCHANGED <<brainVars, toBrain, open, actedAt, usedUp, claim, running,
                 acted, confirmed, late, met>>

\* Slip: by the consults open now.
RunningNow(matched) == ConsultRunning

\* Whether a consult was open when the relay read the words asked about.
WasRunning(matched) == IF matched THEN heard.running ELSE ConsultRunning

(* _answerRunControl.  The question is matched with the newest final, if    *)
(* that has its words and no answer has used it up.  The classifier is      *)
(* loaded as the session is made (memoRunControl), so that its promise      *)
(* keeps no message waiting.  Not control: no.  Acted on since the relay    *)
(* read the words: yes.  Else the claim waits, and an older one is settled. *)
Question ==
  /\ ToPlugin("question")
  /\ LET m       == Head(toPlugin)
         matched == heard.at > usedUp /\ SameWords(heard.on, m.on)
         q       == [id |-> m.id, on |-> m.on, matched |-> matched,
                     since |-> IF matched THEN heard.at ELSE 0]
         judged  == IF matched THEN q ELSE [q EXCEPT !.since = order + 1]
         control == text[m.on] \in Control /\ WasRunning(matched)
     IN /\ \/ /\ ~control
              /\ Reply(q, FALSE)
              /\ UNCHANGED <<order, claim>>
           \/ /\ control
              /\ order' = IF matched THEN order ELSE order + 1
              /\ \/ /\ actedAt > judged.since
                    /\ Reply(judged, TRUE)
                    /\ UNCHANGED claim
                 \/ /\ actedAt <= judged.since
                    /\ claim' = judged
                    /\ IF claim = NoQuestion THEN UNCHANGED <<usedUp, toBrain>>
                                            ELSE Reply(claim, FALSE)
        /\ late' = late \cup ({m.on} \cap read)
        /\ met' = IF matched /\ heard.on = m.on THEN met \cup {m.on} ELSE met
        /\ read' = read \cup {m.on}
  /\ UNCHANGED <<brainVars, open, heard, actedAt, relayVars, confirmed>>

\* CONFIRM_MS without an act.
Unconfirmed ==
  /\ claim # NoQuestion
  /\ timely => duty = {}
  /\ Reply(claim, FALSE)
  /\ claim' = NoQuestion
  /\ UNCHANGED <<brainVars, toPlugin, open, heard, order, actedAt, relayVars,
                 history>>

ToolCall ==
  /\ ToPlugin("tool_call")
  /\ open' = [open EXCEPT ![Head(toPlugin).call] = "told"]
  /\ UNCHANGED <<brainVars, toBrain, heard, order, actedAt, usedUp, claim,
                 relayVars, history>>

\* _cancelToolCall: the relay aborts the run.
ToolCancel ==
  /\ ToPlugin("tool_cancel")
  /\ open' = [open EXCEPT ![Head(toPlugin).call] = "none"]
  /\ running' = running \ {Head(toPlugin).call}
  /\ UNCHANGED <<brainVars, toBrain, heard, order, actedAt, usedUp, claim,
                 duty, acted, history>>

-----------------------------------------------------------------------------
(* The relay (external), through the plugin's methods.                      *)

Ack(c) ==
  /\ open[c] = "told"
  /\ open' = [open EXCEPT ![c] = "acked"]
  /\ toBrain' = Append(toBrain, [what |-> "working", call |-> c])
  /\ UNCHANGED <<brainVars, toPlugin, heard, order, actedAt, usedUp,
                 claim, relayVars, history>>

RunCounts(c) ==
  /\ open[c] = "acked" /\ c \notin running
  /\ running' = running \cup {c}
  /\ UNCHANGED <<brainVars, toPlugin, toBrain, pluginVars, duty, acted, history>>

RunForgotten(c) ==
  /\ c \in running /\ running' = running \ {c}
  /\ UNCHANGED <<brainVars, toPlugin, toBrain, pluginVars, duty, acted, history>>

\* submitToolResult with the consult's answer.
Result(c) ==
  /\ open[c] # "none" /\ c \notin running
  /\ open' = [open EXCEPT ![c] = "none"]
  /\ toBrain' = Append(toBrain, [what |-> "tool_result", call |-> c])
  /\ UNCHANGED <<brainVars, toPlugin, heard, order, actedAt, usedUp, claim,
                 relayVars, history>>

(* _relayActed: a claim that waits is confirmed, ahead of all the act sends *)
(* the brain itself.                                                        *)
RelayActed(more) ==
  /\ order' = order + 1
  /\ actedAt' = order'
  /\ confirmed' = confirmed \cup read
  /\ claim' = NoQuestion
  /\ IF claim = NoQuestion
     THEN toBrain' = toBrain \o more /\ UNCHANGED usedUp
     ELSE /\ toBrain' = Append(toBrain, Answer(claim, TRUE)) \o more
          /\ usedUp' = UsedBy(claim)

\* sendUserMessage: its reply to the words.
ActReply(f) ==
  /\ f \in duty
  /\ duty' = duty \ {f}
  /\ acted' = acted \cup {f}
  /\ RelayActed(<<>>)
  /\ UNCHANGED <<brainVars, toPlugin, open, heard, running, read, late, met>>

\* A consult answered "cancelled"; a reply to the words may follow, or not.
ActCancel(f, c) ==
  /\ f \in duty /\ c \in running
  /\ duty' \in {duty, duty \ {f}}
  /\ acted' = acted \cup {f}
  /\ open' = [open EXCEPT ![c] = "none"]
  /\ running' = running \ {c}
  /\ RelayActed(<<[what |-> "tool_result", call |-> c]>>)
  /\ UNCHANGED <<brainVars, toPlugin, heard, read, late, met>>

-----------------------------------------------------------------------------
Brain == Say \/ Answered \/ Expire \/ End
         \/ StartConsult \/ ConsultWorking \/ ConsultAnswered
         \/ ConsultTimesOut \/ ConsultAnsweredDirectly

Plugin == Question \/ Unconfirmed \/ ToolCall \/ ToolCancel

Relay == \E c \in Consults : \/ Ack(c) \/ RunCounts(c) \/ RunForgotten(c) \/ Result(c)
                             \/ \E f \in Frames : ActCancel(f, c)

RelayReplies == \E f \in Frames : ActReply(f)

AllOver == ended /\ toPlugin = <<>> /\ toBrain = <<>> /\ UNCHANGED vars

(* A transcript is right behind the question that overtook it: the plugin   *)
(* reads it before any timer, round trip or act of the relay's.             *)
Overtaken ==
  \/ emitting \in read
  \/ toPlugin # <<>> /\ Head(toPlugin).what = "transcript" /\ Head(toPlugin).on \in read

Next ==
  \/ Take \/ Emit \/ Hear
  \/ ~Overtaken /\ (Brain \/ Plugin \/ Relay \/ RelayReplies \/ AllOver)

Spec == Init /\ [][Next]_vars

(* The brain's own tasks run, its timer among them.  Nothing is asked of    *)
(* the plugin, the relay or the user.                                       *)
FairSpec == Spec /\ WF_vars(Take) /\ WF_vars(Emit) /\ WF_vars(Expire)

-----------------------------------------------------------------------------
(* Properties.                                                              *)

(* No frame is lost, doubled or overtaken, whatever is held, asked, decided *)
(* or let through by the timer: "no close, report or turn-text correction   *)
(* overtakes the words it follows" (process_frame).                         *)
InOrder ==
  out \o held \o (IF arriving = 0 THEN <<>> ELSE <<arriving>>) = [i \in 1..said |-> i]

(* Of a question that does not overtake its transcript: the model is kept   *)
(* from answering only what the relay acted after.  An act on earlier words,*)
(* or a late answer about them, claims no later ones.                       *)
ClaimedIsConfirmed == ~mayCross => taken \subseteq confirmed

(* When the relay acts in time, what it acts on is not answered by the      *)
(* model as well, if the plugin knows the final it is asked about: the      *)
(* newest it has read, and none that an earlier answer used up.             *)
Doubled(finals) == ~ended /\ \E f \in acted \cap finals : f \in ToSet(out) \ taken

AnsweredOnce == timely => ~Doubled(met)

(* The three together: who answers is decided in order, and once.           *)
RunControlIsTrue == InOrder /\ ClaimedIsConfirmed /\ AnsweredOnce

(* "control -> claimed when the relay acts [...], counted from when it read *)
(* the words -- at once if it already has" (provider.js): so too when the   *)
(* user has said more since.                                                *)
AnsweredOnceSaidMore == timely /\ ~mayCross => ~Doubled(late)

(* What is promised: a frame goes on, even past a plugin that never answers.*)
Promises == Frames
AreDue == 1..said
AreKept == {f \in Frames : ended \/ f \in ToSet(out)}

=============================================================================
