----------------------------- MODULE BargePause -----------------------------
(* Playout pauses on the caller's speech: barge_pause.py (the pauser, the      *)
(* judge's gate, the start strategy's side of a pause) and the output's pause  *)
(* in playout_pause.py.                                                        *)
(*                                                                             *)
(* The pauser and the output change the pause together; what they say of it    *)
(* goes up as notices, behind one another, while the STT's frames come down in *)
(* a queue of their own. Timers run out whenever they are running, but the     *)
(* grace, which is there to let frames on their way down arrive first.         *)
EXTENDS Naturals, Sequences, FiniteSets

CONSTANTS
  MaxSpeech,   \* utterances of the caller (bound)
  MaxReplies,  \* replies spoken (bound)
  Reports,     \* the engine reports how far it has transcribed (HEARD OUT)
  SttHolds     \* the STT holds the pause for a turn's final (the phone's)

VARIABLES
  replies,   \* replies begun
  bot,       \* the output plays a reply
  playing,   \* PausablePlayout._playing
  notices,   \* the output's notices on their way up to the pauser and the gate
    \* and, passed on by it, on their way to the gate and the strategy
  cutAt,     \* the interruption: "none", "pauser", "output"
  speaking,  \* the VAD or the onset test hears the caller (_speaking)
  botSpeaking, paused, holds, resumeTask, capTask, watch, heard, worded,
  nowords, noisy,      \* the pauser's, by their names there (nowords: _noword_at)
  spoken,    \* what was said, in order: "noise", "short", "long" or "stop"
  engine,    \* the utterances the engine has not finished
  interims,  \* those of them an interim has been returned of
  sttWatch,  \* stt.watch_heard: the number, and the utterances it waits for
  frames,    \* the STT's frames on their way to the gate
  gateHeld,  \* BargeInJudgeGate._held
  asked,     \* the words the judge is deciding on, {} for none
  continued, \* _continued: the open words it carried on over, {} for none
  turnOpen,  \* a user turn is open
  gatePaused,\* the strategy's _playout_paused
  gateBot,   \* and its _bot_speaking
  tailOver,  \* the audio held back would be over by now
  dropped    \* utterances dropped over a verdict, with what the judge was asked

pauserVars == <<paused, holds, resumeTask, capTask, watch, heard, worded, nowords, noisy>>
sttVars == <<spoken, engine, interims, sttWatch>>
gateVars == <<gateHeld, asked, continued, turnOpen, dropped>>
viewVars == <<gatePaused, gateBot, tailOver>>
outVars == <<replies, bot, playing, notices>>

vars == <<outVars, cutAt, speaking, botSpeaking, pauserVars, sttVars, frames,
          gateVars, viewVars>>

Utterances == 1..MaxSpeech
Kinds == {"noise", "short", "long", "stop"}
Frame(kind, n) == [kind |-> kind, n |-> n]

TypeOK ==
  /\ replies \in 0..MaxReplies
  /\ {bot, playing, botSpeaking, paused, heard, worded, noisy, turnOpen, gatePaused, gateBot,
      tailOver} \subseteq BOOLEAN
  /\ cutAt \in {"none", "pauser", "output"}
  /\ speaking \in BOOLEAN /\ holds \subseteq {"judge", "stt"}
  /\ resumeTask \in {"none", "grace", "window"}
  /\ capTask \in {"none", "running", "grace"}
  /\ nowords \in 0..2 /\ watch \in 0..MaxSpeech
  /\ spoken \in Seq(Kinds) /\ Len(spoken) <= MaxSpeech
  /\ interims \subseteq Utterances /\ asked \subseteq Utterances /\ continued \subseteq Utterances
  /\ \A i \in DOMAIN engine : engine[i] \in Utterances
  /\ \A f \in {frames[i] : i \in DOMAIN frames} \cup {gateHeld[i] : i \in DOMAIN gateHeld} :
       f.kind \in {"interim", "final", "close", "heard"} /\ f.n \in Utterances

Init ==
  /\ replies = 0 /\ bot = FALSE /\ playing = TRUE /\ notices = <<>>
  /\ cutAt = "none" /\ speaking = FALSE /\ botSpeaking = FALSE
  /\ paused = FALSE /\ holds = {} /\ resumeTask = "none" /\ capTask = "none"
  /\ watch = 0 /\ heard = FALSE /\ worded = FALSE /\ nowords = 0 /\ noisy = FALSE
  /\ spoken = <<>> /\ engine = <<>> /\ interims = {} /\ sttWatch = [n |-> 0, left |-> 0]
  /\ frames = <<>> /\ gateHeld = <<>> /\ asked = {} /\ continued = {} /\ turnOpen = FALSE
  /\ gatePaused = FALSE /\ gateBot = FALSE /\ tailOver = FALSE /\ dropped = {}

-----------------------------------------------------------------------------
(* The pauser's own steps, as the handlers below use them.                     *)

(* _end: the pause is over here. *)
End ==
  /\ paused' = FALSE /\ holds' = {} /\ watch' = 0 /\ heard' = FALSE /\ worded' = FALSE
  /\ resumeTask' = "none" /\ capTask' = "none"

(* _schedule_resume: only over a pause that nothing holds. *)
Schedules == paused /\ ~speaking /\ holds = {}

(* _quiet_resume: which wait the reply resumes after. *)
QuietWait(released) == IF heard /\ ~released THEN "grace" ELSE "window"

(* _resume: back to playing; a pause with no words, and nothing holding it, counts. *)
Resume(counted) ==
  /\ End
  /\ playing' = TRUE
  /\ notices' = IF playing THEN notices ELSE Append(notices, "resumed")
  /\ LET counts == counted /\ ~worded IN
     /\ nowords' = IF counts THEN (IF nowords = 2 THEN 2 ELSE nowords + 1) ELSE nowords
     /\ noisy' = (noisy \/ (counts /\ nowords >= 1))

\* Slip: a resume that was to come still comes.
HoldOnSlip(who, words) ==
  /\ holds' = holds \cup {who} /\ worded' = (worded \/ words)
  /\ nowords' = IF words THEN 0 ELSE nowords
  /\ noisy' = (noisy /\ ~words)
  /\ UNCHANGED <<paused, resumeTask, capTask, watch, heard>>

(* hold_resume(on): what was to resume waits, and its words re-arm the pauses. *)
HoldOn(who, words) ==
  /\ holds' = holds \cup {who} /\ resumeTask' = "none"
  /\ worded' = (worded \/ words)
  /\ nowords' = IF words THEN 0 ELSE nowords
  /\ noisy' = (noisy /\ ~words)
  /\ UNCHANGED <<paused, capTask, watch, heard>>

HoldOff(who, heardNow) ==
  /\ holds' = holds \ {who} /\ heard' = (heard \/ heardNow)
  /\ resumeTask' = IF holds' = {} /\ paused /\ ~speaking /\ resumeTask = "none"
                   THEN QuietWait(TRUE) ELSE resumeTask
  /\ UNCHANGED <<paused, capTask, watch, worded, nowords, noisy>>

\* Slip: a close resumes though more is being transcribed.
NoTurnInSlip(words) ==
  /\ worded' = (worded \/ words)
  /\ nowords' = IF words THEN 0 ELSE nowords
  /\ noisy' = (noisy /\ ~words)
  /\ resumeTask' = IF paused /\ ~speaking /\ holds = {} THEN "grace" ELSE resumeTask
  /\ UNCHANGED <<paused, holds, capTask, watch, heard>>

(* on_final_without_turn: a close of the speech with no turn in it. *)
NoTurnIn(words) ==
  /\ worded' = (worded \/ words)
  /\ nowords' = IF words THEN 0 ELSE nowords
  /\ noisy' = (noisy /\ ~words)
  /\ resumeTask' = IF (watch = 0 \/ heard) /\ Schedules
                   THEN "grace" ELSE resumeTask
  /\ UNCHANGED <<paused, holds, capTask, watch, heard>>

(* on_speech_heard: the STT's notice for this watch. *)
HeardOut(n) ==
  IF n # watch THEN UNCHANGED pauserVars
  ELSE /\ heard' = TRUE
       /\ resumeTask' = IF Schedules THEN "grace" ELSE resumeTask
       /\ UNCHANGED <<paused, holds, capTask, watch, worded, nowords, noisy>>

(* _may_pause, and the output's pause with it. A limit on pauses with no words *)
(* runs out when nothing has been skipped for a while; the end of a reply and   *)
(* an unpausable line are not paused.                                           *)
Pauses ==
  /\ ~paused /\ botSpeaking
  /\ noisy' \in {FALSE, noisy}
  /\ ~noisy'
  /\ paused' = TRUE /\ worded' = FALSE /\ capTask' = "running"
  /\ playing' = FALSE
  /\ notices' = IF playing THEN Append(notices, "paused") ELSE notices
  /\ UNCHANGED <<holds, nowords>>

LeavesPlaying == UNCHANGED <<paused, worded, capTask, playing, notices, holds, nowords, noisy>>

-----------------------------------------------------------------------------
(* The caller.                                                                 *)

(* Speech begins: a new utterance. *)
SpeechStarts ==
  /\ ~speaking /\ Len(spoken) < MaxSpeech
  /\ speaking' = TRUE
  /\ \E kind \in Kinds : spoken' = Append(spoken, kind)
  /\ engine' = Append(engine, Len(spoken) + 1)
  /\ resumeTask' = "none" /\ watch' = 0 /\ heard' = FALSE
  /\ Pauses \/ LeavesPlaying
  /\ UNCHANGED <<replies, bot, cutAt, botSpeaking, interims, sttWatch, frames,
                 gateVars, viewVars>>

(* It ends: the STT is asked to say when it has transcribed the speech. *)
SpeechStops ==
  /\ speaking
  /\ speaking' = FALSE
  /\ LET quiet == paused
         asks == quiet /\ ~noisy /\ Reports
     IN
     /\ watch' = IF asks THEN Len(spoken) ELSE watch
     /\ sttWatch' = IF asks THEN [n |-> Len(spoken), left |-> Len(engine)] ELSE sttWatch
     /\ holds' = IF SttHolds /\ quiet /\ engine # <<>> THEN holds \cup {"stt"} ELSE holds
     /\ resumeTask' = IF quiet /\ ~noisy /\ resumeTask = "none" /\ holds' = {}
                      THEN "window" ELSE resumeTask
  /\ UNCHANGED <<outVars, cutAt, botSpeaking, paused, capTask, heard, worded, nowords,
                 noisy, spoken, engine, interims, frames, gateVars, viewVars>>

-----------------------------------------------------------------------------
(* The engine and the STT: words in order, then the notice that was asked for. *)

Interim ==
  /\ engine # <<>> /\ Head(engine) \notin interims /\ spoken[Head(engine)] = "long"
  /\ interims' = interims \cup {Head(engine)}
  /\ frames' = Append(frames, Frame("interim", Head(engine)))
  /\ UNCHANGED <<outVars, cutAt, speaking, botSpeaking, pauserVars, spoken, engine,
                 sttWatch, gateVars, viewVars>>

(* A segment closes: its final, or a close without words; the turn's final lets go. *)
CloseOf(n) == Frame(IF spoken[n] = "noise" THEN "close" ELSE "final", n)

Transcribed ==
  /\ engine # <<>> /\ (Len(engine) > 1 \/ ~speaking)
  /\ engine' = Tail(engine)
  /\ frames' = Append(frames, CloseOf(Head(engine)))
  /\ sttWatch' = [sttWatch EXCEPT !.left = IF @ = 0 THEN 0 ELSE @ - 1]
  /\ IF "stt" \in holds THEN HoldOff("stt", FALSE) ELSE UNCHANGED pauserVars
  /\ UNCHANGED <<outVars, cutAt, speaking, botSpeaking, spoken, interims, gateVars,
                 viewVars>>

(* _push_if_heard *)
ReportsHeard ==
  /\ sttWatch.n > 0 /\ sttWatch.left = 0
  /\ frames' = Append(frames, Frame("heard", sttWatch.n))
  /\ sttWatch' = [n |-> 0, left |-> 0]
  /\ UNCHANGED <<outVars, cutAt, speaking, botSpeaking, pauserVars, spoken, engine,
                 interims, gateVars, viewVars>>

-----------------------------------------------------------------------------
(* The start strategy and the judge's gate in front of it.                     *)

Stops(n) == spoken[n] = "stop"
pausedForJudging == gateBot /\ gatePaused /\ ~tailOver

(* Whether words start a turn: over a silent bot any do, over a reply those past *)
(* the word guard, and stop words; one the pause has kept silent long enough     *)
(* counts as silent.                                                             *)
StartsTurn(n) == ~gateBot \/ (gatePaused /\ tailOver) \/ spoken[n] \in {"long", "stop"}

(* What the strategy makes of a frame: the pauser is told of speech with no turn. *)
Counted(f) ==
  CASE f.kind \in {"interim", "final"} /\ ~turnOpen /\ StartsTurn(f.n) -> "turn"
    [] f.kind = "final" /\ gateBot -> "words"
    [] f.kind = "close" /\ gatePaused -> "close"
    [] f.kind = "heard" /\ gatePaused -> "heard"
    [] OTHER -> "nothing"

HeardIn(fs) == watch > 0 /\ \E i \in DOMAIN fs : fs[i] = Frame("heard", watch)

(* Of the frames the gate lets on at once, the first that counts, a turn above all. *)
Count(fs, holding) ==
  LET made == {Counted(fs[i]) : i \in DOMAIN fs} IN
  /\ turnOpen' = (turnOpen \/ "turn" \in made)
  /\ cutAt' = IF "turn" \in made THEN "pauser" ELSE cutAt
  /\ CASE holding -> HoldOff("judge", HeardIn(fs))
       [] ~holding /\ "words" \in made -> NoTurnIn(TRUE)
       [] ~holding /\ "close" \in made -> NoTurnIn(FALSE)
       [] ~holding /\ "heard" \in made -> HeardOut(fs[1].n)
       [] OTHER -> UNCHANGED pauserVars

Words(fs) == {fs[i].n : i \in {j \in DOMAIN fs : fs[j].kind \in {"interim", "final"}}}

(* _open_words: the words of a segment not closed in what is held. *)
OpenWords(fs) ==
  {n \in Words(fs) : ~\E i \in DOMAIN fs : fs[i].kind \in {"final", "close"} /\ fs[i].n = n}

Lets(fs) ==
  /\ gateHeld' = <<>> /\ asked' = {}
  /\ Count(fs, gateHeld # <<>>)

Holds(f) ==
  /\ gateHeld' = Append(gateHeld, f)
  /\ UNCHANGED <<cutAt, turnOpen>>

(* _gate: hold, drop or pass on the next of the STT's frames. *)
Gate ==
  /\ frames # <<>> /\ frames' = Tail(frames) /\ cutAt # "pauser"
  /\ LET f == Head(frames)
         worded_ == f.kind \in {"interim", "final"}
     IN
     \/ /\ gateHeld # <<>> /\ worded_ /\ (Stops(f.n) \/ ~pausedForJudging)
        /\ Lets(Append(gateHeld, f))
        /\ UNCHANGED <<continued, dropped>>
     \/ /\ gateHeld # <<>> /\ ~(worded_ /\ (Stops(f.n) \/ ~pausedForJudging))
        /\ Holds(f)
        /\ UNCHANGED <<pauserVars, asked, continued, dropped>>
     \/ /\ gateHeld = <<>> /\ worded_ /\ continued = {f.n}
        /\ continued' = IF f.kind = "final" THEN {} ELSE continued
        /\ IF f.kind = "final" /\ gatePaused THEN NoTurnIn(FALSE) ELSE UNCHANGED pauserVars
        /\ UNCHANGED <<gateHeld, asked, dropped, cutAt, turnOpen>>
     \/ /\ gateHeld = <<>> /\ worded_ /\ continued # {f.n}
        /\ ~turnOpen /\ pausedForJudging /\ spoken[f.n] = "long"
        /\ Holds(f) /\ asked' = {f.n} /\ continued' = {}
        /\ HoldOn("judge", TRUE)
        /\ UNCHANGED dropped
     \/ /\ gateHeld = <<>>
        /\ worded_ => continued # {f.n} /\ ~(~turnOpen /\ pausedForJudging /\ spoken[f.n] = "long")
        /\ continued' = IF f.kind = "heard" THEN continued ELSE {}
        /\ Lets(<<f>>)
        /\ UNCHANGED dropped
  /\ UNCHANGED <<outVars, speaking, botSpeaking, sttVars, viewVars>>

(* _decide: a verdict, or none in time. To carry on it must have been asked on  *)
(* every word held; else it is asked again.                                     *)
AsksAgain == asked # Words(gateHeld)

CarriesOn ==
  /\ continued' = OpenWords(gateHeld)
  /\ dropped' = dropped \cup {[n |-> n, asked |-> asked] : n \in Words(gateHeld)}
  /\ gateHeld' = <<>> /\ asked' = {}
  /\ HoldOff("judge", HeardIn(gateHeld))
  /\ UNCHANGED <<cutAt, turnOpen>>

Verdict ==
  /\ asked # {} /\ gateHeld # <<>> /\ cutAt # "pauser"
  /\ \/ /\ AsksAgain
        /\ asked' = Words(gateHeld)
        /\ UNCHANGED <<pauserVars, gateHeld, continued, turnOpen, dropped, cutAt>>
     \/ /\ ~AsksAgain
        /\ CarriesOn
     \/ /\ Lets(gateHeld)
        /\ UNCHANGED <<continued, dropped>>
  /\ UNCHANGED <<outVars, speaking, botSpeaking, sttVars, frames, viewVars>>

(* The audio held back would have been over by now. *)
TailRunsOut ==
  /\ gatePaused /\ ~tailOver
  /\ tailOver' = TRUE
  /\ UNCHANGED <<outVars, cutAt, speaking, botSpeaking, pauserVars, sttVars, frames,
                 gateVars, gatePaused, gateBot>>

-----------------------------------------------------------------------------
(* The pauser's timers, what it hears of the output, and the output.           *)

Timer(kind) ==
  /\ resumeTask = kind /\ holds = {}
  /\ kind = "grace" => frames = <<>>
  /\ Resume(TRUE)
  /\ UNCHANGED <<replies, bot, cutAt, speaking, botSpeaking, sttVars, frames, gateVars,
                 viewVars>>

GraceOver == Timer("grace")
WindowOver == Timer("window")

(* The cap. A turn the STT holds the pause for closes on the words in hand      *)
(* first, which get the grace.                                                  *)
Cap ==
  /\ capTask = "running"
  /\ IF "stt" \in holds /\ engine # <<>>
     THEN /\ capTask' = "grace"
          /\ frames' = Append(frames, CloseOf(Head(engine)))
          /\ engine' = Tail(engine) /\ holds' = holds \ {"stt"}
          /\ sttWatch' = [sttWatch EXCEPT !.left = IF @ = 0 THEN 0 ELSE @ - 1]
          /\ UNCHANGED <<playing, notices, paused, resumeTask, watch, heard, worded, nowords, noisy>>
     ELSE Resume(holds = {}) /\ UNCHANGED <<frames, engine, sttWatch>>
  /\ UNCHANGED <<replies, bot, cutAt, speaking, botSpeaking, spoken, interims, gateVars, viewVars>>

CapGrace ==
  /\ capTask = "grace" /\ frames = <<>>
  /\ Resume(FALSE)
  /\ UNCHANGED <<replies, bot, cutAt, speaking, botSpeaking, sttVars, frames, gateVars,
                 viewVars>>

\* Slip: any notice of a resume ends the pause.
ResumedItselfSlip(note) == note = "resumed" /\ paused

(* The output resumed by itself (its write guard) if it plays now: a notice of  *)
(* a resume that a newer pause overtook does not end that one.                  *)
ResumedItself(note) == note = "resumed" /\ paused /\ playing

(* A notice reaches the pauser; a bot heard while the caller talks is paused.   *)
PauserHears(note) ==
  /\ botSpeaking' = IF note = "started" THEN TRUE ELSE IF note = "stopped" THEN FALSE
                    ELSE botSpeaking
  /\ CASE note = "started" /\ speaking /\ ~paused /\ ~noisy ->
            /\ paused' = TRUE /\ worded' = FALSE /\ capTask' = "running"
            /\ playing' = FALSE
            /\ notices' = IF playing THEN Append(Tail(notices), "paused") ELSE Tail(notices)
            /\ UNCHANGED <<holds, resumeTask, watch, heard, nowords, noisy>>
       [] ResumedItself(note) ->
            End /\ notices' = Tail(notices) /\ UNCHANGED <<playing, nowords, noisy>>
       [] note = "stopped" ->
            /\ nowords' = 0 /\ noisy' = FALSE
            /\ notices' = Tail(notices)
            /\ UNCHANGED <<playing, paused, holds, resumeTask, capTask, watch, heard, worded>>
       [] OTHER -> notices' = Tail(notices) /\ UNCHANGED <<playing, pauserVars>>

(* It goes on up to the strategy and the gate: at the end of the pause or of    *)
(* the reply, what is held goes on as it came.                                  *)
Relayed(note) ==
  /\ gatePaused' = (note = "paused")
  /\ gateBot' = (note # "stopped")
  /\ tailOver' = FALSE

Hears ==
  /\ notices # <<>> /\ cutAt # "pauser"
  /\ ~(gateHeld # <<>> /\ Head(notices) \in {"resumed", "stopped"})
  /\ PauserHears(Head(notices)) /\ Relayed(Head(notices))
  /\ UNCHANGED <<replies, bot, cutAt, speaking, sttVars, frames, gateVars>>

(* What is held goes first, for the pause that is over. *)
Releases ==
  /\ notices # <<>> /\ Head(notices) \in {"resumed", "stopped"} /\ cutAt # "pauser"
  /\ gateHeld # <<>>
  /\ Lets(gateHeld)
  /\ UNCHANGED <<outVars, speaking, botSpeaking, sttVars, frames, continued, dropped, viewVars>>

(* The interruption passes the pauser, then the output, which drops its pause   *)
(* with the audio it held.                                                      *)
CutPauser ==
  /\ cutAt = "pauser" /\ cutAt' = "output"
  /\ End
  /\ continued' = {}
  /\ UNCHANGED <<outVars, speaking, botSpeaking, nowords, noisy, sttVars, frames,
                 gateHeld, asked, turnOpen, dropped, viewVars>>

CutOutput ==
  /\ cutAt = "output" /\ cutAt' = "none"
  /\ playing' = TRUE /\ bot' = FALSE
  /\ notices' = IF bot THEN Append(notices, "stopped") ELSE notices
  /\ UNCHANGED <<replies, speaking, botSpeaking, pauserVars, sttVars, frames, gateVars,
                 viewVars>>

(* A reply begins, the turn it answers over; and ends once it is played. *)
ReplyStarts ==
  /\ ~bot /\ playing /\ cutAt = "none" /\ replies < MaxReplies
  /\ bot' = TRUE /\ replies' = replies + 1
  /\ notices' = Append(notices, "started")
  /\ turnOpen' = FALSE
  /\ UNCHANGED <<playing, cutAt, speaking, botSpeaking, pauserVars, sttVars, frames,
                 gateHeld, asked, continued, dropped, viewVars>>

ReplyEnds ==
  /\ bot /\ playing
  /\ bot' = FALSE
  /\ notices' = Append(notices, "stopped")
  /\ UNCHANGED <<replies, playing, cutAt, speaking, botSpeaking, pauserVars, sttVars,
                 frames, gateVars, viewVars>>

(* PAUSE_GUARD_S: a write that has waited too long, its deadline one for all the *)
(* pauses it meets, resumes by itself.                                          *)
WriteGuard ==
  /\ bot /\ ~playing /\ cutAt = "none"
  /\ playing' = TRUE /\ notices' = Append(notices, "resumed")
  /\ UNCHANGED <<replies, bot, cutAt, speaking, botSpeaking, pauserVars, sttVars, frames,
                 gateVars, viewVars>>

Quiet ==
  /\ Len(spoken) = MaxSpeech /\ replies = MaxReplies /\ ~bot /\ speaking = FALSE /\ engine = <<>>
  /\ frames = <<>> /\ notices = <<>> /\ sttWatch.n = 0 /\ ~paused
  /\ cutAt = "none" /\ gateHeld = <<>>
  /\ UNCHANGED vars

Timers == GraceOver \/ WindowOver \/ Cap \/ CapGrace

Next ==
  \/ SpeechStarts \/ SpeechStops
  \/ Interim \/ Transcribed \/ ReportsHeard
  \/ Gate \/ Verdict \/ Releases \/ TailRunsOut
  \/ GraceOver \/ WindowOver \/ Cap \/ CapGrace \/ Hears \/ CutPauser \/ CutOutput
  \/ ReplyStarts \/ ReplyEnds \/ WriteGuard
  \/ Quiet

Spec == Init /\ [][Next]_vars

Fairness ==
  /\ WF_vars(Cap) /\ WF_vars(CapGrace) /\ WF_vars(Gate) /\ WF_vars(Releases) /\ WF_vars(Hears)
  /\ WF_vars(CutPauser) /\ WF_vars(CutOutput) /\ WF_vars(Verdict) /\ WF_vars(Transcribed)

FairSpec == Spec /\ Fairness

-----------------------------------------------------------------------------
(* Properties.                                                                 *)

(* A silent output is one the pauser will wake, or an interruption is about to: *)
(* with neither, the reply would be stuck.                                      *)
SilenceIsOwned == ~playing => (paused /\ capTask # "none") \/ cutAt # "none"

(* The reply goes on, or is cut: the caller talking on and on does not keep it *)
(* silent.                                                                     *)
GoesOnPlaying == ~playing ~> playing

(* Where the engine reports, a reply resumed on the grace of a close has no word *)
(* of the speech still to come: none lands on a reply playing again.             *)
HeardOutFirst ==
  [][Reports /\ GraceOver => engine = <<>> /\ gateHeld = <<>>]_vars

(* While words over the pause are being decided, no timer but the cap resumes   *)
(* the reply over them.                                                         *)
HeldWordsWait == holds # {} => resumeTask = "none"

=============================================================================
