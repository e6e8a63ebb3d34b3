-------------------------- MODULE TranscriptLedger --------------------------
(* What the user heard of each reply. transcript_ledger.py watches the frames of    *)
(* the pipeline: a reply's text where the TTS reads it, its audio below the TTS,    *)
(* the transport's playing and pausing, and an interruption at each processor it   *)
(* passes; it charts each reply and settles it once, as heard whole, in part or    *)
(* not at all.                                                                     *)
(*                                                                                 *)
(* A reply's context at the TTS has the reply's own name; a chunk of audio is the   *)
(* unit of time, and a speech has two: the first from its text, the second once    *)
(* its text has ended.                                                             *)
(* Left out: words and their times, the user's own lines, a context re-created     *)
(* after the TTS's timeout, one the TTS never opens, frames with no context.        *)
EXTENDS Integers, Sequences, FiniteSets, SequencesExt

CONSTANTS
  MaxSaid,   \* replies, notices and fillers said (bound)
  MaxCuts,   \* interruptions (bound)
  MaxPauses  \* pauses of the playout (bound)

VARIABLES
  kind,      \* of what is said: a reply ("speech", "mute", "empty"), a "notice", a "filler"
  llm,       \* the reply the LLM streams
  told,      \* it has sent text
  full,      \* replies the LLM ended itself
  pushedEnd, \* replies whose End has been pushed to the TTS
  between,   \* replies whose Start the TTS had not read as an interruption passed the LLM (history)
  cut,       \* the interruption: "no", or the processor that saw it last
  cuts, pauses,
  toTts,     \* frames between the LLM and the TTS
  ctxs,      \* the TTS's contexts, in order: what is said, its chunks to come
  toOut,     \* frames between the TTS and the transport
  playing,   \* what the transport holds
  speaking, held, \* it has said BotStarted; it is paused
  played,    \* chunks of each that the user heard (history)
  gen, queue, turns, had, ended, closed, fifo, win, paused, flushing,  \* the ledger
  wrote,     \* chunks played since its window's start: the clock it reads
  settled    \* how each reply was settled

llmVars == <<kind, llm, told, full, pushedEnd, between>>
outVars == <<playing, speaking, held, played>>
readVars == <<gen, ended>>
clockVars == <<fifo, win, wrote>>
countVars == <<cuts, pauses>>
vars == <<llmVars, cut, countVars, toTts, ctxs, toOut, outVars, readVars, queue, turns, had, closed,
          clockVars, paused, flushing, settled>>

Said == 1..MaxSaid
Replies == {e \in DOMAIN kind : kind[e] \in {"speech", "mute", "empty"}}
Chunks(e) == IF kind[e] \in {"speech", "notice", "filler"} THEN 2 ELSE 0
NoOne == 0

Ends == {"silent", "cut unheard", "cut heard", "whole"}
Frames == {"start", "text", "end", "speak", "started", "audio", "stopped", "cut"}
Turn == [ctx : Said, e : Said \cup {NoOne}, pushed : 0..2, played : 0..2, done : BOOLEAN]

TypeOK ==
  /\ kind \in UNION {[1..n -> {"speech", "mute", "empty", "notice", "filler"}] : n \in 0..MaxSaid}
  /\ {llm, gen} \subseteq Said \cup {NoOne}
  /\ {told, speaking, held, win, paused, flushing} \subseteq BOOLEAN
  /\ UNION {full, pushedEnd, between, had, ended, closed} \subseteq Said
  /\ cut \in {"no", "begun", "llm", "tts"} /\ cuts \in 0..MaxCuts /\ pauses \in 0..MaxPauses
  /\ \A q \in {toTts, toOut} : Range(q) \subseteq Frames \X (Said \cup {NoOne})
  /\ Range(ctxs) \subseteq [e : Said, opened : BOOLEAN, left : 0..2, ended : BOOLEAN]
  /\ Range(playing) \subseteq {"chunk", "stop"} \X Said
  /\ Range(turns) \subseteq Turn /\ Range(queue) \cup Range(fifo) \subseteq Said
  /\ DOMAIN played = Said /\ Range(played) \subseteq 0..2 /\ wrote \in 0..(2 * MaxSaid)
  /\ DOMAIN settled = Said /\ Range(settled) \subseteq Ends \cup {"no"}

Init ==
  /\ kind = <<>> /\ llm = NoOne /\ told = FALSE /\ full = {} /\ pushedEnd = {} /\ between = {}
  /\ cut = "no" /\ cuts = 0 /\ pauses = 0 /\ toTts = <<>> /\ ctxs = <<>> /\ toOut = <<>>
  /\ playing = <<>> /\ speaking = FALSE /\ held = FALSE /\ played = [e \in Said |-> 0]
  /\ gen = NoOne /\ queue = <<>> /\ turns = <<>> /\ had = {} /\ ended = {} /\ closed = {} /\ fifo = <<>>
  /\ win = FALSE /\ paused = FALSE /\ flushing = FALSE /\ wrote = 0 /\ settled = [e \in Said |-> "no"]

-----------------------------------------------------------------------------
(* Settling and charting.                                                         *)

(* _reply_end: each reply once, by how; NoOne and a notice are no reply's.          *)
Settles(S, how) ==
  settled' = [e \in Said |-> IF e \in S \cap Replies /\ settled[e] = "no" THEN how[e] ELSE settled[e]]

Silent == [e \in Said |-> "silent"]
Unheard == [e \in Said |-> "cut unheard"]
Whole == [e \in Said |-> "whole"]

EntriesOf(s) == {t.e : t \in Range(s)}
CtxsOf(s) == {t.ctx : t \in Range(s)}
TurnsWithout(c) == SelectSeq(turns, LAMBDA t : t.ctx # c)
Without(q, e) == SelectSeq(q, LAMBDA x : x # e)
TurnOf(c) == CHOOSE i \in DOMAIN turns : turns[i].ctx = c

(* _layout: how many of context c's chunks the transport has played by now.         *)
Due == IF win /\ ~paused THEN IF wrote < Len(fifo) THEN wrote ELSE Len(fifo) ELSE 0
Credit(c) == Cardinality({i \in 1..Due : fifo[i] = c})
Credited(s) == [i \in DOMAIN s |-> [s[i] EXCEPT !.played = @ + Credit(s[i].ctx)]]

(* _close_ready: the turns that are over, oldest first, up to one that is not.      *)
Played(t) == t.pushed > 0 /\ t.played >= t.pushed /\ (t.e = NoOne \/ t.done)
Closes(s) ==
  LET n == CHOOSE n \in 0..Len(s) :
             (\A i \in 1..n : Played(s[i])) /\ (n < Len(s) => ~Played(s[n + 1]))
  IN /\ turns' = SubSeq(s, n + 1, Len(s))
     /\ closed' = closed \cup CtxsOf(SubSeq(s, 1, n))
     /\ Settles(EntriesOf(SubSeq(s, 1, n)), Whole)

(* _interrupt: every open turn ends with what of it had played, and what was still  *)
(* to be spoken ends unheard.                                                      *)
\* Slip: a turn whose every chunk so far has played is heard whole, synthesized or not
HeardSlip(e) ==
  LET ts == {t \in Range(turns) : t.e = e}
      heard == {t.played + Credit(t.ctx) : t \in ts}
  IN IF ts = {} \/ heard = {0} THEN "cut unheard"
     ELSE IF \E t \in ts : t.played + Credit(t.ctx) >= t.pushed THEN "whole" ELSE "cut heard"

Heard(e) ==
  LET ts == {t \in Range(turns) : t.e = e}
  IN IF ts = {} THEN "cut unheard"
     ELSE LET t == CHOOSE t \in ts : TRUE
              heard == t.played + Credit(t.ctx)
          IN CASE heard = 0 -> "cut unheard"
               [] t.done /\ heard >= t.pushed -> "whole"
               [] OTHER -> "cut heard"
interrupt ==
  /\ Settles(EntriesOf(turns) \cup {gen} \cup Range(queue), [e \in Said |-> Heard(e)])
  /\ closed' = closed \cup CtxsOf(turns)
  /\ turns' = <<>> /\ gen' = NoOne /\ queue' = <<>> /\ fifo' = <<>>
  /\ win' = FALSE /\ wrote' = 0 /\ paused' = FALSE

-----------------------------------------------------------------------------
(* The LLM, and what is spoken without it.                                        *)

Sends(f, e) == toTts' = Append(toTts, <<f, e>>)
ledgerVars == <<readVars, queue, turns, had, closed, clockVars, paused, flushing, settled>>

Begins ==
  /\ Len(kind) < MaxSaid /\ llm = NoOne
  /\ \E k \in {"speech", "mute", "empty"} : kind' = Append(kind, k)
  /\ llm' = Len(kind) + 1 /\ told' = FALSE /\ Sends("start", Len(kind) + 1)
  /\ UNCHANGED <<full, pushedEnd, between, cut, countVars, ctxs, toOut, outVars, ledgerVars>>

Says ==
  /\ llm # NoOne /\ ~told /\ kind[llm] # "empty" /\ told' = TRUE /\ Sends("text", llm)
  /\ UNCHANGED <<kind, llm, full, pushedEnd, between, cut, countVars, ctxs, toOut, outVars, ledgerVars>>

EndsStream ==
  /\ llm # NoOne /\ (told \/ kind[llm] = "empty")
  /\ Sends("end", llm) /\ full' = full \cup {llm} /\ pushedEnd' = pushedEnd \cup {llm} /\ llm' = NoOne
  /\ UNCHANGED <<kind, told, between, cut, countVars, ctxs, toOut, outVars, ledgerVars>>

(* A spoken notice, or a filler. *)
Speaks ==
  /\ Len(kind) < MaxSaid /\ llm = NoOne
  /\ \E k \in {"notice", "filler"} : kind' = Append(kind, k)
  /\ Sends("speak", Len(kind) + 1)
  /\ UNCHANGED <<llm, told, full, pushedEnd, between, cut, countVars, ctxs, toOut, outVars, ledgerVars>>

-----------------------------------------------------------------------------
(* The TTS reads.                                                                 *)

(* A context for e. *)
Opens(e) == ctxs' = Append(ctxs, [e |-> e, opened |-> FALSE, left |-> Chunks(e), ended |-> e \notin Replies])

ReadsStart ==
  /\ toTts # <<>> /\ Head(toTts)[1] = "start" /\ toTts' = Tail(toTts) /\ gen' = Head(toTts)[2]
  /\ UNCHANGED <<llmVars, cut, countVars, ctxs, toOut, outVars, ended, queue, turns, had, closed, clockVars,
                 paused, flushing, settled>>

ReadsText ==
  /\ toTts # <<>> /\ Head(toTts)[1] = "text" /\ toTts' = Tail(toTts) /\ Opens(Head(toTts)[2])
  /\ UNCHANGED <<llmVars, cut, countVars, toOut, outVars, ledgerVars>>

(* What has text is expected at the TTS, speech in it or none.                     *)
Expected(e) == kind[e] # "empty"

ReadsEnd ==
  /\ toTts # <<>> /\ Head(toTts)[1] = "end" /\ toTts' = Tail(toTts)
  /\ LET e == Head(toTts)[2]
     IN /\ ctxs' = [i \in DOMAIN ctxs |-> IF ctxs[i].e = e THEN [ctxs[i] EXCEPT !.ended = TRUE] ELSE ctxs[i]]
        /\ gen' = NoOne
        /\ ended' = ended \cup ({e} \cap {gen})
        /\ queue' = IF gen = e /\ Expected(e) /\ e \notin had THEN Append(queue, e) ELSE queue
        /\ Settles(IF gen = e /\ kind[e] = "empty" THEN {e} ELSE {}, Silent)
  /\ UNCHANGED <<llmVars, cut, countVars, toOut, outVars, turns, had, closed, clockVars, paused, flushing>>

ReadsSpeak ==
  /\ toTts # <<>> /\ Head(toTts)[1] = "speak" /\ toTts' = Tail(toTts)
  /\ LET e == Head(toTts)[2]
     IN /\ Opens(e)
        /\ queue' = IF kind[e] = "notice" THEN Append(queue, e) ELSE queue
        /\ ended' = ended \cup {e}
  /\ UNCHANGED <<llmVars, cut, countVars, toOut, outVars, gen, turns, had, closed, clockVars, paused, flushing,
                 settled>>

-----------------------------------------------------------------------------
(* EXTERNAL The TTS works its contexts one at a time, and gives a reply's End back  *)
(* behind its context.                                                            *)

Works ==
  /\ ctxs # <<>>
  /\ LET c == Head(ctxs)
     IN \/ /\ ~c.opened /\ ctxs' = <<[c EXCEPT !.opened = TRUE]>> \o Tail(ctxs)
           /\ toOut' = Append(toOut, <<"started", c.e>>)
        \/ /\ c.opened /\ c.left > 0 /\ (c.left = 2 \/ c.ended)
           /\ ctxs' = <<[c EXCEPT !.left = @ - 1]>> \o Tail(ctxs)
           /\ toOut' = Append(toOut, <<"audio", c.e>>)
        \/ /\ c.opened /\ c.left = 0 /\ c.ended /\ ctxs' = Tail(ctxs)
           /\ toOut' = toOut \o (IF c.e \in Replies THEN << <<"stopped", c.e>>, <<"end", c.e>> >>
                                 ELSE << <<"stopped", c.e>> >>)
  /\ UNCHANGED <<llmVars, cut, countVars, toTts, outVars, ledgerVars>>

-----------------------------------------------------------------------------
(* Below the TTS.                                                                 *)

(* _open_turn: the oldest expected context not opened yet, else the reply that      *)
(* streams; one of a context charted already has no reply.                         *)
Claimed(c) ==
  IF c \in closed THEN NoOne
  ELSE IF queue # <<>> THEN Head(queue)
  ELSE IF gen # NoOne /\ gen \notin had /\ (\E x \in Range(ctxs) : x.e = gen) THEN gen ELSE NoOne

NewTurn(c) == [ctx |-> c, e |-> Claimed(c), pushed |-> 0, played |-> 0, done |-> FALSE]
Claims(c) ==
  /\ queue' = IF c \notin closed /\ queue # <<>> THEN Tail(queue) ELSE queue
  /\ had' = had \cup ({Claimed(c)} \ {NoOne})

(* A context has started: every other is synthesized, and one with no audio is over. *)
Synthesized(c) == [i \in DOMAIN turns |-> IF turns[i].ctx = c THEN turns[i] ELSE [turns[i] EXCEPT !.done = TRUE]]
NeverHeard(c) == SelectSeq(turns, LAMBDA t : t.ctx # c /\ t.pushed = 0)
ContextStarted(c) == SelectSeq(Synthesized(c), LAMBDA t : t.ctx = c \/ t.pushed > 0)

Next1(f) == /\ toOut # <<>> /\ Head(toOut)[1] = f /\ toOut' = Tail(toOut)

(* What the TTS made ahead of an interruption it has handled. *)
Ignored(e) == flushing

OutStarted ==
  /\ Next1("started")
  /\ LET c == Head(toOut)[2]
     IN IF Ignored(c) THEN UNCHANGED <<queue, turns, had, closed, settled>>
        ELSE /\ Settles(EntriesOf(NeverHeard(c)), Unheard)
             /\ closed' = closed \cup CtxsOf(NeverHeard(c))
             /\ IF kind[c] = "filler" \/ c \in CtxsOf(turns)
                THEN turns' = ContextStarted(c) /\ UNCHANGED <<queue, had>>
                ELSE turns' = Append(ContextStarted(c), NewTurn(c)) /\ Claims(c)
  /\ UNCHANGED <<llmVars, cut, countVars, toTts, ctxs, outVars, readVars, clockVars, paused, flushing>>

OutAudio ==
  /\ Next1("audio")
  /\ LET c == Head(toOut)[2]
         more(t) == [t EXCEPT !.pushed = @ + 1]
     IN /\ playing' = Append(playing, <<"chunk", c>>)
        /\ IF Ignored(c) THEN UNCHANGED <<queue, turns, had, fifo>>
           ELSE /\ fifo' = Append(fifo, c)
                /\ IF kind[c] = "filler" THEN UNCHANGED <<queue, turns, had>>
                   ELSE IF c \in CtxsOf(turns)
                   THEN turns' = [turns EXCEPT ![TurnOf(c)] = more(@)] /\ UNCHANGED <<queue, had>>
                   ELSE turns' = Append(turns, more(NewTurn(c))) /\ Claims(c)
  /\ UNCHANGED <<llmVars, cut, countVars, toTts, ctxs, speaking, held, played, readVars, closed, win, wrote,
                 paused, flushing, settled>>

OutStopped ==
  /\ Next1("stopped")
  /\ LET c == Head(toOut)[2]
     IN /\ playing' = Append(playing, <<"stop", c>>)
        /\ IF Ignored(c) \/ c \notin CtxsOf(turns) THEN UNCHANGED <<turns, closed, settled>>
           ELSE LET t == turns[TurnOf(c)]
                IN IF t.pushed > 0
                   THEN turns' = [turns EXCEPT ![TurnOf(c)].done = TRUE] /\ UNCHANGED <<closed, settled>>
                   ELSE turns' = TurnsWithout(c) /\ closed' = closed \cup {c} /\ Settles({t.e}, Unheard)
  /\ UNCHANGED <<llmVars, cut, countVars, toTts, ctxs, speaking, held, played, readVars, queue, had, clockVars,
                 paused, flushing>>

(* _end_drained: the reply's End is back, so its context is synthesized.            *)
OutEnd ==
  /\ Next1("end")
  /\ LET e == Head(toOut)[2]
         its == {i \in DOMAIN turns : turns[i].e = e}
     IN IF e \notin ended \/ (e \in had /\ its = {}) THEN UNCHANGED <<queue, turns, had, closed, settled>>
        ELSE /\ queue' = Without(queue, e)
             /\ IF its # {}
                THEN /\ Closes([turns EXCEPT ![CHOOSE i \in its : TRUE].done = TRUE])
                     /\ UNCHANGED had
                ELSE /\ turns = <<>> /\ Settles({e}, Silent) /\ UNCHANGED <<turns, had, closed>>
  /\ UNCHANGED <<llmVars, cut, countVars, toTts, ctxs, outVars, readVars, clockVars, paused, flushing>>

-----------------------------------------------------------------------------
(* The transport plays.                                                           *)

(* A chunk is played; BotStarted before the first. An interruption has passed every  *)
(* processor in less time than one takes.                                          *)
Plays ==
  /\ ~held /\ cut = "no" /\ playing # <<>> /\ Head(playing)[1] = "chunk" /\ playing' = Tail(playing)
  /\ played' = [played EXCEPT ![Head(playing)[2]] = @ + 1]
  /\ speaking' = TRUE /\ win' = (win \/ ~speaking)
  /\ wrote' = IF win' THEN wrote + 1 ELSE wrote
  /\ UNCHANGED <<llmVars, cut, countVars, toTts, ctxs, toOut, held, readVars, queue, turns, had, closed, fifo,
                 paused, flushing, settled>>

(* At a context's end: BotStopped, if it spoke (_window_closed). *)
Stops ==
  /\ ~held /\ playing # <<>> /\ Head(playing)[1] = "stop" /\ playing' = Tail(playing) /\ speaking' = FALSE
  /\ IF speaking THEN /\ fifo' = IF win THEN SubSeq(fifo, Due + 1, Len(fifo)) ELSE <<>>
                      /\ win' = (win /\ fifo' # <<>>) /\ wrote' = 0
                      /\ Closes(Credited(turns))
     ELSE UNCHANGED <<turns, closed, settled, clockVars>>
  /\ UNCHANGED <<llmVars, cut, countVars, toTts, ctxs, toOut, held, played, readVars, queue, had, paused,
                 flushing>>

Pauses ==
  /\ pauses < MaxPauses /\ pauses' = pauses + 1 /\ ~held /\ speaking /\ held' = TRUE
  /\ IF paused THEN UNCHANGED <<turns, closed, settled, clockVars, paused>>
     ELSE /\ paused' = TRUE /\ wrote' = 0 /\ UNCHANGED win
          /\ fifo' = IF win THEN SubSeq(fifo, Due + 1, Len(fifo)) ELSE <<>>
          /\ Closes(Credited(turns))
  /\ UNCHANGED <<llmVars, cut, cuts, toTts, ctxs, toOut, playing, speaking, played, readVars, queue, had,
                 flushing>>

Resumes ==
  /\ held /\ held' = FALSE /\ paused' = FALSE
  /\ UNCHANGED <<llmVars, cut, countVars, toTts, ctxs, toOut, playing, speaking, played, readVars, queue, turns,
                 had, closed, clockVars, flushing, settled>>

-----------------------------------------------------------------------------
(* An interruption, from the user's aggregator down. It is a cut at each processor  *)
(* up to the TTS, and at none after it.                                            *)

CutBegins ==
  /\ cut = "no" /\ cuts < MaxCuts /\ cuts' = cuts + 1 /\ cut' = "begun" /\ interrupt
  /\ UNCHANGED <<llmVars, pauses, toTts, ctxs, toOut, outVars, ended, had, flushing>>

(* Still on its way to the TTS: cut again. *)
CutAgain == interrupt

(* The LLM's sighting, then its cancel: the completion's End goes ahead of the frame. *)
CutAtLLM ==
  /\ cut = "begun" /\ cut' = "llm" /\ CutAgain
  /\ toTts' = toTts \o (IF llm = NoOne THEN <<>> ELSE << <<"end", llm>> >>) \o << <<"cut", NoOne>> >>
  /\ pushedEnd' = pushedEnd \cup ({llm} \ {NoOne}) /\ llm' = NoOne
  /\ between' = between \cup {e \in Said : <<"start", e>> \in Range(toTts)}
  /\ UNCHANGED <<kind, told, full, countVars, ctxs, toOut, outVars, ended, had, flushing>>

(* The TTS's own: what it holds and what is ahead of the frame go.                  *)
CutAtTTS ==
  /\ cut = "llm" /\ cut' = "tts" /\ interrupt /\ flushing' = TRUE
  /\ \E i \in DOMAIN toTts : toTts[i][1] = "cut" /\ toTts' = SubSeq(toTts, i + 1, Len(toTts))
  /\ ctxs' = <<>> /\ toOut' = Append(toOut, <<"cut", NoOne>>)
  /\ UNCHANGED <<llmVars, countVars, outVars, ended, had>>

(* A pause announced while the frame travelled is the cut reply's. *)
PauseEnds == paused' = FALSE

(* The transport drops what it holds, and a pause; the ledger does not cut again.   *)
CutAtOut ==
  /\ cut = "tts" /\ cut' = "no"
  /\ \E i \in DOMAIN toOut : toOut[i][1] = "cut" /\ toOut' = SubSeq(toOut, i + 1, Len(toOut))
  /\ playing' = <<>> /\ speaking' = FALSE /\ held' = FALSE
  /\ flushing' = FALSE /\ PauseEnds
  /\ UNCHANGED <<llmVars, countVars, toTts, ctxs, played, readVars, queue, turns, had, closed, clockVars, settled>>

-----------------------------------------------------------------------------
Llm == Begins \/ Says \/ EndsStream \/ Speaks
TTS == ReadsStart \/ ReadsText \/ ReadsEnd \/ ReadsSpeak \/ Works
Out == OutStarted \/ OutAudio \/ OutStopped \/ OutEnd \/ Plays \/ Stops
Cut == CutBegins \/ CutAtLLM \/ CutAtTTS \/ CutAtOut

(* Everything is said: nothing more comes. *)
Over ==
  /\ Len(kind) = MaxSaid /\ llm = NoOne /\ cut = "no" /\ toTts \o ctxs \o toOut \o playing = <<>>
  /\ UNCHANGED vars

Next == Llm \/ TTS \/ Out \/ Pauses \/ Resumes \/ Cut \/ Over

Spec == Init /\ [][Next]_vars

(* The LLM's stream ends, the TTS and the transport work, a pause is undone and an   *)
(* interruption passes them all.                                                   *)
Fairness ==
  /\ WF_vars(Says) /\ WF_vars(EndsStream) /\ WF_vars(TTS) /\ WF_vars(Out) /\ WF_vars(Resumes)
  /\ WF_vars(CutAtLLM) /\ WF_vars(CutAtTTS) /\ WF_vars(CutAtOut)
FairSpec == Spec /\ Fairness

-----------------------------------------------------------------------------
(* A turn is its own context's: the words charted for what plays are the words of    *)
(* what plays, though the queue only guesses which context opens next. (Between an    *)
(* interruption's first sighting and the TTS's a turn is about to be dropped.)        *)
ClaimsItsOwn == cut \in {"no", "tts"} => \A t \in Range(turns) : t.e \in {NoOne, t.ctx}

(* How a reply is settled is what the user has heard of it by then: all of its        *)
(* chunks, some of them or none.                                                     *)
HeardIsWhatPlayed ==
  [][\A e \in Said :
       settled'[e] # settled[e] =>
         CASE settled'[e] = "whole" -> played'[e] = Chunks(e) /\ Chunks(e) > 0
           [] settled'[e] = "cut heard" -> played'[e] \in 1..(Chunks(e))
           [] OTHER -> played'[e] = 0]_vars

(* A cut reply is given as whole only when the LLM had ended it: a fragment is no      *)
(* answer to owe. (One whose Start was between the LLM and the TTS as the              *)
(* interruption passed may be read as whole.)                                        *)
FragmentIsNotWhole ==
  \A e \in Replies : e \in ended => e \in full \cup between

(* What is promised: every reply the TTS has begun to read is settled. *)
Promises == Said
AreDue == {e \in Said : gen = e}
AreKept == {e \in Said : settled[e] # "no"}
=============================================================================
