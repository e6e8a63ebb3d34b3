------------------------------ MODULE UserTurn ------------------------------
(* When the caller's turn ends, and on which words. The speech recognition client    *)
(* (stt.py) closes the engine's segment on the verdict about a VAD stop; the stop     *)
(* strategy (endpointing.py LateStartTurnStopStrategy) judges each stop, waits for    *)
(* the close it is owed and ends the turn; keep_barge_in_reachable re-applies a stop  *)
(* the controller refused. The VAD's edges reach the two by different queues.        *)
(*                                                                                 *)
(* An utterance is what is between a VAD start and its stop, numbered; a word is      *)
(* <<utterance, index>>.                                                           *)
(* Left out: commits that slice a segment, previews, the wake gate and echo guard,    *)
(* how many words open a turn over the bot, an STT that stamps no close.             *)
EXTENDS Integers, Sequences, FiniteSets, SequencesExt

CONSTANTS
  MaxSpeech, \* utterances (bound)
  MaxWords,  \* words of an utterance (bound)
  MaxFaults  \* segments the engine closes unasked, sessions it loses, verdicts too late (bound)

VARIABLES
  starts, stops, said,  \* the VAD's edges; the words of the utterance now
  bot,                  \* the bot speaks
  audio, seg,           \* the engine: what it has still to decode, the open segment
  faults,               \* against the bound
  toStt, edges, texts,  \* frames: to the STT; edges to the strategy; the STT's to the strategy
  seen, wait, buffer, interims, unasked, commits, answered, stranded, atStop,  \* the STT
  counted, owed, receipts, speaking, stopped, complete, text, finalized,       \* the strategy
  open, inferred, refused, gap,  \* the controller
  agg, committed, lost, judged   \* words; judged: what was said of each stop (history)

callerVars == <<starts, stops, said>>
engineVars == <<audio, seg>>
sttVars == <<seen, wait, buffer, interims, unasked, commits, answered, stranded, atStop>>
stratVars == <<counted, owed, receipts, speaking, stopped, complete, text, finalized>>
turnVars == <<open, inferred, refused, gap>>
wordVars == <<agg, committed, lost>>
vars == <<callerVars, bot, engineVars, faults, toStt, edges, texts, sttVars, stratVars, turnVars,
          wordVars, judged>>

NO_STOP == 0
NONE == -1
COMMIT == <<0, 0>>
Utterances == 1..MaxSpeech
Words == Utterances \X (1..MaxWords)

TypeOK ==
  /\ {starts, stops, seen, counted, answered} \subseteq 0..MaxSpeech /\ said \in 0..MaxWords
  /\ faults \in 0..MaxFaults
  /\ {bot, interims, unasked, stranded, atStop, speaking, stopped, complete, finalized, open, inferred, refused,
      gap} \subseteq BOOLEAN
  /\ wait \in {"no", "verdict", "pause"} /\ owed \in Utterances \cup {NONE} /\ receipts \subseteq Utterances
  /\ Range(audio) \subseteq Words \cup {COMMIT} /\ Range(commits) \subseteq 0..MaxSpeech
  /\ UNION {seg, buffer, text, agg, committed, lost} \subseteq Words
  /\ judged \in [Utterances -> {"no", "incomplete", "complete"}]

Init ==
  /\ starts = 0 /\ stops = 0 /\ said = 0 /\ bot = FALSE /\ audio = <<>> /\ seg = {}
  /\ faults = 0 /\ toStt = <<>> /\ edges = <<>> /\ texts = <<>>
  /\ seen = 0 /\ wait = "no" /\ buffer = {} /\ interims = FALSE /\ unasked = FALSE /\ commits = <<>>
  /\ answered = 0 /\ stranded = FALSE /\ atStop = FALSE
  /\ counted = 0 /\ owed = NONE /\ receipts = {} /\ speaking = FALSE /\ stopped = FALSE /\ complete = FALSE
  /\ text = {} /\ finalized = FALSE /\ open = FALSE /\ inferred = FALSE /\ refused = FALSE /\ gap = FALSE
  /\ agg = {} /\ committed = {} /\ lost = {} /\ judged = [n \in Utterances |-> "no"]

-----------------------------------------------------------------------------
(* EXTERNAL The caller, as the VAD hears them, and the bot.                        *)

Starts ==
  /\ starts = stops /\ starts < MaxSpeech /\ starts' = starts + 1 /\ said' = 0
  /\ toStt' = Append(toStt, [is |-> "start"]) /\ edges' = Append(edges, "start")
  /\ UNCHANGED <<stops, bot, engineVars, faults, texts, sttVars, stratVars, turnVars, wordVars, judged>>

SaysWord ==
  /\ starts > stops /\ said < MaxWords /\ said' = said + 1 /\ audio' = Append(audio, <<starts, said + 1>>)
  /\ UNCHANGED <<starts, stops, bot, seg, faults, toStt, edges, texts, sttVars, stratVars, turnVars, wordVars,
                 judged>>

Stops ==
  /\ starts > stops /\ stops' = stops + 1
  /\ toStt' = Append(toStt, [is |-> "stop"]) /\ edges' = Append(edges, "stop")
  /\ UNCHANGED <<starts, said, bot, engineVars, faults, texts, sttVars, stratVars, turnVars, wordVars, judged>>

BotEnds ==
  /\ bot /\ bot' = FALSE
  /\ UNCHANGED <<callerVars, engineVars, faults, toStt, edges, texts, sttVars, stratVars, turnVars, wordVars,
                 judged>>

-----------------------------------------------------------------------------
(* The speech recognition client: when it commits.                                *)

(* _send_commit: stamped with the stops seen. *)
SendsCommit(n) ==
  /\ commits' = Append(commits, n) /\ audio' = Append(audio, COMMIT)
  /\ answered' = n /\ wait' = "no"

(* A VAD stop: committed at once with no verdicts to wait for, over the bot, or when   *)
(* the engine has closed this utterance unasked; else held for the verdict.           *)
SttStop ==
  /\ toStt # <<>> /\ Head(toStt).is = "stop" /\ toStt' = Tail(toStt)
  /\ seen' = seen + 1 /\ stranded' = FALSE
  /\ IF atStop \/ bot \/ (unasked /\ ~interims)
     THEN SendsCommit(seen + 1)
     ELSE wait' = "verdict" /\ UNCHANGED <<commits, audio, answered>>
  /\ UNCHANGED <<callerVars, bot, seg, faults, edges, texts, buffer, interims, unasked, atStop, stratVars,
                 turnVars, wordVars, judged>>

(* The caller resumed: what was held stays open. *)
SttStart ==
  /\ toStt # <<>> /\ Head(toStt).is = "start" /\ toStt' = Tail(toStt)
  /\ unasked' = FALSE /\ wait' = "no" /\ stranded' = (stranded \/ (wait # "no" /\ buffer # {}))
  /\ UNCHANGED <<callerVars, bot, engineVars, faults, edges, texts, seen, buffer, interims, commits, answered,
                 atStop, stratVars, turnVars, wordVars, judged>>

\* Slip: a verdict is taken for the stop held, whichever it is about
AnswersSlip(n) == TRUE

(* The verdict is about the stop the STT is on. *)
Answers(n) == n = seen

(* _handle_verdict, _commit_at_pause: committed now, or when the caller's voice pauses. *)
SttVerdict ==
  /\ toStt # <<>> /\ Head(toStt).is = "verdict" /\ toStt' = Tail(toStt) /\ atStop' = FALSE
  /\ LET v == Head(toStt)
     IN IF Answers(v.n) /\ wait = "verdict" /\ v.complete
        THEN \/ SendsCommit(seen)
             \/ wait' = "pause" /\ UNCHANGED <<commits, audio, answered>>
        ELSE UNCHANGED <<wait, commits, audio, answered>>
  /\ UNCHANGED <<callerVars, bot, seg, faults, edges, texts, seen, buffer, interims, unasked, stranded, stratVars,
                 turnVars, wordVars, judged>>

(* The voice paused, or the wait's bound is over. *)
SttPaused ==
  /\ wait = "pause" /\ SendsCommit(seen)
  /\ UNCHANGED <<callerVars, bot, seg, faults, toStt, edges, texts, seen, buffer, interims, unasked, stranded,
                 atStop, stratVars, turnVars, wordVars, judged>>

(* _commit_expired_hold: the verdict has not come in time; with none ever, the STT     *)
(* commits at the stops from here on.                                                *)
HoldExpires ==
  /\ wait = "verdict" /\ faults < MaxFaults /\ faults' = faults + 1 /\ judged[seen] # "complete"
  /\ SendsCommit(seen) /\ atStop' \in {atStop, TRUE}
  /\ UNCHANGED <<callerVars, bot, seg, toStt, edges, texts, seen, buffer, interims, unasked, stranded,
                 stratVars, turnVars, wordVars, judged>>

(* _commit_stranded: words that no VAD stop came for, after 1.5 s: the edges are in. *)
StrandedFires ==
  /\ stranded /\ toStt = <<>> /\ stranded' = FALSE
  /\ IF buffer # {} /\ wait = "no" THEN SendsCommit(seen) ELSE UNCHANGED <<commits, audio, answered, wait>>
  /\ UNCHANGED <<callerVars, bot, seg, faults, toStt, edges, texts, seen, buffer, interims, unasked, atStop,
                 stratVars, turnVars, wordVars, judged>>

-----------------------------------------------------------------------------
(* The engine's answers, and the STT's frames down.                               *)

(* A word is decoded: an interim. *)
Delta ==
  /\ audio # <<>> /\ Head(audio) # COMMIT /\ audio' = Tail(audio)
  /\ seg' = seg \cup {Head(audio)} /\ buffer' = seg' /\ interims' = TRUE
  /\ texts' = Append(texts, [is |-> "interim"])
  /\ stranded' = (stranded \/ wait = "no")
  /\ UNCHANGED <<callerVars, bot, faults, toStt, edges, seen, wait, unasked, commits, answered, atStop, stratVars,
                 turnVars, wordVars, judged>>

(* _close: a final, or a done with no words, stamped with the stop it answers.       *)
Closes(n) ==
  /\ texts' = Append(texts, IF seg = {} THEN [is |-> "done", n |-> n] ELSE [is |-> "final", n |-> n, words |-> seg])
  /\ seg' = {} /\ buffer' = {} /\ interims' = FALSE /\ stranded' = FALSE

DoneAsked ==
  /\ audio # <<>> /\ Head(audio) = COMMIT /\ audio' = Tail(audio)
  /\ Closes(Head(commits)) /\ commits' = Tail(commits)
  /\ UNCHANGED <<callerVars, bot, faults, toStt, edges, seen, wait, unasked, answered, atStop, stratVars, turnVars,
                 wordVars, judged>>

(* A close nobody asked for answers no stop. *)
UnaskedStamp == NO_STOP

(* EXTERNAL The engine's endpointer closes the segment it hears words in, and says so.  *)
DoneUnasked ==
  /\ faults < MaxFaults /\ faults' = faults + 1 /\ seg # {} /\ Closes(UnaskedStamp) /\ unasked' = TRUE
  /\ UNCHANGED <<callerVars, bot, audio, toStt, edges, seen, wait, commits, answered, atStop, stratVars,
                 turnVars, wordVars, judged>>

(* _disconnect_websocket: the open segment is gone, and the closes it owed.           *)
SessionLost ==
  /\ faults < MaxFaults /\ faults' = faults + 1
  /\ lost' = lost \cup seg \cup (Range(audio) \ {COMMIT})
  /\ audio' = <<>> /\ seg' = {} /\ buffer' = {} /\ stranded' = FALSE /\ commits' = <<>> /\ wait' = "no"
  /\ unasked' = FALSE /\ texts' = Append(texts, [is |-> "reset", n |-> seen])
  /\ UNCHANGED <<callerVars, bot, toStt, edges, seen, interims, answered, atStop, stratVars, turnVars, agg,
                 committed, judged>>

-----------------------------------------------------------------------------
(* The turn, as the controller and the aggregator keep it.                         *)

Verdict(n, is) == [is |-> "verdict", n |-> n, complete |-> is]

\* Slip: a turn ends on any final
MayEndSlip(o, t, isComplete, isFinal) == isComplete /\ t # {} /\ isFinal

(* _maybe_trigger_user_turn_stopped: not while the latest stop is owed its close.     *)
MayEnd(o, t, isComplete, isFinal) == isComplete /\ t # {} /\ isFinal /\ o = NONE

(* push_aggregation: the words in hand go to the model. The turn closes in a step of    *)
(* its own, and an edge of the VAD may come between.                                  *)
Triggers(may, words) ==
  IF may THEN committed' = committed \cup words /\ agg' = {} /\ gap' = TRUE /\ inferred' = TRUE
  ELSE agg' = words /\ UNCHANGED <<committed, gap, inferred>>

(* A turn opens, if none is: the interruption flushes the interims behind it, and the   *)
(* bot. handle_user_turn_started: one opened after its own VAD stop keeps the verdict.  *)
Opens ==
  /\ open' = TRUE /\ bot' = (bot /\ open) /\ refused' = (refused /\ open)
  /\ texts' = IF open THEN Tail(texts) ELSE SelectSeq(Tail(texts), LAMBDA f : f.is # "interim")
  /\ IF open \/ (stopped /\ ~speaking) THEN UNCHANGED <<stopped, complete>>
     ELSE stopped' = FALSE /\ complete' = FALSE

(* _note_close, _note_reset: what the strategy is owed after a close of stop n.       *)
OwedAfter(n) == IF n = owed THEN NONE ELSE owed
ReceiptsAfter(n) == receipts \cup ({n} \ 0..counted)

Reads(f) == ~gap /\ texts # <<>> /\ Head(texts).is = f
readUnchanged == <<callerVars, engineVars, faults, toStt, edges, sttVars, counted, speaking, lost, judged>>

ReadsInterim ==
  /\ Reads("interim") /\ Opens /\ finalized' = FALSE
  /\ inferred' = (inferred /\ open) /\ text' = IF open THEN text ELSE {}
  /\ UNCHANGED <<readUnchanged, owed, receipts, gap, agg, committed>>

ReadsFinal ==
  /\ Reads("final") /\ Opens
  /\ LET f == Head(texts)
     IN /\ owed' = OwedAfter(f.n) /\ receipts' = ReceiptsAfter(f.n) /\ text' = f.words /\ finalized' = TRUE
        /\ IF MayEnd(owed', f.words, complete', TRUE)
           THEN Triggers(TRUE, agg \cup f.words)
           ELSE agg' = agg \cup f.words /\ inferred' = (inferred /\ open) /\ UNCHANGED <<committed, gap>>
  /\ UNCHANGED readUnchanged

(* The owed close has no words, or will not come: what is in hand is all of it.        *)
Paid(paid) ==
  /\ texts' = Tail(texts) /\ finalized' = (finalized \/ paid)
  /\ owed' = IF paid THEN NONE ELSE owed
  /\ Triggers(paid /\ open /\ MayEnd(NONE, text, complete, TRUE), agg)
  /\ UNCHANGED <<readUnchanged, bot, stopped, complete, text, open, refused>>

ReadsDone ==
  /\ Reads("done") /\ Paid(Head(texts).n = owed) /\ receipts' = ReceiptsAfter(Head(texts).n)

ReadsReset ==
  /\ Reads("reset") /\ Paid(owed # NONE /\ owed <= Head(texts).n)
  /\ receipts' = receipts \cup ((counted + 1)..(Head(texts).n))

(* The p99 safety net, and the fallback for words with no VAD stop in sight: seconds,    *)
(* so what was on its way is in.                                                    *)
TimerFires ==
  /\ ~gap /\ edges = <<>> /\ texts = <<>> /\ open /\ text # {} /\ owed = NONE /\ ~speaking
  /\ (complete /\ ~finalized) \/ (~stopped /\ ~inferred)
  /\ complete' = TRUE /\ Triggers(TRUE, agg)
  /\ UNCHANGED <<callerVars, bot, engineVars, faults, toStt, edges, texts, sttVars, counted, owed, receipts, speaking,
                 stopped, text, finalized, open, refused, lost, judged>>

(* handle_user_turn_stopped and the stock reset. A turn closed under an INCOMPLETE      *)
(* verdict closes the STT's held segment with it.                                    *)
Resets == stopped' = FALSE /\ complete' = FALSE /\ text' = {} /\ finalized' = FALSE
Closed == open' = FALSE /\ refused' = FALSE /\ UNCHANGED inferred
Commits == committed' = committed \cup agg /\ agg' = {}

(* trigger_user_turn_finalized, behind the inference: refused while the caller speaks. *)
Finalizes ==
  /\ gap /\ gap' = FALSE
  /\ IF open /\ speaking
     THEN refused' = inferred /\ UNCHANGED <<toStt, judged, agg, committed, stopped, complete, text, finalized, open, inferred>>
     ELSE IF open
     THEN /\ toStt' = IF stopped /\ ~complete THEN Append(toStt, Verdict(counted, TRUE)) ELSE toStt
          /\ judged' = IF stopped THEN [judged EXCEPT ![counted] = "complete"] ELSE judged
          /\ Closed /\ Resets /\ Commits
     ELSE UNCHANGED <<toStt, judged, agg, committed, stopped, complete, text, finalized, open, inferred, refused>>
  /\ UNCHANGED <<callerVars, bot, engineVars, faults, edges, texts, sttVars, counted, owed, receipts, speaking,
                 lost>>

-----------------------------------------------------------------------------
(* The VAD's edges, at the strategy.                                              *)

EdgeStart ==
  /\ edges # <<>> /\ Head(edges) = "start" /\ edges' = Tail(edges)
  /\ speaking' = TRUE /\ stopped' = FALSE /\ complete' = FALSE
  /\ UNCHANGED <<callerVars, bot, engineVars, faults, toStt, texts, sttVars, counted, owed, receipts, text, finalized,
                 turnVars, wordVars, judged>>

\* Slip: a finalization the controller refused is dropped
ReAppliesSlip == FALSE

(* keep_barge_in_reachable: a refused finalization is re-applied at the next quiet.    *)
ReApplies == refused /\ open

(* The stop's close is owed, if it has not come.                                     *)
OwedAt(n) == IF n \in receipts THEN NONE ELSE n

(* A VAD stop, with the model's answer. A turn it ends, or one whose stop was refused,  *)
(* is closed in the same call, and a close commits the words in hand.                 *)
EdgeStop ==
  /\ edges # <<>> /\ Head(edges) = "stop" /\ edges' = Tail(edges)
  /\ LET n == counted + 1
     IN \E isComplete \in BOOLEAN :
          LET ends == open /\ MayEnd(OwedAt(n), text, isComplete, finalized)
              closes == ends \/ ReApplies
          IN /\ counted' = n /\ speaking' = FALSE
             /\ owed' = OwedAt(n) /\ receipts' = receipts \ 1..n
             /\ judged' = [judged EXCEPT ![n] = IF isComplete \/ closes THEN "complete" ELSE "incomplete"]
             /\ toStt' = toStt \o <<Verdict(n, isComplete)>>
                         \o (IF closes /\ ~isComplete THEN <<Verdict(n, TRUE)>> ELSE <<>>)
             /\ IF closes THEN Closed /\ Resets /\ Commits
                ELSE /\ stopped' = TRUE /\ complete' = isComplete
                     /\ UNCHANGED <<agg, committed, text, finalized, open, inferred, refused>>
  /\ UNCHANGED <<callerVars, bot, engineVars, faults, texts, sttVars, gap, lost>>

(* The silence ceiling overrides an INCOMPLETE verdict.                              *)
Ceiling ==
  /\ stopped /\ ~speaking /\ ~complete /\ edges = <<>>
  /\ toStt' = Append(toStt, Verdict(counted, TRUE)) /\ judged' = [judged EXCEPT ![counted] = "complete"]
  /\ IF open /\ MayEnd(owed, text, TRUE, finalized)
     THEN Commits /\ Closed /\ Resets
     ELSE complete' = TRUE /\ UNCHANGED <<committed, agg, stopped, text, finalized, open, inferred, refused>>
  /\ UNCHANGED <<callerVars, bot, engineVars, faults, edges, texts, sttVars, counted, owed, receipts, speaking, gap,
                 lost>>

(* EXTERNAL The reply to what was committed. *)
BotStarts ==
  /\ ~bot /\ committed # {} /\ ~open /\ bot' = TRUE
  /\ UNCHANGED <<callerVars, engineVars, faults, toStt, edges, texts, sttVars, stratVars, turnVars, wordVars, judged>>

-----------------------------------------------------------------------------
Caller == Starts \/ SaysWord \/ Stops
Stt == SttStop \/ SttStart \/ SttVerdict
Engine == Delta \/ DoneAsked
Texts == ReadsInterim \/ ReadsFinal \/ ReadsDone \/ ReadsReset
Edges == EdgeStart \/ EdgeStop

(* Nothing is under way. *)
Quiet ==
  /\ starts = MaxSpeech /\ stops = starts /\ audio \o toStt \o edges \o texts = <<>> /\ ~stranded /\ ~bot
  /\ wait = "no" /\ UNCHANGED vars

Next ==
  \/ Caller \/ BotStarts \/ BotEnds \/ Stt \/ SttPaused \/ HoldExpires \/ StrandedFires
  \/ Engine \/ DoneUnasked \/ SessionLost \/ Texts \/ TimerFires \/ Finalizes \/ Edges \/ Ceiling \/ Quiet

Spec == Init /\ [][Next]_vars

(* The caller stops speaking, frames are handled, the engine answers and the timers run  *)
(* out. The controller's own 5 s watchdog is not relied on.                           *)
Fairness ==
  /\ WF_vars(Stops) /\ WF_vars(Stt) /\ WF_vars(SttPaused) /\ WF_vars(StrandedFires) /\ WF_vars(Engine)
  /\ WF_vars(Texts) /\ WF_vars(TimerFires) /\ WF_vars(Finalizes) /\ WF_vars(Edges) /\ WF_vars(Ceiling)
FairSpec == Spec /\ Fairness

-----------------------------------------------------------------------------
(* A segment held for its verdict is closed by a verdict about its own stop: never on   *)
(* one that came late for an earlier.                                               *)
HeldOpen == [][\A n \in Utterances :
                 (SttVerdict \/ SttPaused) /\ answered' = n /\ answered # n => judged[n] = "complete"]_vars

(* A turn the strategy ends has every word said up to the stop it ended at, but those    *)
(* an engine session took with it: the final of an earlier utterance ends nothing.      *)
WordsUpTo(n) == {w \in Words : w[1] <= n}
Spoken == Range(SelectSeq(audio, LAMBDA x : x # COMMIT)) \cup seg
            \cup UNION {IF f.is = "final" THEN f.words ELSE {} : f \in Range(texts)}
TurnHasItsWords ==
  [][committed' # committed /\ ~refused => Spoken' \cap WordsUpTo(IF speaking' THEN counted' + 1 ELSE counted') = {}]_vars

(* A turn whose words are the model's is closed, or the caller speaks and their next     *)
(* stop closes it: an open turn takes no barge-in, so none is open in their quiet.       *)
BargeInReachable == open /\ inferred /\ ~gap => speaking /\ refused

(* What is promised: a word said is the model's in the end, or went with a session.        *)
Promises == Words
AreDue == Words \cap Range(audio)
AreKept == committed \cup lost

=============================================================================
