----------------------------- MODULE Speculation -----------------------------
(* The speculative reply: speculate.py's Speculator, and the stop strategy that asks it *)
(* (endpointing.py LateStartTurnStopStrategy). The request is opened on the words so far, *)
(* and adopted by the commit only for the same context.                              *)
EXTENDS Integers, FiniteSets

CONSTANTS
  MaxWords, MaxStops,  \* words, VAD stops (bounds)
  MaxWrites            \* writes to the context by others, fresh notes included (bound)

VARIABLES
  mode,                         \* what the engine gives: "peeks", "report", "window"
  said,                         \* words the engine returned
  speaking, stops, verdict,     \* the VAD; the latest stop's verdict
  interim, agg, finalized,      \* the open segment, the turn's finals
  open, bot,                    \* the user turn; the bot speaks
  decoded, unreported,          \* of the latest stop: transcribed past; no report comes
  preview, settle,              \* the stop's preview (0: none); the window's timer
  cut, heardCut,                \* the interruption with the reply it cut: "no", "sent", "landed"; "late":
                                \* a wait for it ran out, "behind": it landed then; the ledger's cut, unspent
  hist,                         \* the context: words said, note, cut reply, writes
  pending,                      \* the note the next final injects
  waiting, live,                \* the Speculator: its calls at the fence, its stream
  req, adopted, missed, over    \* the words committed, not asked yet; their request (history)

sttVars == <<mode, said, speaking, stops, verdict>>
textVars == <<interim, agg, finalized, open, bot>>
stopVars == <<decoded, unreported, preview, settle>>
ctxVars == <<cut, heardCut, hist, pending>>
specVars == <<waiting, live>>
endVars == <<req, adopted, missed, over>>
vars == <<sttVars, textVars, stopVars, ctxVars, specVars, endVars>>

Words == 1..MaxWords
NoReply == [st |-> "none"]
Hists == [said : SUBSET Words, note : 0..MaxWrites, reply : {"none", "whole", "heard"}, writes : 0..MaxWrites]

TypeOK ==
  /\ mode \in {"peeks", "report", "window"} /\ said \in 0..MaxWords /\ stops \in 0..MaxStops
  /\ {speaking, finalized, open, bot, decoded, unreported, settle, heardCut, over} \subseteq BOOLEAN
  /\ verdict \in {"none", "complete", "incomplete"} /\ {interim, agg, preview, req} \subseteq SUBSET Words
  /\ cut \in {"no", "sent", "landed", "late", "behind"} /\ hist \in Hists /\ pending \in 0..MaxWrites
  /\ waiting \subseteq [text : SUBSET Words, ahead : BOOLEAN, stale : BOOLEAN]
  /\ live = NoReply \/ live \in [st : {"open", "failed", "empty"}, text : SUBSET Words, hist : Hists, pending : 0..MaxWrites]
  /\ adopted \in {"none", "hit", "miss"} /\ missed \in {"none", "words", "context", "stream"}

Init ==
  /\ mode \in {"peeks", "report", "window"} /\ said = 0 /\ speaking = FALSE /\ stops = 0 /\ verdict = "none"
  /\ interim = {} /\ agg = {} /\ finalized = FALSE /\ open = FALSE /\ bot \in BOOLEAN
  /\ decoded = FALSE /\ unreported = FALSE /\ preview = {} /\ settle = FALSE
  /\ cut = "no" /\ heardCut = FALSE /\ pending = 0
  /\ hist = [said |-> {}, note |-> 0, reply |-> "none", writes |-> 0]
  /\ waiting = {} /\ live = NoReply
  /\ req = {} /\ adopted = "none" /\ missed = "none" /\ over = FALSE

-----------------------------------------------------------------------------
(* The Speculator.                                                                 *)

(* The user message the aggregator will write. *)
candidate(words) == agg \cup words

(* The heard-context corrector: the reply the cut is of, if it is there, reads as heard. *)
Reconciled(h) == IF heardCut /\ h.reply = "whole" THEN [h EXCEPT !.reply = "heard"] ELSE h

(* The snapshot: the context corrected, and the note the final will inject. *)
Asked(h) == [Reconciled(h) EXCEPT !.note = pending]

Live == live # NoReply

(* The epoch: what waits at the fence is stale once another call or a cancel came. *)
Stale(ws) == {[w EXCEPT !.stale = TRUE] : w \in ws}

(* start, past the fence: the context is corrected, and the stream opened, unless the live *)
(* one was asked the same.                                                          *)
Opened(text, h, ws) ==
  /\ hist' = Reconciled(h) /\ heardCut' = FALSE
  /\ IF Live /\ live.st = "open" /\ live.text = text /\ live.hist = Asked(h)
     THEN live' = live /\ waiting' = ws
     ELSE live' = [st |-> "open", text |-> text, hist |-> Asked(h), pending |-> pending] /\ waiting' = Stale(ws)

\* Slip: a call does not wait for the cut
FencedSlip == FALSE

(* The cut's reply is still on its way to the context, and no wait for it ran out. *)
Fenced == cut = "sent"

(* start(text): nothing outside a turn, and behind the fence while a cut is on its way. *)
Starts(text, ahead, h) ==
  IF text = {} \/ ~(ahead \/ open)
  THEN UNCHANGED <<specVars, heardCut>> /\ hist' = h
  ELSE IF Fenced
  THEN /\ waiting' = Stale(waiting) \cup {[text |-> text, ahead |-> ahead, stale |-> FALSE]}
       /\ UNCHANGED <<live, heardCut>> /\ hist' = h
  ELSE Opened(text, h, Stale(waiting))

Asks(text, ahead) == Starts(text, ahead, hist)
cancel == live' = NoReply /\ waiting' = Stale(waiting)

\* Slip: the epoch is not read again
GoesAheadSlip(w) == TRUE

(* A call that waited goes ahead only if nothing cancelled or superseded it. *)
GoesAhead(w) == ~w.stale /\ (w.ahead \/ open)

(* The fence lets the calls go: the cut landed. *)
Waited(w) ==
  /\ w \in waiting /\ ~Fenced
  /\ IF GoesAhead(w) THEN Opened(w.text, hist, waiting \ {w})
     ELSE waiting' = waiting \ {w} /\ UNCHANGED <<live, hist, heardCut>>
  /\ UNCHANGED <<sttVars, textVars, stopVars, cut, pending, endVars>>

(* The stream fails, or ends with nothing in it. *)
StreamEnds ==
  /\ Live /\ live.st = "open" /\ \E how \in {"failed", "empty"} : live' = [live EXCEPT !.st = how]
  /\ UNCHANGED <<sttVars, textVars, stopVars, ctxVars, waiting, endVars>>

-----------------------------------------------------------------------------
(* The strategy.                                                                   *)

Quiet == verdict = "incomplete" /\ ~speaking
OnDecode == mode = "report" /\ ~unreported

(* _handle_interim. *)
Interim ==
  /\ ~over /\ said < MaxWords /\ said' = said + 1 /\ interim' = interim \cup {said'}
  /\ IF mode = "peeks" THEN UNCHANGED <<specVars, settle>>
     ELSE /\ IF Live /\ live.text = candidate(interim') THEN UNCHANGED specVars ELSE cancel
          /\ settle' = (settle \/ (Quiet /\ (~OnDecode \/ decoded)))
  /\ UNCHANGED <<mode, speaking, stops, verdict, agg, finalized, open, bot, decoded, unreported, preview, ctxVars, endVars>>

(* handle_user_turn_started: words open the turn, and cut a reply that plays. *)
Opens ==
  /\ ~open /\ interim \cup agg # {} /\ open' = TRUE /\ settle' = FALSE
  /\ IF preview # {} THEN UNCHANGED specVars ELSE cancel
  /\ IF bot /\ cut = "no" THEN cut' = "sent" /\ heardCut' = TRUE ELSE UNCHANGED <<cut, heardCut>>
  /\ verdict' = (IF speaking THEN "none" ELSE verdict)
  /\ UNCHANGED <<mode, said, speaking, stops, interim, agg, finalized, bot, decoded, unreported, preview, hist, pending, endVars>>

(* _handle_transcription: the note is injected ahead of the final, which may add a word;  *)
(* on a turn not concluded it asks.                                                  *)
Final ==
  /\ ~over /\ interim # {} /\ interim' = {} /\ settle' = FALSE /\ finalized' = TRUE
  /\ \E more \in {0, 1} : said' = said + more /\ said' <= MaxWords /\ agg' = agg \cup interim \cup ((said + 1)..said')
  /\ LET h == [hist EXCEPT !.note = pending]
     IN IF ~speaking THEN Starts(agg', FALSE, h) ELSE hist' = h /\ UNCHANGED <<specVars, heardCut>>
  /\ UNCHANGED <<mode, speaking, stops, verdict, open, bot, decoded, unreported, preview, cut, pending, endVars>>

(* _handle_segment_reset: the segment is gone, its interim no one's words. *)
SegmentReset ==
  /\ ~over /\ interim # {} /\ interim' = {} /\ settle' = FALSE
  /\ IF Live /\ live.text = agg THEN UNCHANGED specVars ELSE cancel
  /\ UNCHANGED <<sttVars, agg, finalized, open, bot, decoded, unreported, preview, ctxVars, endVars>>

(* _handle_vad_user_started_speaking. *)
VadStarts ==
  /\ ~over /\ ~speaking /\ stops < MaxStops /\ speaking' = TRUE /\ verdict' = "none" /\ settle' = FALSE
  /\ preview' = {} /\ decoded' = FALSE /\ unreported' = FALSE /\ cancel
  /\ UNCHANGED <<mode, said, stops, textVars, ctxVars, endVars>>

(* _handle_vad_user_stopped_speaking: on an INCOMPLETE verdict the words in hand are asked, *)
(* or the window runs.                                                              *)
VadStops ==
  /\ ~over /\ speaking /\ speaking' = FALSE /\ stops' = stops + 1
  /\ \E v \in {"complete", "incomplete"}, none \in BOOLEAN :
       /\ verdict' = v /\ unreported' = (none /\ mode = "report")
       /\ settle' = (settle \/ (v = "incomplete" /\ interim # {} /\ (mode = "window" \/ unreported')))
  /\ IF finalized /\ interim = {} THEN Asks(agg, FALSE) ELSE UNCHANGED <<specVars, hist, heardCut>>
  /\ UNCHANGED <<mode, said, textVars, decoded, preview, cut, pending, endVars>>

(* SpeechDecodedFrame: the engine is past the speech of the latest stop. *)
Decoded ==
  /\ ~over /\ mode = "report" /\ ~unreported /\ stops > 0 /\ ~speaking /\ ~decoded /\ decoded' = TRUE
  /\ IF interim # {} /\ Quiet /\ ~bot THEN Asks(candidate(interim), FALSE) ELSE UNCHANGED <<specVars, hist, heardCut>>
  /\ UNCHANGED <<sttVars, textVars, unreported, preview, settle, cut, pending, endVars>>

(* _speculate_when_settled: the window is over. *)
Settles ==
  /\ settle /\ settle' = FALSE
  /\ IF interim # {} /\ Quiet /\ ~bot THEN Asks(candidate(interim), FALSE) ELSE UNCHANGED <<specVars, hist, heardCut>>
  /\ UNCHANGED <<sttVars, textVars, decoded, unreported, preview, cut, pending, endVars>>

(* SpeechPreviewFrame: what the stop's turn will say, asked with no turn open too. *)
Preview ==
  /\ ~over /\ mode = "peeks" /\ preview = {} /\ stops > 0 /\ ~speaking /\ req = {}
  /\ \E more \in {0, 1} : /\ said + more <= MaxWords /\ said' = said + more
                           /\ interim' = interim \cup ((said + 1)..said') /\ interim' # {} /\ preview' = interim'
  /\ IF bot THEN UNCHANGED <<specVars, hist, heardCut>> ELSE Asks(candidate(preview'), TRUE)
  /\ UNCHANGED <<mode, speaking, stops, verdict, agg, finalized, open, bot, decoded, unreported, settle, cut, pending, endVars>>

-----------------------------------------------------------------------------
(* The pipeline around it.                                                          *)

BotStops == bot /\ bot' = FALSE /\ UNCHANGED <<sttVars, interim, agg, finalized, open, stopVars, ctxVars, specVars, endVars>>

(* The interruption is across: the reply it cut is in the context. *)
CutLands ==
  /\ cut \in {"sent", "late"} /\ cut' = (IF cut = "sent" THEN "landed" ELSE "behind")
  /\ hist' = [hist EXCEPT !.reply = "whole"]
  /\ UNCHANGED <<sttVars, textVars, stopVars, heardCut, pending, specVars, endVars>>

(* A consult lands, a tool list is replaced, a note is folded; or memory finds a fresh note. *)
Writes ==
  /\ hist.writes + pending < MaxWrites
  /\ \/ hist' = [hist EXCEPT !.writes = @ + 1] /\ UNCHANGED pending
     \/ pending' = pending + 1 /\ UNCHANGED hist
  /\ UNCHANGED <<sttVars, textVars, stopVars, cut, heardCut, specVars, endVars>>

(* The turn is done: its verdict or the ceiling, with its close paid. *)
Closes == open /\ agg # {} /\ interim = {} /\ ~speaking /\ verdict # "none" /\ req = {}

(* wait_for_cuts runs out, of a commit or of the calls that wait, which start nothing: the *)
(* interruption is forgotten, and nothing waits for it again.                        *)
WaitRunsOut ==
  /\ Fenced /\ (waiting # {} \/ Closes)
  /\ cut' = "late" /\ waiting' = {}
  /\ UNCHANGED <<sttVars, textVars, stopVars, heardCut, hist, pending, live, endVars>>

(* The turn commits, its cut landed or forgotten. *)
Commits ==
  /\ Closes /\ ~Fenced
  /\ req' = agg /\ agg' = {} /\ finalized' = FALSE /\ open' = FALSE /\ settle' = FALSE /\ verdict' = "none"
  /\ UNCHANGED <<mode, said, speaking, stops, interim, bot, decoded, unreported, preview, ctxVars, specVars, adopted, missed, over>>

\* Slip: the words alone are compared
SameAskSlip(h) == live.text = req

(* _same_ask, whole. *)
SameAsk(h) == live.text = req /\ live.hist = h

(* take: the corrector is behind it, and the speculation is over either way. *)
Requests ==
  /\ req # {} /\ ~over /\ heardCut' = FALSE
  /\ LET h == Reconciled(hist)
         why == IF ~Live THEN "none" ELSE IF live.st # "open" THEN "stream" ELSE IF SameAsk(h) THEN "none"
                ELSE IF live.text # req THEN "words" ELSE "context"
     IN /\ adopted' = (IF Live /\ why = "none" THEN "hit" ELSE "miss") /\ missed' = why
        /\ hist' = [h EXCEPT !.said = @ \cup req]
  /\ live' = NoReply /\ req' = {} /\ UNCHANGED <<waiting, sttVars, textVars, stopVars, cut, pending, over>>

(* A run of ours stands down the speculation no turn owns. *)
stand_down_ownerless == IF Live /\ ~open THEN cancel ELSE UNCHANGED specVars

RunsOfOurs ==
  /\ ~over /\ req = {} /\ hist.writes + pending < MaxWrites /\ hist' = [hist EXCEPT !.writes = @ + 1]
  /\ stand_down_ownerless
  /\ UNCHANGED <<sttVars, textVars, stopVars, cut, heardCut, pending, endVars>>

(* cleanup. *)
Ends ==
  /\ ~over /\ over' = TRUE /\ settle' = FALSE /\ cancel
  /\ UNCHANGED <<sttVars, textVars, decoded, unreported, preview, ctxVars, req, adopted, missed>>

Over == over /\ UNCHANGED vars

Next ==
  \/ Interim \/ Opens \/ Final \/ SegmentReset \/ VadStarts \/ VadStops \/ Decoded \/ Settles \/ Preview
  \/ \E w \in waiting : Waited(w)
  \/ StreamEnds \/ BotStops \/ CutLands \/ WaitRunsOut \/ Writes \/ Commits \/ Requests \/ RunsOfOurs \/ Ends \/ Over

Spec == Init /\ [][Next]_vars

-----------------------------------------------------------------------------
(* No request runs while the caller speaks, nor after the session: what it was asked on is *)
(* stale, and it is billed.                                                         *)
AsksInQuiet == Live => ~speaking /\ ~over

(* A request is opened on the words the turn would commit now. (A stop's preview, which    *)
(* interims do not supersede, is left to the commit.)                                 *)
AsksTheWords ==
  [][live' # live /\ live' # NoReply /\ live'.st = "open" /\ mode # "peeks" => live'.text = agg' \cup interim']_vars

(* The cut comes in its order: no wait for it ran out ("going ahead; a reply they cut may  *)
(* land after the caller's turn").                                                   *)
InOrder == cut \notin {"late", "behind"}

(* A reply is adopted only for the context it was asked on, and that has the cut reply as  *)
(* heard where no wait for it ran out.                                               *)
AdoptedAsAsked ==
  [][Requests /\ adopted' = "hit" =>
       hist' = [live.hist EXCEPT !.said = @ \cup req] /\ (InOrder => hist'.reply # "whole")]_vars

(* However early the snapshot, a reply the caller cut reads as heard once they are answered,*)
(* where no wait for it ran out.                                                     *)
CutIsHeard == [][Requests /\ InOrder => hist'.reply # "whole"]_vars

=============================================================================
