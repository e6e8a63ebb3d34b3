----------------------------- MODULE Listening ------------------------------
(* What listens to the caller: the parts together. They share no state:     *)
(* they meet in the inputs each module takes from any source.               *)

CONSTANTS
  MaxReplies, MaxSpeech, Reports, SttHolds, MaxFaults, MaxWords, MaxDrafts,
  MaxStops, MaxWrites, Control, Plain, NoWords, MaxConsults, LastFrame,
  MaxRuns, MaxFails, Orphans, MaxDials, MaxMicFaults, MaxOthers

VARIABLES
  replies, bot, playing, notices, cutAt, speaking, botSpeaking, paused, holds,
  resumeTask, capTask, watch, heard, worded, nowords, noisy, spoken, engine,
  interims, sttWatch, frames, gateHeld, asked, continued, turnOpen,
  gatePaused, gateBot, tailOver, dropped,
  starts, stops, said, bot_turn, audio, seg, faults, toStt, edges, texts,
  seen, wait, buffer, interims_turn, unasked, commits, answered, stranded,
  atStop, counted, owed, receipts, speaking_turn, stopped, complete, text,
  finalized, open, inferred, refused, gap, agg, committed, lost, judged,
  mode, said_ahead, speaking_ahead, stops_ahead, verdict, interim, agg_ahead,
  finalized_ahead, open_ahead, bot_ahead, decoded, unreported, preview,
  settle, cut, heardCut, hist, pending, waiting, live, req, adopted, missed,
  over,
  mayCross, timely, text_control, said_control, emitting, arriving, held,
  asked_control, asks, out, taken, ended, consult, working, calls, toPlugin,
  toBrain, open_control, heard_control, order, actedAt, usedUp, claim,
  running, duty, acted, read, confirmed, late, met,
  slow, live_voice, state, unclear, byModel, first, starting, cancelling,
  polling, last, before, look, new, tried, timer, unit, run, file,
  starts_voice, ends, mine, owed_voice,
  wake_mode, at, backoff, restart, connect_now, card, link, cl, dials, brain,
  up, store, other, others, faults_mic, theirs, left, gone

Pause == INSTANCE BargePause
Turn == INSTANCE UserTurn
  WITH bot <- bot_turn, interims <- interims_turn, speaking <- speaking_turn
Ahead == INSTANCE Speculation
  WITH said <- said_ahead, speaking <- speaking_ahead, stops <- stops_ahead,
       agg <- agg_ahead, finalized <- finalized_ahead, open <- open_ahead,
       bot <- bot_ahead, MaxWords <- MaxDrafts
Run == INSTANCE RunControl
  WITH text <- text_control, said <- said_control, asked <- asked_control,
       open <- open_control, heard <- heard_control
Voice == INSTANCE WifiVoice
  WITH live <- live_voice, starts <- starts_voice, owed <- owed_voice
Room == INSTANCE RoomBridge
  WITH faults <- faults_mic, MaxFaults <- MaxMicFaults

pauseVars == <<replies, bot, playing, notices, cutAt, speaking, botSpeaking,
  paused, holds, resumeTask, capTask, watch, heard, worded, nowords, noisy,
  spoken, engine, interims, sttWatch, frames, gateHeld, asked, continued,
  turnOpen, gatePaused, gateBot, tailOver, dropped>>
turnVars == <<starts, stops, said, bot_turn, audio, seg, faults, toStt, edges,
  texts, seen, wait, buffer, interims_turn, unasked, commits, answered,
  stranded, atStop, counted, owed, receipts, speaking_turn, stopped, complete,
  text, finalized, open, inferred, refused, gap, agg, committed, lost,
  judged>>
aheadVars == <<mode, said_ahead, speaking_ahead, stops_ahead, verdict,
  interim, agg_ahead, finalized_ahead, open_ahead, bot_ahead, decoded,
  unreported, preview, settle, cut, heardCut, hist, pending, waiting, live,
  req, adopted, missed, over>>
controlVars == <<mayCross, timely, text_control, said_control, emitting,
  arriving, held, asked_control, asks, out, taken, ended, consult, working,
  calls, toPlugin, toBrain, open_control, heard_control, order, actedAt,
  usedUp, claim, running, duty, acted, read, confirmed, late, met>>
voiceVars == <<slow, live_voice, state, unclear, byModel, first, starting,
  cancelling, polling, last, before, look, new, tried, timer, unit, run, file,
  starts_voice, ends, mine, owed_voice>>
micVars == <<wake_mode, at, backoff, restart, connect_now, card, link, cl,
  dials, brain, up, store, other, others, faults_mic, theirs, left, gone>>

vars == <<pauseVars, turnVars, aheadVars, controlVars, voiceVars, micVars>>

Init ==
  /\ Pause!Init /\ Turn!Init /\ Ahead!Init /\ Run!Init /\ Voice!Init
  /\ Room!Init

pauseOnly == UNCHANGED <<turnVars, aheadVars, controlVars, voiceVars,
  micVars>>
PauseGoes == Pause!Next /\ pauseOnly

turnOnly == UNCHANGED <<pauseVars, aheadVars, controlVars, voiceVars,
  micVars>>
TurnGoes == Turn!Next /\ turnOnly

aheadOnly == UNCHANGED <<pauseVars, turnVars, controlVars, voiceVars,
  micVars>>
AheadGoes == Ahead!Next /\ aheadOnly

controlOnly == UNCHANGED <<pauseVars, turnVars, aheadVars, voiceVars,
  micVars>>
ControlGoes == Run!Next /\ controlOnly

voiceOnly == UNCHANGED <<pauseVars, turnVars, aheadVars, controlVars,
  micVars>>
VoiceGoes == Voice!Next /\ voiceOnly

micOnly == UNCHANGED <<pauseVars, turnVars, aheadVars, controlVars,
  voiceVars>>
MicGoes == Room!Next /\ micOnly

Next == PauseGoes \/ TurnGoes \/ AheadGoes \/ ControlGoes \/ VoiceGoes \/
        MicGoes

Spec == Init /\ [][Next]_vars

-----------------------------------------------------------------------------
(* Every part keeps to its states. *)
TypeOK ==
  /\ Pause!TypeOK /\ Turn!TypeOK /\ Ahead!TypeOK /\ Run!TypeOK /\ Voice!TypeOK
  /\ Room!TypeOK

-----------------------------------------------------------------------------
(* A silent output is one the pauser will wake, or an interruption is about *)
(* to; while words over it are being decided, no timer but the cap wakes    *)
(* it.                                                                      *)
SilenceIsOwned == Pause!SilenceIsOwned /\ Pause!HeldWordsWait

-----------------------------------------------------------------------------
(* Once the words of a turn are the model's, a caller who is quiet can be   *)
(* heard anew.                                                              *)
BargeInReachable == Turn!BargeInReachable

(* What is still to come of the caller's words is waited for: a reply       *)
(* resumes on the grace of a close with no word of the speech still to      *)
(* come, a segment held for its verdict is closed by a verdict on its own   *)
(* stop, and a turn has every word up to the stop it ended at.              *)
LateWordsAreHeard ==
  /\ Pause!HeardOutFirst /\ Turn!HeldOpen /\ Turn!TurnHasItsWords

-----------------------------------------------------------------------------
(* A request ahead of the turn runs only while the caller is quiet, is      *)
(* opened on the words the turn would commit now, and is the answer only to *)
(* the very conversation it was asked on; and a reply that was cut is read  *)
(* as heard, where no wait for the cut ran out.                             *)
AheadIsAsAsked ==
  /\ []Ahead!AsksInQuiet /\ Ahead!AsksTheWords /\ Ahead!AdoptedAsAsked
  /\ Ahead!CutIsHeard

-----------------------------------------------------------------------------
(* No frame is lost, doubled or overtaken; the model is kept from answering *)
(* only what the relay acted on after; and when the relay acts in time,     *)
(* what it acts on is not answered by the model as well.                    *)
RunControlIsTrue == Run!RunControlIsTrue

-----------------------------------------------------------------------------
(* The setup unit a session has started is never up, or about to be, with   *)
(* nobody following it, unless the unit's own stop was refused; what is     *)
(* announced of it is of that run; and each                                 *)
(* setup has one end said, which a model that handed over to it hears of.   *)
SetupIsFollowed == Voice!SetupIsFollowed

(* A setup a new box begins unasked is the first of its boot. *)
UnaskedIsFirst == Voice!UnaskedIsFirst

-----------------------------------------------------------------------------
(* A conversation left for a fresh one does not come back once the fresh    *)
(* one has begun.                                                           *)
FreshIsFresh == Room!FreshIsFresh

(* A Talk client who took the box is not dialled over while they have it,   *)
(* whatever fails meanwhile.                                                *)
TakenIsTheirs == Room!TakenIsTheirs
=============================================================================
