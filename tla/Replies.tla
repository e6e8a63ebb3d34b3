------------------------------ MODULE Replies -------------------------------
(* What answers the caller: the parts together. They share no state:        *)
(* they meet in the inputs each module takes from any source.               *)

EXTENDS Sequences

CONSTANTS
  Consults, Tools, MAX_RENDERED, MaxRequests, MaxTurns, Calls, Lasting,
  MaxSpeech, MaxRuns, MaxSent, MaxNotes, MaxNoteTurns, MaxSaid, MaxCuts,
  MaxPauses, MaxRare, SpokenAs, MaxSpoken, MaxStops, MaxStray, MaxFaults,
  Peeks, MaxFinals, AskedAs, FinallyAs, None, MaxBehind, MaxTails

VARIABLES
  rec, born, caller, turns, view, requests, replies, judging, declining, lull,
  run, closed,
  user, bot, llm, turn, vad, held, speechPending, timer, covered, out, due,
  answer, unread, lost, claimed, unrendered, asked, run_gate, note, speeches,
  runs, called,
  context, pending, posted, order, orderOld, held_for, drainer, recent,
  turn_notes, react, sent, turns_notes,
  kind, llm_ledger, told, full, pushedEnd, between, cut_ledger, cuts, pauses,
  toTts, ctxs, toOut, playing, speaking, held_ledger, played, gen, queue,
  turns_ledger, had, ended, closed_ledger, fifo, win, paused, flushing, wrote,
  settled,
  said, line, worded, open, agg, commit, cuts_hold, ctx, lastUser, merge,
  asked_hold, writing, replies_hold, answers, call, q, armed, tool_call,
  holding, drops, droppedCalls, ending, discard_to_end, capped, out_hold,
  overtaken, played_hold, settled_hold, timeouts, over,
  text, now, talking, stops, strays, mark, pending_slices, wanted, slips,
  lates, sent_slices, through, decoded, commits, turns_slices, early, peek,
  open_slices, last, capped_slices, settling, closed_slices, out_slices,
  pushed, parts, context_corrects, events, frames, lastUser_corrects,
  recorded, since, taken, fate, ahead, made, tails

Book == INSTANCE Owed
Gate == INSTANCE FollowupGate
  WITH run <- run_gate
Notes == INSTANCE ClientNotes
  WITH turn <- turn_notes, turns <- turns_notes, MaxTurns <- MaxNoteTurns
Ledger == INSTANCE TranscriptLedger
  WITH llm <- llm_ledger, cut <- cut_ledger, held <- held_ledger,
       turns <- turns_ledger, closed <- closed_ledger
Hold == INSTANCE ReplyHold
  WITH cuts <- cuts_hold, asked <- asked_hold, replies <- replies_hold,
       out <- out_hold, played <- played_hold, settled <- settled_hold
Slices == INSTANCE SlicedTurn
  WITH Says <- SpokenAs, Words <- MaxSpoken,
       pending <- pending_slices, sent <- sent_slices, turns <- turns_slices,
       open <- open_slices, capped <- capped_slices, closed <- closed_slices,
       out <- out_slices
Corrects == INSTANCE TurnText
  WITH context <- context_corrects, lastUser <- lastUser_corrects,
       MaxTurns <- MaxFinals, Asked <- AskedAs, Final <- FinallyAs

bookVars == <<rec, born, caller, turns, view, requests, replies, judging,
  declining, lull, run, closed>>
gateVars == <<user, bot, llm, turn, vad, held, speechPending, timer, covered,
  out, due, answer, unread, lost, claimed, unrendered, asked, run_gate, note,
  speeches, runs, called>>
notesVars == <<context, pending, posted, order, orderOld, held_for, drainer,
  recent, turn_notes, react, sent, turns_notes>>
ledgerVars == <<kind, llm_ledger, told, full, pushedEnd, between, cut_ledger,
  cuts, pauses, toTts, ctxs, toOut, playing, speaking, held_ledger, played,
  gen, queue, turns_ledger, had, ended, closed_ledger, fifo, win, paused,
  flushing, wrote, settled>>
holdVars == <<said, line, worded, open, agg, commit, cuts_hold, ctx, lastUser,
  merge, asked_hold, writing, replies_hold, answers, call, q, armed,
  tool_call, holding, drops, droppedCalls, ending, discard_to_end, capped,
  out_hold, overtaken, played_hold, settled_hold, timeouts, over>>
slicesVars == <<text, now, talking, stops, strays, mark, pending_slices,
  wanted, slips, lates, sent_slices, through, decoded, commits, turns_slices,
  early, peek, open_slices, last, capped_slices, settling, closed_slices,
  out_slices>>
correctsVars == <<pushed, parts, context_corrects, events, frames,
  lastUser_corrects, recorded, since, taken, fate, ahead, made, tails>>

vars == <<bookVars, gateVars, notesVars, ledgerVars, holdVars, slicesVars,
  correctsVars>>

Init ==
  /\ Book!Init /\ Gate!Init /\ Notes!Init /\ Ledger!Init /\ Hold!Init
  /\ Slices!Init /\ Corrects!Init

bookOnly == UNCHANGED <<gateVars, notesVars, ledgerVars, holdVars, slicesVars,
  correctsVars>>
BookGoes == Book!Next /\ bookOnly

gateOnly == UNCHANGED <<bookVars, notesVars, ledgerVars, holdVars, slicesVars,
  correctsVars>>
GateGoes == Gate!Next /\ gateOnly

notesOnly == UNCHANGED <<bookVars, gateVars, ledgerVars, holdVars, slicesVars,
  correctsVars>>
NotesGoes == Notes!Next /\ notesOnly

ledgerOnly == UNCHANGED <<bookVars, gateVars, notesVars, holdVars, slicesVars,
  correctsVars>>
LedgerGoes == Ledger!Next /\ ledgerOnly

holdOnly == UNCHANGED <<bookVars, gateVars, notesVars, ledgerVars, slicesVars,
  correctsVars>>
HoldGoes == Hold!Next /\ holdOnly

slicesOnly == UNCHANGED <<bookVars, gateVars, notesVars, ledgerVars, holdVars,
  correctsVars>>
SlicesGoes == Slices!Next /\ slicesOnly

correctsOnly == UNCHANGED <<bookVars, gateVars, notesVars, ledgerVars,
  holdVars, slicesVars>>
CorrectsGoes == Corrects!Next /\ correctsOnly

Next == BookGoes \/ GateGoes \/ NotesGoes \/ LedgerGoes \/ HoldGoes \/
        SlicesGoes \/ CorrectsGoes

Spec == Init /\ [][Next]_vars

-----------------------------------------------------------------------------
(* Every part keeps to its states. *)
TypeOK ==
  /\ Book!TypeOK /\ Gate!TypeOK /\ Notes!TypeOK /\ Ledger!TypeOK
  /\ Hold!TypeOK /\ Slices!TypeOK /\ Corrects!TypeOK

-----------------------------------------------------------------------------
(* An answer owed is in somebody's hands. *)
NobodyForgotten == Book!NobodyForgotten

(* No request is made with a note on an answer whose telling was cut, the   *)
(* cut not yet read; and an answer that is settled stays so.                *)
CutsAreReadFirst == Book!CutsAreReadFirst /\ Book!EndedStaysEnded

-----------------------------------------------------------------------------
(* A tool's result is read by a request, an answer to come or a turn that   *)
(* is open, unless a line of the session's own, or a turn with nothing to   *)
(* commit, has dropped its answer.                                          *)
ResultIsRead == Gate!ResultIsRead

-----------------------------------------------------------------------------
(* The request of a caller's turn never ends in a note, and a reaction's    *)
(* order is in the context while it is live, and no other is.               *)
NoNoteIsAnswered == Notes!NoNoteIsAnswered /\ []Notes!OneOrder

-----------------------------------------------------------------------------
(* How a reply is settled is what the user has heard of it by then; the     *)
(* words charted for what plays are its own, and a reply cut short is not   *)
(* charted as whole.                                                        *)
HeardIsWhatPlayed ==
  /\ Ledger!HeardIsWhatPlayed /\ []Ledger!ClaimsItsOwn
  /\ []Ledger!FragmentIsNotWhole

-----------------------------------------------------------------------------
(* No tool call stays in the context without its result, and the session's  *)
(* End is never held.                                                       *)
NothingHangs == Hold!NoOrphanCall /\ Hold!EndIsNotHeld

(* A turn is committed only once the interruption of its words has cut the  *)
(* old reply, a reply that starts to play answers everything the caller's   *)
(* turns have said, and a turn is folded into the one before only when      *)
(* nothing of its reply played.                                             *)
RepliesFitTurns == Hold!CutBeforeTurn /\ Hold!NoStaleReply /\ Hold!NoFalseMerge

-----------------------------------------------------------------------------
(* However a caller's words were cut into turns, what went on is what was   *)
(* said: with every turn settled, each word once and in order.              *)
TextIsWhole == Slices!TextIsWhole

-----------------------------------------------------------------------------
(* A turn's final finds the words it corrects and rewrites no message that  *)
(* was there before them, and no reply asked ahead misses over it.          *)
FinalsFitTurns ==
  /\ Corrects!AnsweredStands /\ Corrects!FinalIsPlaced
  /\ Corrects!AheadStillFits
=============================================================================
