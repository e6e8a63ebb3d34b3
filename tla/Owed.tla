-------------------------------- MODULE Owed --------------------------------
(* What the caller is owed until they hear it: owed.py, with the door that      *)
(* followup_gate.py keeps for the runs it asks for.                             *)
(*                                                                              *)
(* An answer is a consult that landed, or a tool's answer whose telling was cut. *)
(* What a reply is about, what was heard of it and every judge's verdict are     *)
(* choices; the waits for a judge and for a reply to settle may run out at any   *)
(* time.                                                                         *)
EXTENDS Naturals, FiniteSets

CONSTANTS
  Consults,      \* consults asked for (tool calls of openclaw_agent_consult)
  Tools,         \* calls of a tool that answers at once
  MAX_RENDERED,
  MaxRequests,   \* requests to the model (bound)
  MaxTurns       \* turns of the caller (bound)

Keys == Consults \cup Tools

VARIABLES
  rec,       \* the book: Owed._records and Owed._answers by key
  born,      \* records owed so far: their order
  caller,    \* "quiet", "talks" (no turn of it yet), "turn", "committed" (to be rendered)
  turns,
  view,      \* the request being rendered: its kind and keys, and where view() is; or none
  requests,
  replies,   \* replies not settled
  judging,   \* settles waiting for their verdicts
  declining, \* records whose decline check is read
  lull,      \* the lull loop: "off", "waits", "reads"
  run,       \* FollowupGate._run: the keys and purpose, or none
  closed

vars == <<rec, born, caller, turns, view, requests, replies, judging, declining, lull, run,
          closed>>

NoView == [kind |-> "none", keys |-> {}, at |-> "none", late |-> FALSE]
NoRun == [keys |-> {}, purpose |-> "none"]
Runs == {"run", "reoffer"}

Blank == [state |-> "none", left |-> 0, told |-> 0, cuts |-> 0, reoffers |-> 0, missed |-> FALSE,
          decline |-> "no", born |-> 0, failure |-> FALSE,
          ids |-> {},         \* the tools' answers it is the record of
          waits |-> FALSE]    \* ghost: it has come to be offered by the caller's next turn alone

States == {"none", "running", "answer", "owed", "closed", "dropped", "declined", "cancelled"}

TypeOK ==
  /\ \A k \in Keys :
       /\ rec[k].state \in States /\ rec[k].decline \in {"no", "cut", "said"}
       /\ rec[k].ids \subseteq Tools /\ rec[k].waits \in BOOLEAN
       /\ rec[k].left \in 0..2 /\ rec[k].told \in 0..2 /\ rec[k].cuts \in 0..2
       /\ rec[k].reoffers \in 0..1
  /\ caller \in {"quiet", "talks", "turn", "committed"}
  /\ view.kind \in {"none", "commit", "post"} \cup Runs /\ view.at \in {"none", "settles", "reads", "waits"}
  /\ \A p \in replies : p.cut \in {"no", "caller", "own"}
  /\ lull \in {"off", "waits", "reads"} /\ run.purpose \in {"none"} \cup Runs
  /\ Cardinality({k \in Keys : rec[k].state = "owed"}) <= MAX_RENDERED

Init ==
  /\ rec = [k \in Keys |-> Blank] /\ born = 0
  /\ caller = "quiet" /\ turns = 0 /\ view = NoView /\ requests = 0 /\ replies = {}
  /\ judging = {} /\ declining = {} /\ lull = "off" /\ run = NoRun /\ closed = "no"

-----------------------------------------------------------------------------
(* The book.                                                                    *)

owed(r) == {k \in Keys : r[k].state = "owed"}
End(r, ks, how) ==
  [k \in Keys |-> IF k \in ks
     THEN [r[k] EXCEPT !.state = how, !.missed = FALSE, !.decline = "no"] ELSE r[k]]

(* _owe and _evict: the newest, and past MAX_RENDERED the oldest is dropped. *)
evict(r) ==
  LET oldest == {k \in owed(r) : \A l \in owed(r) : r[k].born <= r[l].born} IN
  IF Cardinality(owed(r)) > MAX_RENDERED THEN End(r, oldest, "dropped") ELSE r

owe(r, k, n, failure) ==
  evict([r EXCEPT ![k] = [@ EXCEPT !.state = "owed", !.born = n, !.failure = failure]])

(* _arm: a re-offer is due when it goes quiet, and a loop watches for that. *)
arm(r, ks) == [k \in Keys |-> [r[k] EXCEPT !.missed = @ \/ (k \in ks \cap owed(r))]]
armed(ks) == IF ks # {} /\ closed = "no" /\ lull = "off" THEN "waits" ELSE lull

(* FollowupGate.ask: into the run that waits at the door already, if one does. *)
ask(ks, purpose) ==
  run' = [keys |-> run.keys \cup ks,
          purpose |-> IF "run" \in {run.purpose, purpose} THEN "run" ELSE purpose]

caller_request_pending == caller \in {"turn", "committed"}

Dispatch(k) ==
  /\ rec[k].state = "none" /\ closed = "no"
  /\ rec' = [rec EXCEPT ![k].state = IF k \in Consults THEN "running" ELSE "answer",
                        ![k].left = IF k \in Consults THEN 0 ELSE 2]
  /\ UNCHANGED <<born, caller, turns, view, requests, replies, judging, declining, lull, run, closed>>

(* land: an answer or a failure, owed and put to the caller; with a request of   *)
(* theirs to come, that carries it.                                             *)
Land(k) ==
  /\ rec[k].state = "running" /\ closed = "no"
  /\ \E failure \in BOOLEAN :
       LET r == owe(rec, k, born + 1, failure) IN
       IF caller_request_pending
       THEN rec' = arm(r, {k}) /\ lull' = armed({k}) /\ UNCHANGED run
       ELSE rec' = r /\ ask({k}, "run") /\ UNCHANGED lull
  /\ born' = born + 1
  /\ UNCHANGED <<caller, turns, view, requests, replies, judging, declining, closed>>

Cancelled(k) ==
  /\ rec[k].state = "running" /\ closed = "no"
  /\ rec' = [rec EXCEPT ![k].state = "cancelled"]
  /\ UNCHANGED <<born, caller, turns, view, requests, replies, judging, declining, lull, run, closed>>

-----------------------------------------------------------------------------
(* A reply ends: what was heard of it.                                          *)

pending == (\E p \in replies : p.blocks) \/ (\E j \in judging : j.blocks)

(* What a reply is evidence for: what its note carried, and the records made since   *)
(* of the answers it was rendered with.                                              *)
evidence(p) == p.noted \cup {k \in Keys : rec[k].ids \cap p.fresh # {}}

(* The record after the reply, and whether a judge is asked on it. *)
Heard(p, k, end) ==
  LET r == rec[k]
      whole == end.how = "whole" /\ k \in end.about
      judged == end.how = "cut" /\ k \in end.about
      cutTold == k \in end.counts
      drop == cutTold /\ r.cuts >= 1
  IN
  IF whole /\ (r.failure \/ r.told >= 1)
  THEN [r |-> [r EXCEPT !.state = "closed", !.missed = FALSE, !.decline = "no",
                        !.told = IF r.failure THEN @ ELSE 2], asked |-> FALSE, drops |-> FALSE]
  ELSE IF drop /\ ~judged
  THEN [r |-> [r EXCEPT !.state = "dropped", !.missed = FALSE, !.decline = "no", !.cuts = 2],
        asked |-> FALSE, drops |-> FALSE]
  ELSE [r |-> [r EXCEPT !.told = IF whole THEN 1 ELSE @,
                        !.cuts = IF ~cutTold THEN @ ELSE IF @ = 0 THEN 1 ELSE 2,
                        !.decline = IF ~cutTold THEN @ ELSE IF p.said THEN "said" ELSE "cut"],
        asked |-> whole \/ judged, drops |-> drop]

(* A record a reply left unheard has its re-offer due. *)
Missed(p, end, r) ==
  {k \in evidence(p) \cap owed(r) :
     p.kind \in Runs \/ end.how \in {"cut", "unaligned", "textless", "unheard"}}

(* _cut_answer: a cut tool's answer becomes a record and is armed; a cut of the       *)
(* caller's with something heard of it is its first cut telling.                     *)
cut_answer(r, counted, said, ks, n) ==
  IF ks = {} THEN r
  ELSE LET k == CHOOSE x \in ks : TRUE
           r1 == [x \in Keys |-> IF x \in ks THEN [r[x] EXCEPT !.left = 0, !.state = "closed"] ELSE r[x]]
           r2 == [r1 EXCEPT ![k].ids = ks, ![k].cuts = IF counted THEN 1 ELSE 0,
                            ![k].decline = IF ~counted THEN "no" ELSE IF said THEN "said" ELSE "cut"]
       IN arm(owe(r2, k, n, FALSE), {k})

(* The open answers a reply was to tell: told, or a try less. *)
tells_fresh(end) == end.tells /\ end.how \in {"whole", "cut", "unaligned", "unheard"}
told_all(r, ks) ==
  [k \in Keys |-> IF k \in ks THEN [r[k] EXCEPT !.left = 0, !.state = "closed"] ELSE r[k]]
try_less(r, ks) == [k \in Keys |-> IF k \in ks THEN [r[k] EXCEPT !.left = @ - 1] ELSE r[k]]

(* What a judge is asked on waits for it; the rest is settled at once, and a cut with *)
(* nothing heard, or its rest not known, owes what it was to tell.                    *)
settle(p, end) ==
  LET was == {k \in evidence(p) : rec[k].state = "owed"}
      got == [k \in was |-> Heard(p, k, end)]
      r1 == [k \in Keys |-> IF k \in was THEN got[k].r ELSE rec[k]]
      missed == Missed(p, end, r1)
      fresh == {k \in p.fresh : rec[k].left > 0}
      telling == IF tells_fresh(end) THEN fresh ELSE {}
      r2 == try_less(arm(r1, missed), fresh \ telling)
      asks == {k \in was : got[k].asked}
      owes == telling # {} /\ end.owes
      judged == asks # {} \/ (owes /\ end.how = "cut")
  IN
  /\ replies' = replies \ {p}
  /\ IF judged
     THEN /\ rec' = r2 /\ born' = born /\ lull' = armed(missed)
          /\ judging' = judging \cup
               {[asks |-> asks, cut |-> end.how # "whole", fresh |-> telling, owes |-> owes,
                 blocks |-> p.blocks, own |-> p.cut = "own", said |-> p.said,
                 drops |-> {k \in asks : got[k].drops}]}
     ELSE /\ rec' = IF owes THEN cut_answer(r2, p.cut # "own" /\ end.how = "unaligned", p.said,
                                            telling, born + 1)
                    ELSE told_all(r2, telling)
          /\ born' = IF owes THEN born + 1 ELSE born
          /\ lull' = armed(IF owes THEN missed \cup telling ELSE missed)
          /\ UNCHANGED judging

(* Heard whole; cut with its words and the rest known; cut with its rest not known;  *)
(* with its text not yet known; with nothing heard of it; over without a sound. What  *)
(* it is about and whose telling it counts for, where that is read; whether it tells  *)
(* the open answers it was rendered with, and they are somebody's to be owed.         *)
Ends == [how : {"whole", "cut", "unaligned", "textless", "unheard", "silent"},
         tells : BOOLEAN, owes : BOOLEAN, about : SUBSET Keys, counts : SUBSET Keys]

EndsOf(p) ==
  LET about(end) == IF end.how \in {"whole", "cut"} THEN evidence(p) ELSE {}
      counts(end) == IF end.how \in {"cut", "unaligned", "textless"} /\ p.cut # "own"
                     THEN p.noted ELSE {}
  IN
  {end \in Ends :
     /\ IF p.cut = "no" THEN end.how \in {"whole", "silent"} ELSE end.how # "whole"
     /\ end.tells => p.fresh # {}
     /\ end.owes => end.tells /\ end.how \in {"cut", "unaligned", "unheard"}
     /\ IF p.kind \in Runs THEN end.about = about(end) /\ end.counts = counts(end)
        ELSE end.about \subseteq about(end) /\ end.counts \subseteq counts(end)}

(* Played to its end, cut, or over with nothing said. *)
ReplyEnds ==
  /\ closed = "no"
  /\ \E p \in replies : \E end \in EndsOf(p) : settle(p, end)
  /\ UNCHANGED <<caller, turns, view, requests, declining, run, closed>>

(* What the judges made of the records, and of the tools' answers: "told", "owed", or *)
(* a telling that was "no answer" yet, for which a try is counted.                    *)
apply(j, heardKeys, made) ==
  LET open == {k \in j.asks : rec[k].state = "owed"}
      r1 == End(rec, open \cap heardKeys, "closed")
      r2 == End(r1, (open \ heardKeys) \cap j.drops, "dropped")
      fresh == {k \in j.fresh : rec[k].left > 0}
      owes == made = "owed" /\ fresh # {}
  IN
  /\ rec' = CASE made = "owed" -> cut_answer(r2, ~j.own, j.said, fresh, born + 1)
             [] made = "told" -> told_all(r2, fresh)
             [] made = "no_answer" -> try_less(r2, fresh)
  /\ born' = IF owes THEN born + 1 ELSE born
  /\ lull' = armed(IF owes THEN fresh ELSE {})

(* _judged and _apply: the verdicts, or none in time. *)
Judged ==
  /\ closed = "no"
  /\ \E j \in judging :
       /\ judging' = judging \ {j}
       /\ \E heardKeys \in SUBSET j.asks, made \in {"told", "owed", "no_answer"} :
            (made # "told" => j.owes) /\ apply(j, heardKeys, made)
  /\ UNCHANGED <<caller, turns, view, requests, replies, declining, run, closed>>

-----------------------------------------------------------------------------
(* The caller.                                                                  *)

Talks ==
  /\ closed = "no" /\ caller = "quiet" /\ turns < MaxTurns
  /\ caller' = "talks" /\ turns' = turns + 1
  /\ UNCHANGED <<rec, born, view, requests, replies, judging, declining, lull, run, closed>>

\* Slip: the run goes, its records are not armed.
run_droppedSlip == run' = NoRun /\ UNCHANGED <<rec, lull>>

(* Nothing came of it: noise. The run at the door may have waited too long. *)
run_dropped == rec' = arm(rec, run.keys) /\ lull' = armed(run.keys \cap owed(rec)) /\ run' = NoRun

FallsQuiet ==
  /\ closed = "no" /\ caller = "talks" /\ caller' = "quiet"
  /\ run_dropped \/ UNCHANGED <<rec, lull, run>>
  /\ UNCHANGED <<born, turns, view, requests, replies, judging, declining, closed>>

(* A turn starts: it cuts what is being rendered, the run goes, and every record *)
(* owed is armed.                                                               *)
caller_turn ==
  /\ closed = "no" /\ caller' = "turn"
  /\ \/ caller = "talks" /\ turns' = turns
     \/ caller = "committed" /\ turns < MaxTurns /\ turns' = turns + 1
  /\ view' = NoView /\ run' = NoRun
  /\ rec' = arm([k \in Keys |-> [rec[k] EXCEPT !.waits = FALSE]], owed(rec))
  /\ lull' = armed(owed(rec))
  /\ replies' = {[p EXCEPT !.cut = IF @ = "no" THEN "caller" ELSE @] : p \in replies}
  /\ UNCHANGED <<born, requests, judging, declining, closed>>

(* A line of the session's own (own_line) cuts what is being rendered and said. A run *)
(* cut before its request was noted settles nothing and arms nothing. A caller's cut  *)
(* charted while the line plays reads as the session's.                              *)
OwnLine ==
  /\ closed = "no" /\ caller # "turn"
  /\ view # NoView \/ \E p \in replies : p.cut # "own"
  /\ view' = NoView
  /\ caller' = IF view.kind = "commit" THEN "quiet" ELSE caller
  /\ requests' = IF view = NoView THEN requests ELSE requests + 1
  /\ \E late \in {"caller", "own"} :
       replies' = {[p EXCEPT !.cut = IF @ = "caller" THEN late ELSE "own"] : p \in replies}
  /\ LET watched(k) == rec[k].missed /\ lull # "off"
         gone == {k \in owed(rec) : view.kind \in Runs /\ k \in view.keys /\ ~watched(k)} IN
     rec' = [k \in Keys |-> [rec[k] EXCEPT !.waits = @ \/ k \in gone]]
  /\ UNCHANGED <<born, turns, judging, declining, lull, run, closed>>

(* A turn whose words all went elsewhere commits nothing. *)
TurnEndsEmpty ==
  /\ closed = "no" /\ caller = "turn" /\ caller' = "quiet"
  /\ UNCHANGED <<rec, born, turns, view, requests, replies, judging, declining, lull, run, closed>>

(* It ends in a request, its words in the context: those after a cut are said. *)
Commit ==
  /\ closed = "no" /\ caller = "turn" /\ view = NoView
  /\ rec' = [k \in Keys |-> [rec[k] EXCEPT !.decline = IF @ = "cut" THEN "said" ELSE @]]
  /\ IF requests < MaxRequests
     THEN caller' = "committed" /\ view' = [kind |-> "commit", keys |-> {}, at |-> "settles", late |-> FALSE]
     ELSE caller' = "quiet" /\ UNCHANGED view
  /\ replies' = {[p EXCEPT !.said = TRUE] : p \in replies}
  /\ judging' = {[j EXCEPT !.said = TRUE] : j \in judging}
  /\ UNCHANGED <<born, turns, requests, declining, lull, run, closed>>

(* A tool's result asks for one too. *)
Post ==
  /\ closed = "no" /\ view = NoView /\ caller = "quiet" /\ requests < MaxRequests
  /\ \E k \in Keys : rec[k].state = "answer"
  /\ view' = [kind |-> "post", keys |-> {}, at |-> "settles", late |-> FALSE]
  /\ UNCHANGED <<rec, born, caller, turns, requests, replies, judging, declining, lull, run, closed>>

-----------------------------------------------------------------------------
(* The run's door, and view(): the request gets its note.                       *)

RunGoes ==
  /\ closed = "no" /\ run # NoRun /\ caller = "quiet" /\ view = NoView /\ replies = {}
  /\ view' = [kind |-> run.purpose, keys |-> run.keys, at |-> "settles", late |-> FALSE]
  /\ run' = NoRun
  /\ UNCHANGED <<rec, born, caller, turns, requests, replies, judging, declining, lull, closed>>

\* Slip: what the caller said is not read for a request of ours.
ViewSettledSlip ==
  /\ view.at = "settles" /\ ~pending
  /\ view' = [view EXCEPT !.at = IF view.kind \in Runs THEN "waits" ELSE "reads",
                          !.late = replies # {} \/ judging # {}]
  /\ UNCHANGED <<rec, born, caller, turns, requests, replies, judging, declining, lull, run, closed>>

(* settled(): nothing pending; or the wait ran out, and what has not settled is   *)
(* not waited for again, a reply no one has claimed settled as not heard.        *)
ViewSettled ==
  /\ view.at = "settles" /\ ~pending
  /\ view' = [view EXCEPT !.at = "reads", !.late = replies # {} \/ judging # {}]
  /\ UNCHANGED <<rec, born, caller, turns, requests, replies, judging, declining, lull, run, closed>>

Unheard == [how |-> "silent", tells |-> FALSE, owes |-> FALSE, about |-> {}, counts |-> {}]

ViewTimesOut ==
  /\ view.at = "settles" /\ pending
  /\ view' = [view EXCEPT !.at = "reads", !.late = TRUE]
  /\ \/ \E p \in replies : settle(p, Unheard)
     \/ /\ replies' = {[p EXCEPT !.blocks = FALSE] : p \in replies}
        /\ judging' = {[j EXCEPT !.blocks = FALSE] : j \in judging}
        /\ UNCHANGED <<rec, born, lull>>
  /\ UNCHANGED <<caller, turns, requests, declining, run, closed>>

(* declines_read: what the caller said when they cut a telling is read first. *)
due_checks == {k \in owed(rec) : rec[k].decline = "said"}

declines_read ==
  /\ declining = {} /\ due_checks # {}
  /\ declining' = due_checks
  /\ rec' = [k \in Keys |-> IF k \in due_checks THEN [rec[k] EXCEPT !.decline = "no"] ELSE rec[k]]

ViewReads ==
  /\ view.at = "reads" /\ declines_read
  /\ view' = [view EXCEPT !.at = "waits"]
  /\ UNCHANGED <<born, caller, turns, requests, replies, judging, lull, run, closed>>

\* Slip: no second look at the record.
DeclineJudgedSlip ==
  /\ declining # {} /\ closed = "no"
  /\ \E no \in SUBSET declining : rec' = End(rec, no, "declined")
  /\ declining' = {}
  /\ UNCHANGED <<born, caller, turns, view, requests, replies, judging, lull, run, closed>>

DeclineJudged ==
  /\ declining # {} /\ closed = "no"
  /\ \E no \in SUBSET (declining \cap owed(rec)) : rec' = End(rec, no, "declined")
  /\ declining' = {}
  /\ UNCHANGED <<born, caller, turns, view, requests, replies, judging, lull, run, closed>>

Noted == IF view.kind \in Runs THEN view.keys \cap owed(rec) ELSE owed(rec)

(* noted: an answer a reply has carried already is ended by a caller who asks for      *)
(* something else.                                                                    *)
carried == {k \in Tools : /\ rec[k].left > 0
                          /\ rec[k].left < 2 \/ (\E p \in replies \cup judging : k \in p.fresh)}

(* A run with nothing owed any more makes no request. *)
Render ==
  /\ declining = {} /\ (view.at = "waits" \/ (view.at = "reads" /\ due_checks = {}))
  /\ view' = NoView
  /\ caller' = IF view.kind = "commit" THEN "quiet" ELSE caller
  /\ IF view.kind \in Runs /\ Noted = {} THEN UNCHANGED <<rec, replies, requests>>
     ELSE \E ended \in SUBSET (IF view.kind \in Runs THEN {} ELSE carried) :
       LET fresh == IF view.kind \in Runs THEN {} ELSE {k \in Tools \ ended : rec[k].left > 0} IN
       /\ requests' = requests + 1
       /\ rec' = told_all(rec, ended)
       /\ replies' = replies \cup {[kind |-> view.kind, noted |-> Noted, fresh |-> fresh,
                                    n |-> requests, cut |-> "no", said |-> FALSE,
                                    blocks |-> Noted # {} \/ fresh # {}]}
  /\ UNCHANGED <<born, turns, judging, declining, lull, run, closed>>

-----------------------------------------------------------------------------
(* The lull loop.                                                               *)

due == {k \in owed(rec) : rec[k].missed /\ rec[k].reoffers = 0}
quiet == caller = "quiet" /\ view = NoView /\ replies = {} /\ run = NoRun

LullReads ==
  /\ lull = "waits" /\ due # {} /\ ~pending /\ quiet /\ declines_read
  /\ lull' = "reads"
  /\ UNCHANGED <<born, caller, turns, view, requests, replies, judging, run, closed>>

LullAsks ==
  /\ declining = {}
  /\ lull = "reads" \/ (lull = "waits" /\ ~pending /\ quiet /\ due # {} /\ due_checks = {})
  /\ lull' = "waits"
  /\ IF ~pending /\ quiet /\ due # {}
     THEN /\ rec' = [k \in Keys |-> IF k \in due THEN [rec[k] EXCEPT !.missed = FALSE, !.reoffers = 1]
                                    ELSE rec[k]]
          /\ ask(due, "reoffer")
     ELSE UNCHANGED <<rec, run>>
  /\ UNCHANGED <<born, caller, turns, view, requests, replies, judging, declining, closed>>

LullOver ==
  /\ lull = "waits" /\ due = {} /\ lull' = "off"
  /\ UNCHANGED <<rec, born, caller, turns, view, requests, replies, judging, declining, run, closed>>

-----------------------------------------------------------------------------
(* The end of a session, and a conversation continued after the room's sleep.   *)

(* What runs lands without an answer; then a check being read is due again, and *)
(* what is judged ends as it does without a verdict.                            *)
SessionEnds ==
  /\ closed = "no" /\ closed' = "ending"
  /\ UNCHANGED <<rec, born, caller, turns, view, requests, replies, judging, declining, lull, run>>

LandUnknown(k) ==
  /\ closed = "ending" /\ rec[k].state = "running"
  /\ rec' = owe(rec, k, born + 1, TRUE) /\ born' = born + 1
  /\ UNCHANGED <<caller, turns, view, requests, replies, judging, declining, lull, run, closed>>

ApplyUnjudged ==
  /\ closed = "ending" /\ \A k \in Keys : rec[k].state # "running"
  /\ \E j \in judging :
       judging' = judging \ {j} /\ apply(j, IF j.cut THEN {} ELSE j.asks, IF j.owes THEN "owed" ELSE "told")
  /\ UNCHANGED <<caller, turns, view, requests, replies, declining, run, closed>>

close_session ==
  /\ closed = "ending" /\ judging = {} /\ \A k \in Keys : rec[k].state # "running"
  /\ closed' = "over"
  /\ rec' = [k \in Keys |-> IF k \in declining /\ rec[k].state = "owed" /\ rec[k].decline = "no"
                            THEN [rec[k] EXCEPT !.decline = "said"] ELSE rec[k]]
  /\ view' = NoView /\ replies' = {} /\ declining' = {} /\ lull' = "off" /\ run' = NoRun
  /\ caller' = "quiet"
  /\ UNCHANGED <<born, turns, requests, judging>>

(* to_saved, restore: owed, unheard, and not armed until the caller's next turn. *)
restore ==
  /\ closed = "over" /\ closed' = "no"
  /\ rec' = [k \in Keys |-> IF rec[k].state = "owed"
                            THEN [rec[k] EXCEPT !.missed = FALSE, !.waits = TRUE] ELSE rec[k]]
  /\ UNCHANGED <<born, caller, turns, view, requests, replies, judging, declining, lull, run>>

Over == closed = "over" /\ UNCHANGED vars

Next ==
  \/ \E k \in Keys : Dispatch(k) \/ Land(k) \/ Cancelled(k)
  \/ ReplyEnds \/ Judged
  \/ Talks \/ FallsQuiet \/ caller_turn \/ OwnLine \/ TurnEndsEmpty \/ Commit \/ Post
  \/ RunGoes \/ ViewSettled \/ ViewTimesOut \/ ViewReads \/ DeclineJudged \/ Render
  \/ LullReads \/ LullAsks \/ LullOver
  \/ SessionEnds \/ (\E k \in Keys : LandUnknown(k)) \/ ApplyUnjudged \/ close_session \/ restore \/ Over

Spec == Init /\ [][Next]_vars

(* Every wait in the book is bounded, and so is the talk of a caller who has no  *)
(* turns left; a reply ends.                                                     *)
Fairness ==
  /\ WF_vars(ReplyEnds) /\ WF_vars(Judged) /\ WF_vars(FallsQuiet) /\ WF_vars(Commit)
  /\ WF_vars(RunGoes) /\ WF_vars(ViewSettled \/ ViewTimesOut) /\ WF_vars(ViewReads)
  /\ WF_vars(DeclineJudged) /\ WF_vars(Render)
  /\ WF_vars(LullReads) /\ WF_vars(LullAsks) /\ WF_vars(LullOver)

FairSpec == Spec /\ Fairness

-----------------------------------------------------------------------------
(* Properties.                                                                  *)

(* An answer owed is in somebody's hands: a run for it is at the door, being     *)
(* rendered or said, or the lull loop will offer it; unless it was offered       *)
(* already. The caller's next turn alone is left to offer one that came with a    *)
(* conversation restored, and one whose run a line of the session's own cut       *)
(* before its request was noted: that arms nothing.                              *)
NobodyForgotten ==
  closed = "no" =>
    \A k \in owed(rec) :
      \/ rec[k].reoffers = 1 \/ rec[k].waits
      \/ rec[k].missed /\ lull # "off"
      \/ k \in run.keys \/ k \in view.keys
      \/ \E p \in replies : p.kind \in Runs /\ k \in p.noted

(* No request is made with a note on an answer whose telling the caller cut      *)
(* before what they said then has been read: "never mind" is not answered with   *)
(* the thing itself. (A reply that settles after the wait for it ran out is too   *)
(* late for that.)                                                               *)
CutsAreReadFirst ==
  [][\A p \in replies' \ replies :
       ~view.late /\ (\A b \in replies : p.n # b.n) => \A k \in p.noted : rec[k].decline # "said"]_vars

(* What has ended stays ended: a verdict, a run or a restore that comes late does *)
(* not owe it again.                                                             *)
EndedStaysEnded ==
  [][\A k \in Keys : rec[k].state \in {"closed", "dropped", "declined", "cancelled"} =>
       rec'[k].state = rec[k].state]_vars

(* What is promised: an answer is told or offered, once the caller leaves it a    *)
(* quiet moment; unless it is the caller's next turn that is to offer it.        *)
Promises == Keys
AreDue == {k \in Keys : rec[k].state = "owed" /\ ~rec[k].waits}
AreKept == {k \in Keys : rec[k].state # "owed" \/ rec[k].reoffers = 1 \/ rec[k].waits \/ closed # "no"}
=============================================================================
