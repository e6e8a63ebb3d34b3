----------------------------- MODULE SlicedTurn -----------------------------
(***************************************************************************)
(* The words of a caller's turns where one continuous decode is sliced     *)
(* into them (stt.py, TEAPORT_STT_TURN_TEXT=slice).  A commit at a         *)
(* position asks the engine for a preview of the words up to there; the    *)
(* turn goes downstream on the words in hand and the preview's, and its    *)
(* final, once all its words have come, corrects it.                       *)
(*                                                                         *)
(* Word k ends at position 2k of the engine's clock, so that a commit at   *)
(* 2k falls within the margin of word k and one at 2k + 1 clear of it.     *)
(* Words compare by their text, as in the code, and may read the same.     *)
(* Left out: the echo guard and the wake gate, words of several pieces,    *)
(* and what the logs count.                                                *)
(***************************************************************************)
EXTENDS Naturals, Sequences, SequencesExt, FiniteSetsExt

CONSTANTS
  Says,      \* what the caller may say: word by word, what each reads
  Words,     \* how many words that is (bound)
  MaxStops,  \* VAD stops (bound)
  MaxStray,  \* commits of the stranded-segment backstop (bound)
  MaxFaults, \* words a preview mishears or misses, previews cut short, finals not
             \* waited for: a clock run out, the pause at its cap (bound)
  Peeks      \* a VAD stop peeks (TEAPORT_STT_PREVIEW_AT_STOP)

VOUCH == 1
End == 2 * Words + 1  \* the session's last position (bound)

VARIABLES
  text,    \* what each word reads
  now,     \* the audio sent: the position of a commit that goes out now
  talking, stops, strays,  \* the VAD's edges, the backstop's commits
  mark,    \* where the last commit went out, or the caller's speech began
  pending, \* the stop waits for its verdict
  wanted,  \* the stop will peek once the answer outstanding is in
  slips, lates,  \* against the bounds
  sent,    \* main words delivered
  through, \* end_through_ms: no word that ends before it is still to come
  decoded, \* a turn at or before it has had its time by the decoder's clock
  commits, \* those not answered: the turn each is for, or the peek
  turns,   \* turns waiting for their final, by position
  early,   \* turns settled before it and kept
  peek,    \* the stop's peek
  open,    \* the open turn's words
  last,    \* _final_through: the position of the last turn settled
  capped,  \* _settle_through: turns up to there settle now
  settling,\* _finalize_turns runs
  closed,  \* turns closed so far
  out      \* what went on, close by close, as corrected since (history)

caller == <<text, now, talking, mark, stops, strays>>
engine == <<sent, through, decoded>>
counts == <<slips, lates>>
vars == <<caller, pending, wanted, counts, engine, commits, turns, early, peek, open, last, capped,
          settling, closed, out>>

NoPeek == [n |-> 0]
Ids == 0..(MaxStops + MaxStray)
TypeOK ==
  /\ now \in 0..End /\ stops \in 0..MaxStops /\ strays \in 0..MaxStray
  /\ {talking, pending, wanted, settling} \subseteq BOOLEAN
  /\ slips \in 0..MaxFaults /\ lates \in 0..MaxFaults
  /\ sent \in 0..Words /\ {through, decoded, last, capped} \subseteq 0..End
  /\ \A c \in Range(commits) : c.at \in 0..End /\ c.id \in Ids
  /\ \A t \in Range(turns) \cup Range(early) : t.at \in 0..End /\ Range(t.words) \subseteq 1..Words
  /\ Range(open) \subseteq 1..Words /\ closed \in Ids

Init ==
  /\ text \in Says /\ now = 0 /\ talking = FALSE /\ mark = 0 /\ stops = 0 /\ strays = 0
  /\ pending = FALSE /\ wanted = FALSE /\ slips = 0 /\ lates = 0
  /\ sent = 0 /\ through = 0 /\ decoded = 0 /\ commits = <<>> /\ turns = <<>> /\ early = <<>>
  /\ peek = NoPeek /\ open = <<>> /\ last = 0 /\ capped = 0 /\ settling = FALSE /\ closed = 0
  /\ out = <<>>

Pos(k) == 2 * k
Reads(ws) == [i \in DOMAIN ws |-> text[ws[i]]]
Among(x, s) == \E i \in DOMAIN s : s[i] = x
Without(s, x) == RemoveFirst(s, x)

------------------------------------------------------------------------------
(* A word against a turn (THE CUT'S MARGIN). *)

Vouched(t, k) == Pos(k) < t.at + VOUCH /\ Among(text[k], t.expect)
Claims(t, k) == [t EXCEPT !.words = Append(@, k), !.expect = Without(@, text[k])]

\* Slip: a word past the commit is the next turn's, though this one's preview had it.
TakesSlip(t, k) == Pos(k) < t.at

(* The turn has the word: it ends before its position, or its preview had it. *)
Takes(t, k) == Pos(k) < t.at \/ Vouched(t, k)

(* An earlier turn, previewed, may still deliver words: later ones go after. *)
Owes(t) == t.deferred \/ t.asked = <<>>

\* Slip: a turn goes on whatever one before it may still say.
OwedBeforeSlip(at, ts) == FALSE

OwedBefore(at, ts) == \E t \in Range(ts) : t.previewed /\ t.at < at /\ Owes(t)

(* A preview less what an earlier turn's preview vouched for, off its front *)
(* run, in their order.                                                    *)
PastEarlier(d, at) ==
  LET due == SelectSeq(early \o turns, LAMBDA t : t.previewed /\ t.at < at)
      owed == FlattenSeq([i \in DOMAIN due |-> due[i].expect])
      Take(s, w) == LET hits == {i \in DOMAIN s.owed : s.owed[i] = w}
                    IN IF s.n < Len(owed) + 2 /\ hits # {}
                       THEN [s EXCEPT !.owed = SubSeq(@, Min(hits) + 1, Len(@)), !.n = @ + 1]
                       ELSE [s EXCEPT !.kept = Append(@, w), !.n = @ + 1]
  IN IF owed = <<>> THEN d ELSE FoldLeft(Take, [owed |-> owed, kept |-> <<>>, n |-> 0], d).kept

------------------------------------------------------------------------------
(* Commits. *)

NewTurn(id, at, bot, ws) ==
  [id |-> id, at |-> at, bot |-> bot, words |-> ws, previewed |-> FALSE, asked |-> <<>>, inHand |-> 0,
   expect |-> <<>>, deferred |-> FALSE, pushed |-> <<>>, place |-> 0, holds |-> FALSE, lo |-> 0]

Before(at) == SelectSeq(open, LAMBDA k : Pos(k) < at)
From(at) == SelectSeq(open, LAMBDA k : Pos(k) >= at)

(* A turn closes where the audio sent stands: the open words that end      *)
(* before are its own.                                                     *)
Commits(bot) ==
  /\ closed' = closed + 1 /\ mark' = now
  /\ commits' = Append(commits, [id |-> closed', at |-> now])
  /\ turns' = Append(turns, NewTurn(closed', now, bot, Before(now)))
  /\ open' = From(now)

Peeking == /\ commits' = Append(commits, [id |-> 0, at |-> now])
           /\ peek' = [n |-> stops', at |-> now, previewed |-> FALSE]

(* The VAD's stop: over the bot its commit is the barge-in; else the stop  *)
(* waits for its verdict, and peeks meanwhile.                             *)
Stop(bot) ==
  /\ talking /\ stops < MaxStops /\ mark < now
  /\ talking' = FALSE /\ stops' = stops + 1
  /\ IF bot
     THEN Commits(TRUE) /\ pending' = FALSE /\ UNCHANGED <<wanted, peek>>
     ELSE /\ pending' = TRUE
          /\ IF Peeks /\ commits = <<>> THEN Peeking /\ UNCHANGED wanted
             ELSE wanted' = Peeks /\ UNCHANGED <<commits, peek>>
          /\ UNCHANGED <<mark, turns, open, closed>>
  /\ UNCHANGED <<text, now, strays, counts, engine, early, last, capped, settling, out>>

(* The caller speaks, again: the peek is no one's, and nothing is held. *)
Start ==
  /\ ~talking
  /\ talking' = TRUE
  /\ mark' = now
  /\ pending' = FALSE /\ wanted' = FALSE
  /\ peek' = NoPeek
  /\ UNCHANGED <<text, now, stops, strays, counts, engine, commits, turns, early, open, last, capped,
                 settling, closed, out>>

(* The backstop: open words gone quiet, with no stop to answer for them. *)
Stranded ==
  /\ ~pending /\ open # <<>> /\ strays < MaxStray /\ mark < now
  /\ strays' = strays + 1
  /\ Commits(FALSE)
  /\ UNCHANGED <<text, now, talking, stops, pending, wanted, counts, engine, early, peek, last, capped,
                 settling, out>>

------------------------------------------------------------------------------
(* A turn goes downstream on its provisional text. *)

(* The words after the preview, one by one, spend what it vouched for. *)
Spent(t, n) == [t EXCEPT !.expect =
  FoldLeft(LAMBDA e, k : Without(e, text[k]), @, SubSeq(t.words, n + 1, Len(t.words)))]
Reclaimed(t, rest, late) == FoldLeft(LAMBDA s, k :
    IF k \in late /\ Takes(s[1], k) THEN <<Claims(s[1], k), s[2]>> ELSE <<s[1], Append(s[2], k)>>,
  <<t, <<>>>>, rest)

(* It closes on its final: the preview was cut short, had none of the      *)
(* caller's words over the bot, or an earlier turn's are still to come.    *)
Defers(t, asked, cut, owed) == cut \/ (t.bot /\ asked = <<>>) \/ owed \/ OwedBefore(t.at, turns)

Pushed(t0, rest, asked, n, delta, cut, owed, late) ==
  LET t1 == Spent([t0 EXCEPT !.previewed = TRUE, !.asked = asked, !.inHand = n, !.expect = delta], n)
      two == Reclaimed(t1, rest, late)
      defers == Defers(t0, asked, cut, owed)
      goes == ~defers /\ asked # <<>>
  IN /\ LET t == [two[1] EXCEPT !.deferred = defers, !.holds = defers /\ t0.bot,
                                !.pushed = IF goes THEN asked ELSE <<>>,
                                !.place = IF goes THEN Len(out) + 1 ELSE 0]
        IN turns' = Append(SelectSeq(turns, LAMBDA u : u.id < t.id), t)
                      \o SelectSeq(turns, LAMBDA u : u.id > t.id)
     /\ open' = two[2]
     /\ out' = IF goes THEN Append(out, asked) ELSE out
     /\ settling' = TRUE

(* A complete verdict, the ceiling, or the hold's end: the stop's peek is   *)
(* adopted, at its own position, or a commit goes out.  Words that came in  *)
(* since its preview may be its turn's.                                     *)
Adopted == NewTurn(closed + 1, peek.at, FALSE, Before(peek.at))
Since == {open[i] : i \in (peek.seen + 1)..Len(open)}

Verdict ==
  /\ pending
  /\ pending' = FALSE /\ wanted' = FALSE
  /\ peek' = NoPeek
  /\ \/ peek = NoPeek /\ Commits(FALSE) /\ UNCHANGED <<settling, out>>
     \/ /\ peek # NoPeek /\ ~peek.previewed
        /\ closed' = closed + 1 /\ UNCHANGED mark
        /\ commits' = [commits EXCEPT ![Len(commits)] = [id |-> closed', at |-> peek.at]]
        /\ turns' = Append(turns, Adopted)
        /\ open' = From(peek.at)
        /\ UNCHANGED <<settling, out>>
     \/ /\ peek # NoPeek /\ peek.previewed
        /\ closed' = closed + 1 /\ UNCHANGED mark
        /\ Pushed(Adopted, From(peek.at), peek.asked, peek.inHand, peek.delta, peek.cut, peek.owed, Since)
        /\ UNCHANGED commits
  /\ UNCHANGED <<text, now, talking, stops, strays, counts, engine, early, last, capped>>

------------------------------------------------------------------------------
(* The engine's messages; none is handled while turns are being settled. *)

(* What a preview at a position may say: the words up to there that have   *)
(* not come, or one of them missed or misheard, or nothing ("cut short").  *)
Said(at) == {k \in 1..Words : k > sent /\ Pos(k) <= at}
Heard(at) == [i \in 1..Cardinality(Said(at)) |-> text[sent + i]]
Previews(at) ==
  {<<Heard(at), FALSE, 0>>}
  \cup {<<<<>>, TRUE, 1>>}
  \cup {<<RemoveAt(Heard(at), i), FALSE, 1>> : i \in DOMAIN Heard(at)}
  \cup {<<[Heard(at) EXCEPT ![i] = x], FALSE, 1>> : i \in DOMAIN Heard(at), x \in Range(text)}

(* A preview answers the oldest commit: a turn's, a peek's, or a peek's    *)
(* nobody wants any more.  A stop that waited for it peeks now.            *)
Preview ==
  /\ ~settling /\ commits # <<>>
  /\ \E p \in Previews(Head(commits).at) :
       LET c == Head(commits)
           d == PastEarlier(p[1], c.at)
       IN /\ slips + lates + p[3] <= MaxFaults /\ slips' = slips + p[3]
          /\ \/ /\ c.id # 0
                /\ \E t \in Range(turns) :
                     t.id = c.id /\ Pushed(t, open, Reads(t.words) \o d, Len(t.words), d, p[2], FALSE, {})
                /\ IF wanted /\ pending /\ Len(commits) = 1
                   THEN commits' = <<[id |-> 0, at |-> now]>> /\ peek' = [n |-> stops, at |-> now, previewed |-> FALSE]
                   ELSE commits' = Tail(commits) /\ UNCHANGED peek
             \/ /\ c.id = 0 /\ peek # NoPeek
                /\ ~peek.previewed
                /\ peek' = [n |-> peek.n, at |-> c.at, previewed |-> TRUE, asked |-> Reads(Before(c.at)) \o d,
                            inHand |-> Len(Before(c.at)), delta |-> d, cut |-> p[2], seen |-> Len(open),
                            owed |-> OwedBefore(c.at, turns)]
                /\ commits' = Tail(commits)
                /\ UNCHANGED <<turns, open, out, settling>>
             \/ /\ c.id = 0 /\ peek = NoPeek
                /\ IF wanted /\ pending /\ Len(commits) = 1
                   THEN commits' = <<[id |-> 0, at |-> now]>> /\ peek' = [n |-> stops, at |-> now, previewed |-> FALSE]
                   ELSE commits' = Tail(commits) /\ UNCHANGED peek
                /\ UNCHANGED <<turns, open, out, settling>>
          /\ wanted' = FALSE
  /\ UNCHANGED <<caller, pending, lates, engine, early, last, capped, closed>>

First(S) == Min(S)
Pop(s, i) == [s EXCEPT ![i].expect = Tail(@)]

(* A word its turn's preview had not: the first later turn -- or the peek   *)
(* -- whose preview has it at its front waits for it no more.               *)
Later(t, k) == {i \in DOMAIN turns : turns[i].at > t.at /\ turns[i].expect # <<>> /\ Head(turns[i].expect) = text[k]}
SpendsLater(i, k) ==
  LET t == turns[i]
      l == Later(t, k)
      ts == [turns EXCEPT ![i] = Claims(t, k)]
      front == l = {} /\ peek # NoPeek /\ peek.previewed /\ peek.at > t.at /\ peek.delta # <<>> /\ Head(peek.delta) = text[k]
  IN IF Among(text[k], t.expect) THEN turns' = ts /\ UNCHANGED peek
     ELSE /\ turns' = IF l = {} THEN ts ELSE Pop(ts, First(l))
          /\ peek' = IF front THEN [peek EXCEPT !.delta = Tail(@)] ELSE peek

EarlyTakes(t, k) == IF Pos(k) < t.at THEN t.lo <= Pos(k) ELSE Vouched(t, k)
EarlyTakers(k) == {i \in DOMAIN early : EarlyTakes(early[i], k)}
Fronts(ts) == {i \in DOMAIN ts : ts[i].expect # <<>>}
PopWord(ts, i, k) == [Pop(ts, i) EXCEPT ![i].words = Append(@, k)]
IsFront(ts, k) == Fronts(ts) # {} /\ Head(ts[First(Fronts(ts))].expect) = text[k]

(* A word of the main transcript is filed where it ends: in a turn kept     *)
(* early; in a settled turn's stretch, the first turn whose preview has it  *)
(* next; in a turn that waits; or in the open one.                          *)
Delta ==
  /\ ~settling /\ sent < Words /\ Pos(sent + 1) <= now
  /\ sent' = sent + 1
  /\ LET k == sent + 1
         e == EarlyTakers(k)
         w == {i \in DOMAIN turns : Takes(turns[i], k)}
     IN IF e # {} THEN early' = [early EXCEPT ![First(e)] = Claims(@, k)] /\ UNCHANGED <<turns, open, peek>>
        ELSE IF Pos(k) < last
        THEN IF IsFront(early, k)
             THEN early' = PopWord(early, First(Fronts(early)), k) /\ UNCHANGED <<turns, open, peek>>
             ELSE IF Fronts(early) = {} /\ IsFront(turns, k)
             THEN turns' = PopWord(turns, First(Fronts(turns)), k) /\ UNCHANGED <<early, open, peek>>
             ELSE open' = Append(open, k) /\ UNCHANGED <<turns, early, peek>>
        ELSE IF w # {} THEN SpendsLater(First(w), k) /\ UNCHANGED <<early, open>>
        ELSE open' = Append(open, k) /\ UNCHANGED <<turns, early, peek>>
  /\ UNCHANGED <<caller, pending, wanted, counts, through, decoded, commits, last, capped, settling, closed, out>>

(* How far the engine says it is: no word ending before is still to come.  *)
(* Its bound may freeze while its decoder goes on.                         *)
Bound == IF sent < Words /\ Pos(sent + 1) < now THEN Pos(sent + 1) ELSE now
Progress ==
  /\ ~settling /\ decoded' = Bound
  /\ \/ through' = Bound /\ UNCHANGED lates
     \/ UNCHANGED through /\ slips + lates < MaxFaults /\ lates' = lates + 1
  /\ through' # through \/ decoded' # decoded
  /\ settling' = TRUE
  /\ UNCHANGED <<caller, pending, wanted, slips, sent, commits, turns, early, peek, open, last, capped, closed, out>>

------------------------------------------------------------------------------
(* Settling, oldest first. *)

Due(t) == IF t.expect = <<>> THEN t.at ELSE t.at + VOUCH

\* Slip: a turn is final at its position, though its preview vouched for more.
FinalSlip(t) == t.at <= through

Final(t) == Due(t) <= through
Overdue(t) == Due(t) <= decoded \/ t.at <= capped

\* Slip: a turn nothing was asked on keeps its late words to itself.
OutcomeSlip(t, timedOut) ==
  LET final == Reads(t.words)
  IN IF t.deferred THEN (IF final = <<>> THEN out ELSE Append(out, final))
     ELSE IF timedOut \/ final = t.asked \/ t.pushed = <<>> THEN out
     ELSE [out EXCEPT ![t.place] = final]

(* A deferred turn closes on its words; one nothing went on for sends them  *)
(* on as new; any other is corrected, where its final differs -- or stands, *)
(* where that never came.                                                   *)
Outcome(t, timedOut) ==
  LET final == Reads(t.words)
      goes == IF final = <<>> THEN out ELSE Append(out, final)
  IN IF t.deferred THEN goes
     ELSE IF timedOut \/ final = t.asked THEN out
     ELSE IF t.pushed = <<>> THEN goes
     ELSE [out EXCEPT ![t.place] = final]

\* Slip: what a turn settled early still waits for goes to the next turn.
KeptSlip(t) == FALSE

(* Its late words stay its own. *)
Kept(t) == t.expect # <<>> /\ ~t.deferred /\ t.pushed # <<>> /\ Due(t) > decoded

SettleHead(timedOut) ==
  LET t == Head(turns)
  IN /\ turns' = Tail(turns)
     /\ last' = t.at
     /\ early' = IF timedOut /\ Kept(t) THEN Append(early, [t EXCEPT !.lo = last]) ELSE early
     /\ out' = Outcome(t, timedOut)

Prunable == {i \in DOMAIN early : Final(early[i]) \/ early[i].at + VOUCH <= decoded}
Prune ==
  /\ settling /\ Prunable # {}
  /\ LET i == First(Prunable)
     IN /\ early' = RemoveAt(early, i)
        /\ out' = Outcome(early[i], ~Final(early[i]))
  /\ UNCHANGED <<caller, pending, wanted, counts, engine, commits, turns, peek, open, last, capped, settling, closed>>

Waits == turns # <<>> /\ Head(turns).previewed
Ready == Waits /\ (Final(Head(turns)) \/ Overdue(Head(turns)))
Settle ==
  /\ settling /\ Prunable = {} /\ Ready
  /\ SettleHead(~Final(Head(turns)))
  /\ UNCHANGED <<caller, pending, wanted, counts, engine, commits, peek, open, capped, settling, closed>>

Settled ==
  /\ settling /\ Prunable = {} /\ ~Ready
  /\ settling' = FALSE /\ capped' = 0
  /\ UNCHANGED <<caller, pending, wanted, counts, engine, commits, turns, early, peek, open, last, closed, out>>

(* The wall clock's backstop, for the oldest turn or one kept. *)
Backstop ==
  /\ ~settling /\ slips + lates < MaxFaults /\ lates' = lates + 1
  /\ \/ Waits /\ SettleHead(TRUE)
     \/ early # <<>> /\ early' = Tail(early) /\ UNCHANGED <<turns, last, out>>
  /\ UNCHANGED <<caller, pending, wanted, slips, engine, commits, peek, open, capped, settling, closed>>

(* close_held: the reply's pause is at its cap, and what holds it closes. *)
Holding == {t \in Range(turns) : t.holds}
CapComes ==
  /\ ~settling /\ Holding # {} /\ slips + lates < MaxFaults /\ lates' = lates + 1
  /\ capped' = Max({t.at : t \in Holding})
  /\ settling' = TRUE
  /\ UNCHANGED <<caller, pending, wanted, slips, engine, commits, turns, early, peek, open, last, closed, out>>

Goes ==
  /\ now < End /\ now' = now + 1
  /\ UNCHANGED <<text, talking, mark, stops, strays, pending, wanted, counts, engine, commits, turns, early, peek, open,
                 last, capped, settling, closed, out>>

\* The bound: the session is over.
Rest == now = End /\ UNCHANGED vars

Stops == \E bot \in BOOLEAN : Stop(bot)
Next == \/ Goes \/ Start \/ Stops \/ Verdict \/ Stranded
        \/ Preview \/ Delta \/ Progress \/ Prune \/ Settle \/ Settled \/ Backstop \/ CapComes \/ Rest

Spec == Init /\ [][Next]_vars
(* The engine answers, sends what it has and says how far it is.           *)
FairSpec == Spec /\ WF_vars(Goes) /\ WF_vars(Preview) /\ WF_vars(Delta) /\ WF_vars(Progress)
                 /\ WF_vars(Prune \/ Settle \/ Settled)

------------------------------------------------------------------------------
(* However the words were cut into turns, what went on is what was said:   *)
(* with every turn settled, the turns' texts and the open words are the    *)
(* words the engine has sent, each once and in order.                      *)
Quiet == turns = <<>> /\ early = <<>> /\ (lates = 0 \/ slips = 0)
TextIsWhole == Quiet => FlattenSeq(out) \o Reads(open) = SubSeq(text, 1, sent)

(* What a turn is promised: it is settled, and closed where it waited for that. *)
Promises == Ids \ {0}
AreDue == {t.id : t \in Range(turns)}
AreKept == 1..closed \ AreDue
=============================================================================
