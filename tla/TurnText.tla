------------------------------ MODULE TurnText ------------------------------
(***************************************************************************)
(* A sliced turn's final, where it differs from the words it was asked on  *)
(* (turn_text.py): the words are replaced in the aggregator, in the user   *)
(* message they were committed in, or -- something having taken them on    *)
(* the way (taken_turn.py) -- nowhere.                                     *)
(*                                                                         *)
(* Meanwhile the aggregator commits, its event comes to the corrector in a *)
(* task of its own, the reply hold folds a message into the one before it  *)
(* (heard_context.py), and a reply is asked ahead on a copy of the context.*)
(* A turn says one word; each word carries whose it is (history).          *)
(*                                                                         *)
(* The events' tasks wait for nothing and may be behind: a message not on  *)
(* record yet, with another after it, is not looked in. The record of the  *)
(* commits is whole here; the corrector's has the last eight, a final      *)
(* coming sooner than that.                                                *)
(***************************************************************************)
EXTENDS Naturals, Sequences, FiniteSets, SequencesExt, FiniteSetsExt

CONSTANTS
  MaxTurns,  \* turns of the caller (bound)
  Asked,     \* what each was asked on
  Final,     \* and what its final says; None: no words
  MaxBehind, \* commits whose event has not come to the corrector (bound)
  MaxTails,  \* words nobody spoke, put on the newest message (bound)
  None

VARIABLES
  pushed,   \* turns that went downstream
  parts,    \* the aggregator's words
  context,  \* the user messages: what each is, its words, the turns it was written of, and
            \* whether another was folded into it (history)
  events,   \* messages written, their events still to come: what each read
  frames,   \* messages whose context frame has not reached the reconcile
  lastUser, \* the newest message at the last one
  recorded, \* _commits: the messages on record, oldest first
  since,    \* how many there were as each turn was pushed
  taken,    \* turns whose words went elsewhere
  fate,     \* what became of each turn's final
  ahead,    \* the context the reply asked ahead is asked on
  made, tails

vars == <<pushed, parts, context, events, frames, lastUser, recorded, since, taken, fate, ahead, made, tails>>

Turns == 1..MaxTurns
Fates == {"due", "amended", "corrected", "kept", "unplaced"}
Reads(m) == [i \in DOMAIN m.words |-> m.words[i].reads]
Said == {None} \cup Range(Asked) \cup Range(Final)
Word == [of : {0} \cup Turns, reads : Said]
Message == [id : Nat, words : Seq(Word), own : SUBSET Turns, folded : BOOLEAN]
Texts(ms) == [i \in DOMAIN ms |-> Reads(ms[i])]

TypeOK ==
  /\ pushed \in 0..MaxTurns /\ made \in Nat /\ tails \in 0..MaxTails
  /\ parts \in Seq(Word) /\ context \in Seq(Message) /\ recorded \in Seq(Nat)
  /\ \A m \in Range(context) : m.id \in 1..made /\ m.words # <<>>
  /\ Range(recorded) \subseteq 1..made /\ frames \in Nat /\ lastUser \in Nat
  /\ events \in Seq(Seq(Said)) /\ Len(events) <= MaxBehind /\ ahead \in Seq(Seq(Said))
  /\ since \in [Turns -> Nat] /\ taken \subseteq Turns /\ fate \in [Turns -> Fates]

Init ==
  /\ pushed = 0 /\ parts = <<>> /\ context = <<>> /\ events = <<>> /\ frames = 0 /\ lastUser = 0
  /\ recorded = <<>> /\ since = [t \in Turns |-> 0] /\ taken = {} /\ fate = [t \in Turns |-> "due"]
  /\ ahead = <<>> /\ made = 0 /\ tails = 0

------------------------------------------------------------------------------
(* A turn's final comes to the aggregator on its provisional words. *)

Pushes == /\ pushed < MaxTurns
          /\ pushed' = pushed + 1
          /\ since' = [since EXCEPT ![pushed'] = Len(recorded)]
          /\ UNCHANGED <<context, events, frames, lastUser, recorded, fate, ahead, made, tails>>

Provisional ==
  /\ Pushes
  /\ parts' = Append(parts, [of |-> pushed', reads |-> Asked[pushed']])
  /\ UNCHANGED taken

(* Or something took it: its turn closes with nothing to answer, and what  *)
(* the turn had said before goes with it -- or it is dropped alone.        *)
Taken ==
  /\ Pushes
  /\ parts' \in {parts, <<>>}
  /\ taken' = taken \cup {pushed'} \cup (IF parts' = parts THEN {} ELSE {w.of : w \in Range(parts)})

(* The aggregator writes the turn. *)
Commits ==
  /\ parts # <<>> /\ Len(events) < MaxBehind
  /\ made' = made + 1
  /\ context' = Append(context, [id |-> made', words |-> parts, own |-> {w.of : w \in Range(parts)}, folded |-> FALSE])
  /\ events' = Append(events, Reads([words |-> parts]))
  /\ frames' = frames + 1
  /\ parts' = <<>> /\ ahead' = <<>>
  /\ UNCHANGED <<pushed, lastUser, recorded, since, taken, fate, tails>>

(* The message an event names: the newest not on record that reads so, or  *)
(* -- rewritten since -- the newest.                                       *)
Named(content) ==
  LET left == {i \in DOMAIN context : context[i].id \notin Range(recorded)}
      same == {i \in left : Reads(context[i]) = content}
  IN IF same # {} THEN Max(same) ELSE IF left # {} THEN Max(left) ELSE 0

MessageAdded ==
  /\ events # <<>>
  /\ LET i == Named(Head(events))
     IN recorded' = IF i = 0 THEN recorded ELSE Append(recorded, context[i].id)
  /\ events' = Tail(events)
  /\ UNCHANGED <<pushed, parts, context, frames, lastUser, since, taken, fate, ahead, made, tails>>

(* The commit's context frame comes to the reconcile; where the turn       *)
(* before went unanswered, the message just written is folded into it.     *)
Folds(n) == n >= 2 /\ context[n - 1].id = lastUser /\ events = <<>>
Reconciles ==
  /\ frames > 0 /\ frames' = frames - 1
  /\ LET n == Len(context)
     IN \/ lastUser' = context[n].id /\ UNCHANGED context
        \/ /\ Folds(n)
           /\ context' = Append(SubSeq(context, 1, n - 2),
                                [context[n - 1] EXCEPT !.words = @ \o context[n].words, !.folded = TRUE])
           /\ UNCHANGED lastUser
  /\ UNCHANGED <<pushed, parts, events, recorded, since, taken, fate, ahead, made, tails>>

(* Words nobody was heard saying after the commit are its turn's. *)
TailWords ==
  /\ context # <<>> /\ tails < MaxTails /\ events = <<>>
  /\ tails' = tails + 1
  /\ context' = [context EXCEPT ![Len(context)].words = Append(@, [of |-> 0, reads |-> None])]
  /\ UNCHANGED <<pushed, parts, events, frames, lastUser, recorded, since, taken, fate, ahead, made>>

(* A reply is asked ahead, on the context and the words in hand. *)
AsksAhead ==
  /\ parts # <<>> /\ ahead = <<>>
  /\ ahead' = Append(Texts(context), Reads([words |-> parts]))
  /\ UNCHANGED <<pushed, parts, context, events, frames, lastUser, recorded, since, taken, fate, made, tails>>

------------------------------------------------------------------------------
(* The final of a turn, where it differs: they settle in order, and reach  *)
(* the corrector behind what they correct.                                 *)

Rewritten(words, k, t) ==
  SubSeq(words, 1, k - 1) \o (IF Final[t] = None THEN <<>> ELSE <<[words[k] EXCEPT !.reads = Final[t]]>>)
    \o SubSeq(words, k + 1, Len(words))
Whole(words, t) == {k \in DOMAIN words : words[k].reads = Asked[t]}
LastWhole(words, t) == IF Whole(words, t) = {} THEN 0 ELSE Max(Whole(words, t))

Amends(t) ==
  /\ LastWhole(parts, t) # 0
  /\ parts' = Rewritten(parts, LastWhole(parts, t), t)
  /\ fate' = [fate EXCEPT ![t] = "amended"]
  /\ UNCHANGED <<context, ahead>>

Where(id) == {i \in DOMAIN context : context[i].id = id}
Since(t) == {n \in DOMAIN recorded : n > since[t]}
Unseen(i, ns) == \A n \in ns : recorded[n] # context[i].id
OnRecord(ns) == {l \in ns \X DOMAIN context : context[l[2]].id = recorded[l[1]]}

\* Slip: any message on record is looked in, not those since the turn was pushed.
LooksSlip(t) ==
  OnRecord(DOMAIN recorded) \cup
  {<<Len(recorded) + 1, i>> : i \in {k \in DOMAIN context : k = Len(context) /\ Unseen(k, DOMAIN recorded)}}

\* Slip: the newest message is not looked in where its event has not come.
LooksOnRecordSlip(t) == OnRecord(Since(t))

(* Where its committed words may be: the messages written since it was     *)
(* pushed, oldest first; then the newest, not on record yet, or one a      *)
(* message that is gone may have been folded into. <<how late, where>>     *)
Looks(t) ==
  OnRecord(Since(t)) \cup
  {<<Len(recorded) + 1, i>> :
     i \in {k \in DOMAIN context :
             /\ k = Len(context) /\ Unseen(k, Since(t))
             /\ Unseen(k, DOMAIN recorded) \/ \E n \in Since(t) : Where(recorded[n]) = {}}}

\* Slip: the reply asked ahead keeps the words as they were.
AmendAheadSlip(i, new) == ahead

(* The reply asked ahead has its copy corrected too, where it still reads so. *)
AmendAhead(i, new) ==
  IF i < Len(ahead) /\ ahead[i] = Reads(context[i]) THEN [ahead EXCEPT ![i] = Reads([words |-> new])] ELSE ahead

Corrects(t) ==
  /\ LastWhole(parts, t) = 0
  /\ LET found == {l \in Looks(t) : LastWhole(context[l[2]].words, t) # 0}
     IN IF found = {} THEN fate' = [fate EXCEPT ![t] = "unplaced"] /\ UNCHANGED <<context, ahead>>
        ELSE LET i == (CHOOSE l \in found : \A m \in found : l[1] <= m[1])[2]
                 new == Rewritten(context[i].words, LastWhole(context[i].words, t), t)
             IN IF new = <<>> THEN fate' = [fate EXCEPT ![t] = "kept"] /\ UNCHANGED <<context, ahead>>
                ELSE /\ fate' = [fate EXCEPT ![t] = "corrected"]
                     /\ context' = [context EXCEPT ![i].words = new]
                     /\ ahead' = AmendAhead(i, new)
  /\ UNCHANGED parts

Finals(t) ==
  /\ t <= pushed /\ fate[t] = "due" /\ Asked[t] # Final[t]
  /\ \A u \in 1..(t - 1) : fate[u] # "due" \/ Asked[u] = Final[u]
  /\ Amends(t) \/ Corrects(t)
  /\ UNCHANGED <<pushed, events, frames, lastUser, recorded, since, taken, made, tails>>

\* The bound: every turn has had its final.
Rest == /\ pushed = MaxTurns /\ \A t \in Turns : fate[t] # "due" \/ Asked[t] = Final[t]
        /\ UNCHANGED vars

Next == \/ Provisional \/ Taken \/ Commits \/ MessageAdded \/ Reconciles \/ TailWords \/ AsksAhead
        \/ (\E t \in Turns : Finals(t)) \/ Rest

Spec == Init /\ [][Next]_vars

------------------------------------------------------------------------------
(* However alike the turns' words, the final of one rewrites no message     *)
(* that was there before it and nothing has been folded into.               *)
AnsweredStands ==
  [][\A t \in Turns : fate[t] = "due" /\ fate'[t] = "corrected"
       => \A i \in DOMAIN context : context'[i] = context[i] \/ context[i].folded
            \/ context[i].id \notin Range(SubSeq(recorded, 1, since[t]))]_vars

(* And it finds them, in the aggregator, in the message on record they were *)
(* written in, or in the newest: what it does not find was taken, or folded *)
(* into a turn that another has followed, or its message is not on record   *)
(* yet and another has followed -- or the final of a turn before that was   *)
(* asked on the same words had them.                                        *)
Of(i) == {w.of : w \in Range(context[i].words)}
Holds(i, t) == t \in Of(i) /\ (i = Len(context) \/ (t \in context[i].own /\ context[i].id \in Range(recorded)))
HadBy(u, t) == Asked[u] = Asked[t] /\ fate[u] \in {"amended", "corrected"}
FinalIsPlaced ==
  [][\A t \in Turns : fate[t] = "due" /\ fate'[t] = "unplaced"
       => \/ t \in taken
          \/ \E u \in 1..(t - 1) : HadBy(u, t)
          \/ (\E i \in DOMAIN context : t \in Of(i)) /\ ~\E i \in DOMAIN context : Holds(i, t)]_vars

(* A correction loses no reply asked ahead: the copy of the context it is   *)
(* asked on follows.                                                        *)
AheadStillFits ==
  [][(\E t \in Turns : fate[t] = "due" /\ fate'[t] = "corrected") /\ ahead # <<>>
     => (Front(ahead) = Texts(context) => Front(ahead') = Texts(context'))]_vars
=============================================================================
