----------------------------- MODULE ClientNotes -----------------------------
(* Notes for the model that nobody said: client_notes.py. They wait for a turn     *)
(* boundary: a turn's own request, just before the words it answers, or a quiet    *)
(* moment, where one that asks for it gets a reaction: an order, read once.        *)
(*                                                                                *)
(* Words reach the context some queues before their request passes here; it does   *)
(* so within a debounce. A deadline passes whenever it does.                       *)
EXTENDS Naturals, Sequences, FiniteSets, SequencesExt, Queues

CONSTANTS
  MaxSent,    \* notes sent (bound)
  MaxNotes,   \* TEAPORT_CONTEXT_MAX_NOTES
  MaxTurns    \* the caller's turns (bound)

VARIABLES
  context,    \* the model's messages
  pending,    \* _pending
  posted,     \* _posted
  order,      \* _order: there is one
  orderOld,   \* it is older than REACT_MAX_WAIT_S
  held_for,   \* _held_for: whose words, 0 when none
  drainer,    \* _drain runs
  recent,     \* the last note that asked is within RESPOND_INTERVAL_S
  turn,       \* of the gate: "none", "open", "onway" (words in, request not here yet),
              \* "asked" (and claimed), "reply"
  react,      \* an LLMRunFrame of ours is on its way, the window claimed for it
  sent, turns \* bounds

vars == <<context, pending, posted, order, orderOld, held_for, drainer, recent, turn, react,
          sent, turns>>

Ids == 1..MaxSent
Messages == [who : {"note", "order", "words", "reply"}, id : 0..(MaxSent + MaxTurns)]
Note == [id : Ids, asks : BOOLEAN, host : BOOLEAN, late : BOOLEAN]

TypeOK ==
  /\ context \in Seq(Messages) /\ posted \in Seq(Ids) /\ pending \in Seq(Note)
  /\ held_for \in 0..MaxTurns /\ sent \in 0..MaxSent /\ turns \in 0..MaxTurns
  /\ {order, orderOld, drainer, recent, react} \subseteq BOOLEAN
  /\ turn \in {"none", "open", "onway", "asked", "reply"}

Init ==
  /\ context = <<>> /\ pending = <<>> /\ posted = <<>> /\ order = FALSE /\ orderOld = FALSE
  /\ held_for = 0 /\ drainer = FALSE /\ recent = FALSE /\ turn = "none" /\ react = FALSE
  /\ sent = 0 /\ turns = 0

Message(who, id) == [who |-> who, id |-> id]
Texts(ns) == LET own == Only(ns, {n \in Note : ~n.host})
             IN  [i \in DOMAIN own |-> Message("note", own[i].id)]
contextVars == <<context, posted, order, orderOld>>

-----------------------------------------------------------------------------
(* Notes come in.                                                                *)

(* _receive, _receive_host and add_notice. One that asks while another has just    *)
(* asked is refused, and nothing queued.                                          *)
Takes(n) ==
  LET all == Append(pending, n) IN
  pending' = IF ~n.host /\ Len(all) > MaxNotes
             THEN SubSeq(all, Len(all) - MaxNotes + 1, Len(all)) ELSE all

Receive ==
  /\ sent < MaxSent /\ sent' = sent + 1
  /\ \E asks, host \in BOOLEAN :
       /\ asks /\ ~host => ~recent
       /\ host => asks
       /\ Takes([id |-> sent + 1, asks |-> asks, host |-> host, late |-> FALSE])
       /\ recent' = (recent \/ (asks /\ ~host))
  /\ drainer' = TRUE
  /\ UNCHANGED <<context, posted, order, orderOld, held_for, turn, react, turns>>

IntervalOver ==
  /\ recent /\ recent' = FALSE
  /\ UNCHANGED <<contextVars, pending, held_for, drainer, turn, react, sent, turns>>

Deadline ==
  \/ /\ \E i \in DOMAIN pending : pending[i].asks /\ ~pending[i].late
     /\ LET i == CHOOSE k \in DOMAIN pending : /\ pending[k].asks /\ ~pending[k].late
                                               /\ \A m \in 1..(k - 1) : pending[m].late \/ ~pending[m].asks
        IN  pending' = [pending EXCEPT ![i].late = TRUE]
     /\ UNCHANGED <<contextVars, held_for, drainer, recent, turn, react, sent, turns>>
  \/ /\ order /\ ~orderOld /\ orderOld' = TRUE
     /\ UNCHANGED <<context, posted, order, pending, held_for, drainer, recent, turn, react,
                    sent, turns>>

-----------------------------------------------------------------------------
(* Into the context.                                                             *)

NoOrder(msgs) == Only(msgs, {m \in Messages : m.who # "order"})

(* _retain: the oldest beyond the cap go.                                         *)
Kept(ids) == IF Len(ids) > MaxNotes THEN SubSeq(ids, Len(ids) - MaxNotes + 1, Len(ids)) ELSE ids
Retain(msgs, ids) ==
  Only(msgs, {m \in Messages : m.who = "note" => m.id \in ToSet(Kept(ids))})

PostedIds == posted \o [i \in DOMAIN Texts(pending) |-> Texts(pending)[i].id]

(* _expire_order, before a request is folded. *)
Expired == order /\ orderOld
FoldBase == IF Expired THEN NoOrder(context) ELSE context

(* _fold: before the tail, which is what is answered; OpenClaw's as its order, put  *)
(* where that was before the oldest notes and the order it replaces went.         *)
InTime == \E i \in DOMAIN pending : pending[i].host /\ pending[i].asks /\ ~pending[i].late
PutAt(msgs, at, new) == SubSeq(msgs, 1, at) \o new \o SubSeq(msgs, at + 1, Len(msgs))

\* Slip: appended, as at a quiet moment
FoldedSlip(base) == Retain(base \o Texts(pending), PostedIds)

Folded(base) ==
  LET new == Texts(pending)
      at == IF Last(base).who = "note" THEN Len(base) ELSE Len(base) - 1
      kept == Retain(PutAt(base, at, new), PostedIds)
      live == NoOrder(kept)
  IN  IF ~InTime THEN kept
      ELSE PutAt(live, IF at + Len(new) > Len(live) THEN Len(live) ELSE at + Len(new),
                 <<Message("order", 0)>>)

Fold ==
  LET base == FoldBase
      takes == pending # <<>> /\ base # <<>> /\ Last(base).who # "reply"
  IN  /\ context' = IF takes THEN Folded(base) ELSE base
      /\ pending' = IF takes THEN <<>> ELSE pending
      /\ posted' = IF takes THEN Kept(PostedIds) ELSE posted
      /\ order' = ((takes /\ InTime) \/ (order /\ ~Expired))
      /\ orderOld' = (orderOld /\ ~Expired /\ ~(takes /\ InTime))

(* _post: at a quiet moment, at the end; is there a reaction to run?               *)
Asked == \E i \in DOMAIN pending : pending[i].asks /\ ~pending[i].late
Post ==
  LET all == Retain(context \o Texts(pending), PostedIds)
  IN  /\ pending' = <<>> /\ posted' = Kept(PostedIds)
      /\ IF ~Asked
         THEN /\ context' = all
              /\ UNCHANGED <<order, orderOld>>
         ELSE /\ context' = Append(NoOrder(all), Message("order", 0))
              /\ order' = TRUE /\ orderOld' = FALSE

-----------------------------------------------------------------------------
(* The drainer.                                                                  *)

clear == turn \in {"none", "onway"} /\ ~react  \* FollowupGate.is_clear

(* Someone else's words at the tail: their request is still to pass here. *)
foreign_tail == IF context # <<>> /\ Last(context).who = "words" THEN Last(context).id ELSE 0

(* A window: a turn took the notes; or words are on their way; or they are posted. *)
DrainWindow ==
  /\ drainer /\ clear
  /\ \/ /\ pending = <<>> /\ drainer' = FALSE
        /\ UNCHANGED <<contextVars, pending, held_for, react>>
     \/ /\ pending # <<>> /\ foreign_tail # 0 /\ foreign_tail # held_for
        /\ held_for' = foreign_tail
        /\ UNCHANGED <<contextVars, pending, drainer, react>>
     \/ /\ pending # <<>> /\ foreign_tail \in {0, held_for}
        /\ turn = "none" \* the words' request passed within the debounce
        /\ Post
        /\ react' = Asked /\ drainer' = FALSE
        /\ UNCHANGED held_for
  /\ UNCHANGED <<recent, turn, sent, turns>>

(* No window in time for a reaction. *)
DrainLate ==
  /\ drainer /\ \E i \in DOMAIN pending : pending[i].asks /\ pending[i].late
  /\ pending' = [i \in DOMAIN pending |-> [pending[i] EXCEPT !.asks = @ /\ ~pending[i].late]]
  /\ UNCHANGED <<contextVars, held_for, drainer, recent, turn, react, sent, turns>>

-----------------------------------------------------------------------------
(* Turns and requests.                                                           *)

(* The caller's turn opens, over whatever runs; what was heard of a reply stays.   *)
TurnOpens ==
  /\ turn \in {"none", "asked", "reply"} /\ turns < MaxTurns
  /\ turns' = turns + 1 /\ turn' = "open" /\ react' = FALSE
  /\ context' = IF turn = "reply" THEN Append(context, Message("reply", turns)) ELSE context
  /\ UNCHANGED <<posted, order, orderOld, pending, held_for, drainer, recent, sent>>

(* It ends, with words or without. *)
TurnEnds ==
  /\ turn = "open"
  /\ \/ turn' = "onway" /\ context' = Append(context, Message("words", turns))
     \/ turn' = "none" /\ UNCHANGED context
  /\ UNCHANGED <<posted, order, orderOld, pending, held_for, drainer, recent, react, sent, turns>>

(* Its request passes here, or our own does. *)
RequestPasses ==
  /\ \/ turn = "onway" /\ UNCHANGED react
     \/ turn = "none" /\ react /\ react' = FALSE
  /\ turn' = "asked"
  /\ Fold
  /\ UNCHANGED <<held_for, drainer, recent, sent, turns>>

(* The first text of the answer: the trigger retires what it read. Or none comes.  *)
Reads ==
  /\ turn = "asked" /\ turn' = "reply"
  /\ context' = NoOrder(context) /\ order' = FALSE /\ orderOld' = FALSE
  /\ UNCHANGED <<posted, pending, held_for, drainer, recent, react, sent, turns>>

Fails ==
  /\ turn = "asked" /\ turn' = "none"
  /\ UNCHANGED <<contextVars, pending, held_for, drainer, recent, react, sent, turns>>

ReplyEnds ==
  /\ turn = "reply" /\ turn' = "none"
  /\ context' = Append(context, Message("reply", turns))
  /\ UNCHANGED <<posted, order, orderOld, pending, held_for, drainer, recent, react, sent, turns>>

Over ==
  /\ sent = MaxSent /\ turns = MaxTurns /\ turn = "none" /\ ~drainer /\ ~react
  /\ UNCHANGED vars

Next ==
  \/ Receive \/ IntervalOver \/ Deadline \/ DrainWindow \/ DrainLate
  \/ TurnOpens \/ TurnEnds \/ RequestPasses \/ Reads \/ Fails \/ ReplyEnds
  \/ Over

Spec == Init /\ [][Next]_vars

(* A turn ends, a request passes and is answered or fails, a window is reported.  *)
Fairness ==
  /\ WF_vars(TurnEnds) /\ WF_vars(RequestPasses) /\ WF_vars(Reads \/ Fails) /\ WF_vars(ReplyEnds)
  /\ WF_vars(DrainWindow)
FairSpec == Spec /\ Fairness

-----------------------------------------------------------------------------
(* Properties.                                                                   *)

(* A reaction's order is in the context while it is live, and no other is: none     *)
(* stays behind for a later turn to carry out again.                              *)
OneOrder ==
  Cardinality({i \in DOMAIN context : context[i].who = "order"}) = IF order THEN 1 ELSE 0

(* The request of a caller's turn never ends in a note: the model answers someone's *)
(* words, or an order.                                                            *)
NoNoteIsAnswered ==
  [][turn = "onway" /\ turn' = "asked" => Last(context').who # "note"]_vars

(* It ends in their words, an update of OpenClaw's before them.                     *)
WordsAreAnswered ==
  [][turn = "onway" /\ turn' = "asked" => Last(context').who = "words"]_vars

(* What is promised: a note taken in goes to the model's context, or is dropped: it  *)
(* does not wait on.                                                              *)
Promises == Ids
AreDue == {pending[i].id : i \in DOMAIN pending}
AreKept == Ids \ AreDue

=============================================================================
