------------------------------ MODULE ReplyHold ------------------------------
(* A reply is not started over a caller who talks again: reply_hold.py's gate below the *)
(* TTS, the fence that commits a turn only behind the interruptions ahead of it          *)
(* (endpointing.py CutReplyFence); and the fold of a continued turn into the one whose    *)
(* reply never played (heard_context.py).                                            *)
(*                                                                                 *)
(* The caller's words are utterances, numbered; a reply is numbered by its request, and *)
(* is speech, silence or a tool call. Playout times and heard prefixes are left out.     *)
EXTENDS Integers, Sequences, FiniteSets, SequencesExt, Queues

CONSTANTS
  MaxSaid,  \* utterances (bound)
  MaxRare   \* tool calls, and waits of the fence that run out, together (bound)

VARIABLES
  said, line,     \* utterances begun; what the line shows: "quiet", "onset", "vad"
  worded,         \* utterances whose words came
  open, agg,      \* the user turn, its words not committed
  commit,         \* _push_aggregation: "no", "waits", "drops"
  cuts,           \* interruptions in flight: how far, awaited by the fence, by which words
  ctx, lastUser, merge,  \* the context; the corrector's _last_user (index); TurnMerge
  asked, writing, replies, answers,  \* the LLM: what asks it, the reply it writes
  call,           \* tool calls
  q, armed, tool_call, holding, drops, droppedCalls, ending, discard_to_end,  \* the gate
  capped,         \* the cap let this reply go (history)
  out,            \* behind the gate: the transport, then the assistant aggregator
  overtaken,      \* drop_overtaken_tool_calls
  played, settled,  \* replies that reached the caller; that had an end (history)
  timeouts, over

callerVars == <<said, line, worded>>
turnVars == <<open, agg, commit>>
ctxVars == <<ctx, lastUser, merge>>
llmVars == <<asked, writing, replies, answers>>
gateVars == <<q, armed, tool_call, holding, drops, droppedCalls, ending, discard_to_end, capped>>
outVars == <<out, overtaken, played, settled>>
vars == <<callerVars, turnVars, cuts, ctxVars, llmVars, call, gateVars, outVars, timeouts, over>>

Words == 1..MaxSaid
Replies == 1..(MaxSaid + MaxRare)
User(m) == m.is = "user"
Rare == timeouts + Cardinality({n \in Replies : call[n] # "no"})
Said(c) == UNION {IF User(m) THEN m.says ELSE {} : m \in Range(c)}

TypeOK ==
  /\ said \in 0..MaxSaid /\ line \in {"quiet", "onset", "vad"} /\ worded \subseteq Words /\ agg \subseteq Words
  /\ {open, merge, armed, tool_call, holding, ending, discard_to_end, capped, over} \subseteq BOOLEAN
  /\ commit \in {"no", "waits", "drops"} /\ Range(cuts) \subseteq [at : {"llm", "gate", "out"}, known : BOOLEAN, by : 0..MaxSaid]
  /\ lastUser \in 0..Len(ctx) /\ asked \subseteq {"commit", "turn", "result"} /\ {writing, replies} \subseteq {0} \cup Replies
  /\ answers \in [Replies -> SUBSET Words]
  /\ call \in [Replies -> {"no", "running", "reported", "cancelled"}]
  /\ UNION {droppedCalls, overtaken, played, settled} \subseteq Replies /\ timeouts \in 0..MaxRare

Init ==
  /\ said = 0 /\ line = "quiet" /\ worded = {} /\ open = FALSE /\ agg = {} /\ commit = "no" /\ cuts = <<>>
  /\ ctx = <<>> /\ lastUser = 0 /\ merge = FALSE /\ asked = {} /\ writing = 0 /\ replies = 0
  /\ answers = [n \in Replies |-> {}] /\ call = [n \in Replies |-> "no"]
  /\ q = <<>> /\ armed = FALSE /\ tool_call = FALSE /\ holding = FALSE /\ drops = 0 /\ droppedCalls = {}
  /\ ending = FALSE /\ discard_to_end = FALSE /\ capped = FALSE
  /\ out = <<>> /\ overtaken = {} /\ played = {} /\ settled = {} /\ timeouts = 0 /\ over = FALSE

-----------------------------------------------------------------------------
(* The caller.                                                                    *)

(* _speech: speech begun while a reply is armed holds it. *)
Hears ==
  /\ holding' = (holding \/ (armed /\ ~ending))
  /\ UNCHANGED <<q, armed, tool_call, drops, droppedCalls, ending, discard_to_end, capped>>

Onset ==
  /\ ~over /\ line = "quiet" /\ said < MaxSaid /\ said' = said + 1 /\ line' = "onset" /\ Hears
  /\ UNCHANGED <<worded, turnVars, cuts, ctxVars, llmVars, call, outVars, timeouts, over>>

VadStarts ==
  /\ line = "onset" /\ line' = "vad" /\ Hears
  /\ UNCHANGED <<said, worded, turnVars, cuts, ctxVars, llmVars, call, outVars, timeouts, over>>

Stops ==
  /\ line # "quiet" /\ line' = "quiet"
  /\ UNCHANGED <<said, worded, turnVars, cuts, ctxVars, llmVars, call, gateVars, outVars, timeouts, over>>

Cut(by) == Append(cuts, [at |-> "llm", known |-> TRUE, by |-> by])

(* Words open a turn, with an interruption, or join the one still open. A cough has none. *)
WordsCome ==
  /\ ~ending /\ said \notin worded /\ said > 0 /\ line # "onset"
  /\ worded' = worded \cup {said} /\ agg' = agg \cup {said} /\ open' = TRUE
  /\ cuts' = IF open THEN cuts ELSE Cut(said)
  /\ UNCHANGED <<said, line, commit, ctxVars, llmVars, call, gateVars, outVars, timeouts, over>>

-----------------------------------------------------------------------------
(* The commit.                                                                    *)

\* Slip: a commit waits for nothing
LandedSlip == TRUE

(* wait_for_cuts: every interruption sent ahead has been handled below. *)
Landed == \A i \in DOMAIN cuts : ~cuts[i].known

(* The words are a message of the context, the model is asked, and the gate is armed. A   *)
(* turn is not closed while the caller speaks.                                         *)
Pushes ==
  /\ ctx' = Append(ctx, [is |-> "user", says |-> agg]) /\ agg' = {} /\ commit' = "no"
  /\ asked' = (IF ending THEN {} ELSE {"commit"}) /\ open' = (line = "vad")
  /\ armed' = TRUE /\ tool_call' = FALSE /\ capped' = FALSE
  /\ holding' = (holding \/ (line # "quiet" /\ ~ending))
  /\ UNCHANGED <<lastUser, merge, writing, replies, answers, q, drops, droppedCalls, ending, discard_to_end>>

Commits ==
  /\ open /\ agg # {} /\ commit = "no" /\ commit' = "waits"
  /\ UNCHANGED <<callerVars, open, agg, cuts, ctxVars, llmVars, call, gateVars, outVars, timeouts, over>>

\* Slip: a commit never continues a turn
ContinuesSlip == FALSE

(* Words that continue a turn whose reply has not played. *)
Continues == armed /\ ~ending

(* hold_commits: the unplayed reply is dropped first, by an interruption of its own. *)
Proceeds ==
  /\ \/ /\ commit = "waits" /\ Landed
        /\ IF Continues
           THEN commit' = "drops" /\ cuts' = Cut(0) /\ UNCHANGED <<open, agg, ctxVars, llmVars, gateVars>>
           ELSE Pushes /\ UNCHANGED cuts
     \/ commit = "drops" /\ Landed /\ Pushes /\ UNCHANGED cuts
  /\ UNCHANGED <<callerVars, call, outVars, timeouts, over>>

(* The wait runs out: the interruptions are forgotten, and travel on. *)
WaitRunsOut ==
  /\ commit # "no" /\ ~Landed /\ Rare < MaxRare /\ timeouts' = timeouts + 1
  /\ cuts' = [i \in DOMAIN cuts |-> [cuts[i] EXCEPT !.known = FALSE]] /\ Pushes
  /\ UNCHANGED <<callerVars, call, outVars, over>>

(* The turn whose close was refused closes once the caller is quiet. *)
Closes ==
  /\ open /\ agg = {} /\ line = "quiet" /\ open' = FALSE
  /\ UNCHANGED <<callerVars, agg, commit, cuts, ctxVars, llmVars, call, gateVars, outVars, timeouts, over>>

-----------------------------------------------------------------------------
(* The corrector and the LLM.                                                      *)

(* A round of a call an interruption cancelled. *)
Cancelled(m) == m.is = "call" /\ m.st = "cancelled"

(* _merge_tail: the last message folds into the one before, with nothing between them but *)
(* cancelled rounds.                                                                *)
Folds == /\ merge /\ lastUser # 0 /\ lastUser < Len(ctx) /\ User(ctx[Len(ctx)])
         /\ \A i \in (lastUser + 1)..(Len(ctx) - 1) : Cancelled(ctx[i])

\* Slip: the words folded are lost
FoldedSlip == SubSeq(ctx, 1, lastUser)

Folded == [SubSeq(ctx, 1, lastUser) EXCEPT ![lastUser].says = @ \cup ctx[Len(ctx)].says]

(* A commit on its way to the model passes the corrector. *)
Reconciles ==
  /\ "commit" \in asked /\ asked' = (asked \ {"commit"}) \cup {"turn"}
  /\ \A i \in DOMAIN cuts : cuts[i].at = "llm" => cuts[i].known
  /\ ctx' = (IF Folds THEN Folded ELSE ctx) /\ merge' = FALSE
  /\ lastUser' = IF User(ctx'[Len(ctx')]) THEN Len(ctx') ELSE 0
  /\ UNCHANGED <<callerVars, turnVars, cuts, writing, replies, answers, call, gateVars, outVars, timeouts, over>>

(* The model is asked on the context as it is. *)
Asks(who) ==
  /\ who \in asked /\ writing = 0 /\ asked' = asked \ {who}
  /\ replies' = replies + 1 /\ writing' = replies' /\ answers' = [answers EXCEPT ![replies'] = Said(ctx)]
  /\ UNCHANGED <<callerVars, turnVars, cuts, ctxVars, call, gateVars, outVars, timeouts, over>>

AsksOnTurn == Asks("turn")

(* A tool's result asks again: not in a turn, whose commit reads it (FollowupGate). *)
AsksOnResult == ~open /\ Asks("result")

(* queue_frame: a call's frames are stamped with the drops so far. A commit passes the   *)
(* corrector while the model still writes.                                            *)
Frame(k, n) == [is |-> k, n |-> n, drops |-> drops]
Writes ==
  /\ writing # 0 /\ writing' = 0 /\ "commit" \notin asked /\ \A i \in DOMAIN cuts : cuts[i].at # "gate"
  /\ \/ \E k \in {"audio", "over"} : q' = Append(q, Frame(k, writing)) /\ UNCHANGED call
     \/ /\ Rare < MaxRare /\ call' = [call EXCEPT ![writing] = "running"]
        /\ q' = q \o <<Frame("call", writing), Frame("over", writing)>>
  /\ UNCHANGED <<callerVars, turnVars, cuts, ctxVars, asked, replies, answers, armed, tool_call, holding, drops,
                 droppedCalls, ending, discard_to_end, capped, outVars, timeouts, over>>

ToolEnds(n) ==
  /\ call[n] = "running" /\ ~over /\ call' = [call EXCEPT ![n] = "reported"] /\ q' = Append(q, Frame("result", n))
  /\ UNCHANGED <<callerVars, turnVars, cuts, ctxVars, llmVars, armed, tool_call, holding, drops, droppedCalls, ending,
                 discard_to_end, capped, outVars, timeouts, over>>

-----------------------------------------------------------------------------
(* An interruption goes down.                                                      *)

(* The first cut at a stage: they go in order, each a stage at a time. *)
At(i, stage) == i \in DOMAIN cuts /\ cuts[i].at = stage /\ (i > 1 => cuts[i - 1].at # stage)
InCtx(n) == \E i \in DOMAIN ctx : ctx[i].is = "call" /\ ctx[i].n = n
Marked(c, n, st) == [i \in DOMAIN c |-> IF c[i].is = "call" /\ c[i].n = n THEN [c[i] EXCEPT !.st = st] ELSE c[i]]

(* At the LLM: what it writes, and what it was asked, are gone; it may cancel a call it   *)
(* runs, whose cancel then overtakes what is queued below.                              *)
CutAtLlm(i) ==
  /\ At(i, "llm") /\ cuts' = [cuts EXCEPT ![i].at = "gate"] /\ writing' = 0
  /\ asked' = IF cuts[i].known THEN {} ELSE asked
  /\ \E n \in Replies \cup {0} :
       IF n = 0 THEN UNCHANGED <<call, ctx, overtaken>>
       ELSE /\ call[n] = "running" /\ call' = [call EXCEPT ![n] = "cancelled"]
            /\ IF InCtx(n) THEN ctx' = Marked(ctx, n, "cancelled") /\ UNCHANGED overtaken
               ELSE overtaken' = overtaken \cup {n} /\ UNCHANGED ctx
  /\ UNCHANGED <<callerVars, turnVars, lastUser, merge, replies, answers, gateVars, out, played, settled, timeouts, over>>

Kept(s) == Only(s, {f \in Range(s) : f.is \in {"call", "result", "end"}})
Sounds(s) == Only(s, {f \in Range(s) : f.is = "audio"})

(* _on_interruption: a held reply is dropped, and one that had not played has its turn go  *)
(* on with the words that come.                                                     *)
CutAtGate(i) ==
  /\ At(i, "gate") /\ cuts' = [cuts EXCEPT ![i].at = "out"]
  /\ armed' = FALSE /\ merge' = (merge \/ armed) /\ holding' = FALSE
  /\ drops' = (IF holding THEN drops + 1 ELSE drops) /\ q' = Kept(q)
  /\ UNCHANGED <<callerVars, turnVars, ctx, lastUser, llmVars, call, tool_call, droppedCalls, ending, discard_to_end,
                 capped, outVars, timeouts, over>>

(* At the transport and the assistant aggregator: the reply it cut is committed. *)
CutAtOut(i) ==
  /\ At(i, "out") /\ i = 1 /\ cuts' = Tail(cuts) /\ out' = Kept(out)
  /\ ctx' = ctx \o Sounds(out)
  /\ settled' = settled \cup {f.n : f \in {g \in Range(out) : g.is = "audio"}}
  /\ UNCHANGED <<callerVars, turnVars, lastUser, merge, llmVars, call, gateVars, overtaken, played, timeouts, over>>

-----------------------------------------------------------------------------
(* The gate lets a frame by, while it holds nothing.                                 *)

HeldPastADrop(f) == f.drops < drops

\* Slip: a result held past a drop goes with the reply, its call let by before
DropsFrameSlip(f) == f.is \in {"call", "result"} /\ HeldPastADrop(f)

DropsFrame(f) ==
  \/ f.is = "call" /\ HeldPastADrop(f)
  \/ f.is = "result" /\ f.n \in droppedCalls
  \/ discard_to_end /\ f.is \in {"audio", "over"}

AsksAgain(f) == f.is = "result" /\ ~HeldPastADrop(f)

Passes ==
  /\ ~holding /\ q # <<>> /\ q' = Tail(q)
  /\ LET f == Head(q)
     IN /\ droppedCalls' = IF f.is = "call" /\ DropsFrame(f) THEN droppedCalls \cup {f.n} ELSE droppedCalls
        /\ discard_to_end' = (discard_to_end /\ f.is # "end")
        /\ IF DropsFrame(f) THEN UNCHANGED <<armed, tool_call, out, played, settled>>
           ELSE /\ armed' = (armed /\ ~(f.is = "audio" \/ (f.is = "over" /\ ~tool_call)))
                /\ tool_call' = ((tool_call \/ (f.is = "call" /\ armed)) /\ f.is # "over")
                /\ out' = IF f.is = "over" THEN out ELSE Append(out, [is |-> f.is, n |-> f.n, asks |-> AsksAgain(f)])
                /\ played' = IF f.is = "audio" THEN played \cup {f.n} ELSE played
                /\ settled' = IF f.is = "over" /\ call[f.n] = "no" THEN settled \cup {f.n} ELSE settled
  /\ UNCHANGED <<callerVars, turnVars, cuts, ctxVars, llmVars, call, holding, drops, ending, capped, overtaken,
                 timeouts, over>>

(* The transport plays what it has, and the assistant aggregator commits it. *)
OutGoesOn ==
  /\ out # <<>> /\ out' = Tail(out)
  /\ LET f == Head(out)
     IN /\ overtaken' = overtaken \ (IF f.is = "call" THEN {f.n} ELSE {})
        /\ settled' = IF f.is = "audio" THEN settled \cup {f.n} ELSE settled
        /\ over' = (over \/ f.is = "end")
        /\ ctx' = CASE f.is = "call" -> IF f.n \in overtaken THEN ctx
                                        ELSE Append(ctx, [is |-> "call", n |-> f.n, st |-> "open"])
                    [] f.is = "result" -> Marked(ctx, f.n, "done")
                    [] f.is = "audio" -> Append(ctx, f)
                    [] f.is = "end" -> ctx
        /\ asked' = IF f.asks /\ InCtx(f.n) THEN asked \cup {"result"} ELSE asked
  /\ UNCHANGED <<callerVars, turnVars, cuts, lastUser, merge, writing, replies, answers, call, gateVars, played, timeouts>>

(* The line was quiet for RELEASE_SECS, or the hold's cap is over: the reply plays. *)
Released ==
  /\ holding /\ line = "quiet" /\ holding' = FALSE
  /\ UNCHANGED <<callerVars, turnVars, cuts, ctxVars, llmVars, call, q, armed, tool_call, drops, droppedCalls, ending,
                 discard_to_end, capped, outVars, timeouts, over>>

CapReached ==
  /\ holding /\ line # "quiet" /\ holding' = FALSE /\ capped' = TRUE
  /\ UNCHANGED <<callerVars, turnVars, cuts, ctxVars, llmVars, call, q, armed, tool_call, drops, droppedCalls, ending,
                 discard_to_end, outVars, timeouts, over>>

\* Slip: the End waits the hold out
EndHoldsSlip == holding

(* What an End leaves of a hold. *)
EndHolds == FALSE

(* queue_frame: the End reaches the gate; a held reply is dropped, the End goes through. *)
Ends ==
  /\ ~ending /\ ending' = TRUE /\ writing = 0 /\ asked = {}
  /\ discard_to_end' = (discard_to_end \/ holding) /\ drops' = (IF holding THEN drops + 1 ELSE drops)
  /\ holding' = EndHolds /\ q' = Append(q, Frame("end", 0))
  /\ UNCHANGED <<callerVars, turnVars, cuts, ctxVars, llmVars, call, armed, tool_call, droppedCalls, capped, outVars,
                 timeouts, over>>

-----------------------------------------------------------------------------
Over == over /\ UNCHANGED vars
Cuts == \E i \in DOMAIN cuts : CutAtLlm(i) \/ CutAtGate(i) \/ CutAtOut(i)

Next ==
  \/ Onset \/ VadStarts \/ Stops \/ WordsCome
  \/ Commits \/ Proceeds \/ WaitRunsOut \/ Closes
  \/ Reconciles \/ AsksOnTurn \/ AsksOnResult \/ Writes \/ \E n \in Replies : ToolEnds(n)
  \/ Cuts \/ Passes \/ OutGoesOn \/ Released \/ CapReached \/ Ends \/ Over

Spec == Init /\ [][Next]_vars

(* The caller falls quiet, turns are committed, the model and the tools answer, frames and  *)
(* interruptions go on. Neither the cap nor the session's end is relied on.               *)
Fairness ==
  /\ WF_vars(Stops) /\ WF_vars(Commits) /\ WF_vars(Proceeds) /\ WF_vars(Closes)
  /\ WF_vars(Reconciles) /\ WF_vars(AsksOnTurn) /\ WF_vars(AsksOnResult) /\ WF_vars(Writes) /\ WF_vars(\E n \in Replies : ToolEnds(n))
  /\ WF_vars(Cuts) /\ WF_vars(Passes) /\ WF_vars(OutGoesOn) /\ WF_vars(Released)
FairSpec == Spec /\ Fairness

-----------------------------------------------------------------------------
(* The session's End is never held: nothing is played into a closing session, nor waited out. *)
EndIsNotHeld == ending => ~holding

(* A reply that starts to play answers everything the caller's turns have said: not the     *)
(* fragment they have gone on from.                                                    *)
NoStaleReply == [][\A n \in played' \ played : timeouts = 0 /\ ~ending => Said(ctx) \subseteq answers[n]]_vars

(* A turn is folded into the one before only when nothing of that one's reply played.       *)
NoFalseMerge ==
  [][Reconciles /\ Len(ctx') < Len(ctx) /\ timeouts = 0 =>
       \A n \in played : ~(ctx[lastUser].says \subseteq answers[n])]_vars

(* The reply a turn cuts is in the context before that turn's words.                     *)
CutBeforeTurn ==
  [][\A i \in DOMAIN cuts : CutAtOut(i) /\ timeouts = 0 => cuts[i].by \notin Said(ctx)]_vars

(* A call in the context is settled: by its cancel, or by a result that is on its way.      *)
NoOrphanCall ==
  \A i \in DOMAIN ctx : ctx[i].is = "call" /\ ctx[i].st = "open" =>
     call[ctx[i].n] = "running" \/ \E f \in Range(q) \cup Range(out) : f.is = "result" /\ f.n = ctx[i].n

(* What is promised: what the caller says is answered: a reply asked with those words plays, *)
(* or has nothing to say.                                                             *)
Promises == Words
AreDue == agg
AreKept == {u \in Words : ending \/ \E n \in settled : u \in answers[n]}

=============================================================================
