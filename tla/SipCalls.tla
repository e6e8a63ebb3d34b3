------------------------------ MODULE SipCalls ------------------------------
(***************************************************************************)
(* The telephone front-end: one connection to the SIP gateway, and the     *)
(* calls that come over it (sip_server.py, run_connection and CallClaim).  *)
(*                                                                         *)
(* Everything runs on one asyncio event loop, so a step is what one task   *)
(* does from one await to the next.  The tasks are                         *)
(*   - the reader, which takes the gateway's messages in order and handles *)
(*     each inline: while it tears a pipeline down nothing else is read;   *)
(*   - per call, its bring-up (ask the arbiter, build, answer, greet);     *)
(*   - per call, the runner of its pipeline, which may end on its own;     *)
(*   - the teardowns a call starts from its own side, and busy lines.      *)
(* The gateway is the environment: it carries one call at a time, one on   *)
(* its way out aside, unless it is from before 0.6.0 (overlap).  The       *)
(* arbiter's answer is any it can give (SessionArbiter is how it comes to  *)
(* it).  Left out: the stop of the brain, which cancels every task where   *)
(* it waits, what is said on a call, and the face and lamp.                *)
(***************************************************************************)
EXTENDS Naturals, Sequences, FiniteSets

CONSTANTS
  Calls,         \* the call ids of one connection
  None,          \* no call
  Punctual,      \* `confirmed` comes within _CONFIRM_SECS of call.answer
  BuildMayFail   \* building the pipeline may raise

VARIABLES
  overlap,    \* whether the gateway passes on a second INVITE over a call
  autoAnswer, \* whether it may answer a ringing call by itself
  gw,         \* the gateway's side of each call
  inbox,      \* its messages not yet read, in order
  hung,       \* the calls call.hangup was sent for
  reader,     \* what the receive loop is doing
  ring,       \* rings: the current call, or None
  answered,   \* _Ring.answered, by call
  sent,       \* _Ring.answer_sent, by call
  declined,   \* _Ring.declined, by call
  setup,      \* setup["call_id"]: the bring-up in flight
  bring,      \* how far each call's bring-up is
  active,     \* active["call"]: the call whose pipeline is the running one
  pipe,       \* each call's pipeline
  down,       \* cancel_active_call, past its guards, for each call
  tear,       \* the tasks of end_call_from_inside, by call and who started it
  busy,       \* busy_lines: tasks playing the busy line to a call
  claims      \* CallClaim._claims: the calls with a claim on the arbiter

kind   == <<overlap, autoAnswer>>
line   == <<kind, gw, inbox>>
rings  == <<ring, answered, sent, declined>>
vars   == <<line, hung, reader, ring, answered, sent, declined, setup,
            bring, active, pipe, down, tear, busy, claims>>

Starters == {"pipeline", "bringup"}
Messages == [what: {"incoming", "confirmed", "disconnected"}, call: Calls]

\* What the reader goes on with once a teardown it waits for is over.
Reading      == [at |-> "reading"]
Closed       == [at |-> "closed"]
Jobs == [at: {"start"}, call: Calls, up: BOOLEAN]
          \cup [at: {"hangup"}, call: Calls] \cup [at: {"close"}]
Readers == {Reading, Closed} \cup [at: {"down"}, old: Calls, job: Jobs]

TypeOK ==
  /\ {overlap, autoAnswer} \subseteq BOOLEAN
  /\ gw \in [Calls -> {"none", "ringing", "up", "leaving", "gone"}]
  /\ inbox \in Seq(Messages)
  /\ reader \in Readers
  /\ {hung, answered, sent, declined, busy, claims} \subseteq SUBSET Calls
  /\ {ring, setup, active} \subseteq Calls \cup {None}
  /\ bring \in [Calls -> {"none", "waiting", "asking", "building", "headstart",
                          "confirming", "greeting", "confirmingBusy", "busyLine",
                          "ending", "over"}]
  /\ pipe \in [Calls -> {"none", "running", "dying", "over"}]
  /\ down \in [Calls -> {"no", "runner", "settle", "done"}]
  /\ tear \in [Calls \X Starters -> {"no", "created", "running"}]

(* A brain started afresh, or under a call that is up: the gateway replays *)
(* it, and what arrives is a `confirmed` with no ring before it.  What the *)
(* gateway is like stays so.                                               *)
Init ==
  /\ overlap \in BOOLEAN /\ autoAnswer \in BOOLEAN
  /\ \/ /\ gw = [c \in Calls |-> "none"]
        /\ inbox = <<>>
     \/ \E c \in Calls :
          /\ gw = [d \in Calls |-> IF d = c THEN "up" ELSE "none"]
          /\ inbox = <<[what |-> "confirmed", call |-> c]>>
  /\ reader = Reading
  /\ hung = {} /\ answered = {} /\ sent = {} /\ declined = {} /\ busy = {}
  /\ claims = {}
  /\ ring = None /\ setup = None /\ active = None
  /\ bring = [c \in Calls |-> "none"]
  /\ pipe = [c \in Calls |-> "none"]
  /\ down = [c \in Calls |-> "no"]
  /\ tear = [t \in Calls \X Starters |-> "no"]

-----------------------------------------------------------------------------
(* The gateway.  Each change of a call is a message, in the order they      *)
(* happen.                                                                  *)

Carried == {c \in Calls : gw[c] \in {"ringing", "up"}}

Says(what, c) == inbox' = Append(inbox, [what |-> what, call |-> c])

\* A gateway whose socket is closed has nobody to say it to.
Connected == reader.at # "closed" /\ ~(reader.at = "down" /\ reader.job.at = "close")

Invite(c) ==
  /\ Connected
  /\ gw[c] = "none"
  /\ Carried = {} \/ overlap
  /\ gw' = [gw EXCEPT ![c] = "ringing"]
  /\ Says("incoming", c)
  /\ UNCHANGED <<kind, hung, reader, rings, setup, bring, active, pipe, down, tear,
                 busy, claims>>

\* The call is answered: asked for by call.answer, or by the gateway itself.
PickUp(c) ==
  /\ Connected
  /\ gw[c] = "ringing"
  /\ c \in sent \/ autoAnswer
  /\ gw' = [gw EXCEPT ![c] = "up"]
  /\ Says("confirmed", c)
  /\ UNCHANGED <<kind, hung, reader, rings, setup, bring, active, pipe, down, tear,
                 busy, claims>>

\* call.hangup is taken: the call is on its way out.
Leaves(c) ==
  /\ Connected
  /\ c \in hung \cap Carried
  /\ gw' = [gw EXCEPT ![c] = "leaving"]
  /\ UNCHANGED <<kind, inbox, hung, reader, rings, setup, bring, active, pipe, down, tear,
                 busy, claims>>

\* The caller hangs up, or a call on its way out is gone.
CallEnds(c) ==
  /\ Connected
  /\ c \in Carried \/ gw[c] = "leaving"
  /\ gw' = [gw EXCEPT ![c] = "gone"]
  /\ Says("disconnected", c)
  /\ UNCHANGED <<kind, hung, reader, rings, setup, bring, active, pipe, down, tear,
                 busy, claims>>

-----------------------------------------------------------------------------
(* Helpers of the tasks.                                                    *)

HoldsTheSlot(c) == pipe[c] \in {"running", "dying"}

Teardowns(c) == {t \in {c} \X Starters : tear[t] # "no"}

(* cancel_setup: the bring-up of one of cs, if one is in flight, is         *)
(* cancelled and waited for.  Cancelled in its ask, it lets its claim go    *)
(* (CallClaim.start's except); a teardown it awaits goes on (the shield).   *)
Cancelled(cs) == {setup} \cap cs

CancelSetup(cs) ==
  /\ setup' = IF Cancelled(cs) = {} THEN setup ELSE None
  /\ bring' = [c \in Calls |-> IF c \in Cancelled(cs) THEN "over" ELSE bring[c]]

\* Slip: whatever bring-up is cancelled, its claim is let go with it.
AbandonedAnything(cs) == Cancelled(cs)

AbandonedAsks(cs) == {c \in Cancelled(cs) : bring[c] = "asking"}

\* Slip: no look at whether there is a pipeline, or whose it is.
CancelActiveUnasked(cs) ==
  /\ active' = None
  /\ down' = [down EXCEPT ![active] = "runner"]

(* cancel_active_call up to its first await: the pipeline, when it belongs  *)
(* to one of cs, is nobody's any more, and is being cancelled.              *)
CancelActive(cs) ==
  /\ active \in cs
  /\ active' = None
  /\ down' = [down EXCEPT ![active] = "runner"]

(* end_call_from_inside: the teardown as a task of its own.                 *)
EndFromInside(c, who) == tear' = [tear EXCEPT ![<<c, who>>] = "created"]

(* The last step of start_call: the call is the current one, and its        *)
(* bring-up is a task.                                                      *)
BeginCall(c, up) ==
  /\ ring' = c
  /\ answered' = IF up THEN answered \cup {c} ELSE answered \ {c}
  /\ sent' = sent \ {c}
  /\ declined' = declined \ {c}
  /\ setup' = c
  /\ bring' = [d \in Calls |-> IF d = c THEN "waiting"
                               ELSE IF d \in Cancelled(Calls) THEN "over"
                               ELSE bring[d]]

\* Slip: a teardown of the call's own that still runs is not looked at.
LetGoUnderTeardown(c) ==
  IF active \in {c, None} /\ setup \in {c, None} THEN {c} ELSE {}

\* Slip: the claim is left to a teardown there never was.
LetGoNothing(c) == {}

(* The rest of `disconnected`.  The claim of a call that never got its      *)
(* pipeline is let go here, one whose own teardown still runs is not.       *)
LetGoUnpiped(c) ==
  IF active \in {c, None} /\ setup \in {c, None} /\ Teardowns(c) = {}
  THEN {c} ELSE {}

\* Slip: the busy line is left to play to its end.
ForgetButBusy(c) ==
  /\ busy' = busy
  /\ ring' = IF ring = c THEN None ELSE ring
  /\ UNCHANGED <<answered, sent, declined>>

Forget(c) ==
  /\ busy' = busy \ {c}
  /\ ring' = IF ring = c THEN None ELSE ring
  /\ UNCHANGED <<answered, sent, declined>>

\* The last of run_connection: the line is gone, and every claim with it.
CloseLine ==
  /\ reader' = Closed
  /\ busy' = {}
  /\ claims' = {}

-----------------------------------------------------------------------------
(* The reader.                                                              *)

Hears(what, c) ==
  /\ reader = Reading
  /\ inbox # <<>>
  /\ Head(inbox) = [what |-> what, call |-> c]
  /\ inbox' = Tail(inbox)
  /\ UNCHANGED <<kind, gw, hung, pipe, tear>>

\* Slip: the call begins without waiting for the pipeline before it.
StartCallAtOnce(c, up) ==
  /\ claims' = claims \ AbandonedAsks(Calls)
  /\ BeginCall(c, up)
  /\ UNCHANGED <<reader, active, down, busy>>

(* start_call: whatever is in flight or running goes first, then the call   *)
(* begins; at once, when there is no pipeline to wait for.                  *)
StartCall(c, up) ==
  /\ claims' = claims \ AbandonedAsks(Calls)
  /\ UNCHANGED busy
  /\ \/ /\ active = None
        /\ BeginCall(c, up)
        /\ UNCHANGED <<reader, active, down>>
     \/ /\ CancelActive(Calls)
        /\ CancelSetup(Calls)
        /\ reader' = [at |-> "down", old |-> active,
                      job |-> [at |-> "start", call |-> c, up |-> up]]
        /\ UNCHANGED rings

\* A call that rings over another one, which is up, is left to ring.
RingsOver(c) == active \notin {None, c} /\ ring = active /\ active \in answered

Incoming(c) ==
  /\ Hears("incoming", c)
  /\ \/ /\ RingsOver(c)
        /\ UNCHANGED <<reader, rings, setup, bring, active, down, busy, claims>>
     \/ ~RingsOver(c) /\ StartCall(c, FALSE)

\* Slip: a call left ringing, and answered after all, is told nothing.
ConfirmedUntold(c) ==
  /\ Hears("confirmed", c)
  /\ \/ /\ ring = c
        /\ answered' = answered \cup {c}
        /\ UNCHANGED <<reader, ring, sent, declined, setup, bring, active, down,
                       busy, claims>>
     \/ ring # c /\ StartCall(c, TRUE)

Confirmed(c) ==
  /\ Hears("confirmed", c)
  /\ \/ /\ ring = c
        /\ answered' = answered \cup {c}
        /\ busy' = IF c \in declined \ answered THEN busy \cup {c} ELSE busy
        /\ UNCHANGED <<reader, ring, sent, declined, setup, bring, active, down,
                       claims>>
     \/ ring # c /\ StartCall(c, TRUE)

\* Slip: `disconnected` ends whatever runs, whichever call it is about.
DisconnectedAny(c) ==
  /\ Hears("disconnected", c)
  /\ CancelSetup({c})
  /\ \/ /\ CancelActive(Calls)
        /\ reader' = [at |-> "down", old |-> active, job |-> [at |-> "hangup", call |-> c]]
        /\ claims' = claims \ AbandonedAsks({c})
        /\ UNCHANGED <<rings, busy>>
     \/ /\ active = None
        /\ Forget(c)
        /\ claims' = claims \ (AbandonedAsks({c}) \cup LetGoUnpiped(c))
        /\ UNCHANGED <<reader, active, down>>

Disconnected(c) ==
  /\ Hears("disconnected", c)
  /\ CancelSetup({c})
  /\ \/ /\ CancelActive({c})
        /\ reader' = [at |-> "down", old |-> c, job |-> [at |-> "hangup", call |-> c]]
        /\ claims' = claims \ AbandonedAsks({c})
        /\ UNCHANGED <<rings, busy>>
     \/ /\ active # c
        /\ Forget(c)
        /\ claims' = claims \ (AbandonedAsks({c}) \cup LetGoUnpiped(c))
        /\ UNCHANGED <<reader, active, down>>

\* EOF, once everything sent before it has been read.
Eof ==
  /\ reader = Reading
  /\ inbox = <<>>
  /\ CancelSetup(Calls)
  /\ \/ /\ CancelActive(Calls)
        /\ reader' = [at |-> "down", old |-> active, job |-> [at |-> "close"]]
        /\ claims' = claims \ AbandonedAsks(Calls)
        /\ UNCHANGED busy
     \/ /\ active = None
        /\ CloseLine
        /\ UNCHANGED <<active, down>>
  /\ UNCHANGED <<line, hung, rings, pipe, tear>>

-----------------------------------------------------------------------------
(* A teardown, by the reader or by a task.                                  *)

\* The runner has finished: by itself, or on being cancelled after 5 s.
RunnerEnds(c) ==
  /\ down[c] = "runner"
  /\ pipe' = [pipe EXCEPT ![c] = "over"]
  /\ down' = [down EXCEPT ![c] = "settle"]
  /\ UNCHANGED <<line, hung, reader, rings, setup, bring, active, tear, busy, claims>>

WaitedByReader(c) == reader.at = "down" /\ reader.old = c

(* The settle is over, the claim is let go, and whoever tore the pipeline   *)
(* down goes on.                                                            *)
Settled(c) ==
  /\ down[c] = "settle"
  /\ down' = [down EXCEPT ![c] = "done"]
  /\ ~WaitedByReader(c)
  /\ claims' = claims \ {c}
  /\ tear' = [t \in Calls \X Starters |->
                IF t[1] = c /\ tear[t] = "running" THEN "no" ELSE tear[t]]
  /\ UNCHANGED <<line, hung, reader, rings, setup, bring, active, pipe, busy>>

ReaderSettled(c) ==
  /\ down[c] = "settle"
  /\ down' = [down EXCEPT ![c] = "done"]
  /\ WaitedByReader(c)
  /\ LET job == reader.job
     IN \/ /\ job.at = "start"
           /\ BeginCall(job.call, job.up)
           /\ reader' = Reading
           /\ claims' = claims \ {c}
           /\ UNCHANGED busy
        \/ /\ job.at = "hangup"
           /\ Forget(c)
           /\ reader' = Reading
           /\ claims' = claims \ {c}
           /\ UNCHANGED <<setup, bring>>
        \/ /\ job.at = "close"
           /\ CloseLine
           /\ UNCHANGED <<rings, setup, bring>>
  /\ UNCHANGED <<line, hung, active, pipe, tear>>

\* The task of end_call_from_inside: nothing to do, or the call's pipeline.
TeardownBegins(t) ==
  /\ tear[t] = "created"
  /\ \/ /\ CancelActive({t[1]})
        /\ tear' = [tear EXCEPT ![t] = "running"]
     \/ /\ active # t[1]
        /\ tear' = [tear EXCEPT ![t] = "no"]
        /\ UNCHANGED <<active, down>>
  /\ UNCHANGED <<line, hung, reader, rings, setup, bring, pipe, busy, claims>>

-----------------------------------------------------------------------------
(* The bring-up of a call.                                                  *)

Goes(c, from, to) ==
  /\ bring[c] = from
  /\ bring' = [bring EXCEPT ![c] = to]
  /\ setup' = IF to = "over" /\ setup = c THEN None ELSE setup
  /\ UNCHANGED <<line, reader, ring, answered, down>>

\* Slip: the earlier calls' teardowns are not waited for.
AskAtOnce(c) ==
  /\ Goes(c, "waiting", "asking")
  /\ claims' = claims \cup {c}
  /\ UNCHANGED <<hung, sent, declined, active, pipe, tear, busy>>

(* The teardowns of earlier calls are waited out, then the arbiter is       *)
(* asked, with the claim held from before the ask.                          *)
Ask(c) ==
  /\ Goes(c, "waiting", "asking")
  /\ \A d \in Calls : Teardowns(d) = {}
  /\ claims' = claims \cup {c}
  /\ UNCHANGED <<hung, sent, declined, active, pipe, tear, busy>>

(* The call has the engine.  Another call's claim it found there, of the    *)
(* same client, the arbiter has ended (REPLACED, CallClaim._release).       *)
Granted(c) ==
  /\ Goes(c, "asking", "building")
  /\ claims' = {c}
  /\ UNCHANGED <<hung, sent, declined, active, pipe, tear, busy>>

\* Refused with "don't pick up": left ringing, if it still can be.
LeftRinging(c) ==
  /\ Goes(c, "asking", "over")
  /\ c \notin answered
  /\ claims' = claims \ {c}
  /\ declined' = declined \cup {c}
  /\ UNCHANGED <<hung, sent, active, pipe, tear, busy>>

\* Refused: the call is answered, if it is not yet, to hear the busy line.
Refused(c) ==
  /\ Goes(c, "asking", "confirmingBusy")
  /\ claims' = claims \ {c}
  /\ sent' = IF c \in answered THEN sent ELSE sent \cup {c}
  /\ UNCHANGED <<hung, declined, active, pipe, tear, busy>>

ConfirmedBusy(c) ==
  /\ Goes(c, "confirmingBusy", "busyLine")
  /\ c \in answered
  /\ UNCHANGED <<hung, sent, declined, active, pipe, tear, busy, claims>>

\* No `confirmed` in time: nothing is said, and nothing hung up.
NeverConfirmedBusy(c) ==
  /\ Goes(c, "confirmingBusy", "over")
  /\ c \notin answered
  /\ ~Punctual
  /\ UNCHANGED <<hung, sent, declined, active, pipe, tear, busy, claims>>

BusyLineEnds(c) ==
  /\ Goes(c, "busyLine", "over")
  /\ hung' = hung \cup {c}
  /\ UNCHANGED <<sent, declined, active, pipe, tear, busy, claims>>

\* The pipeline is built, running, and the one `disconnected` will find.
Built(c) ==
  /\ Goes(c, "building", IF c \in answered THEN "greeting" ELSE "headstart")
  /\ active' = c
  /\ pipe' = [pipe EXCEPT ![c] = "running"]
  /\ UNCHANGED <<hung, sent, declined, tear, busy, claims>>

BuildFails(c) ==
  /\ BuildMayFail
  /\ Goes(c, "building", "over")
  /\ UNCHANGED <<hung, sent, declined, active, pipe, tear, busy, claims>>

\* It has rung long enough (or was answered meanwhile): answer.
Answer(c) ==
  /\ Goes(c, "headstart", "confirming")
  /\ sent' = IF c \in answered THEN sent ELSE sent \cup {c}
  /\ UNCHANGED <<hung, declined, active, pipe, tear, busy, claims>>

IsConfirmed(c) ==
  /\ Goes(c, "confirming", "greeting")
  /\ c \in answered
  /\ UNCHANGED <<hung, sent, declined, active, pipe, tear, busy, claims>>

\* The call is hung up, and its teardown started and awaited.
EndsItsCall(c) ==
  /\ hung' = hung \cup {c}
  /\ EndFromInside(c, "bringup")
  /\ UNCHANGED <<sent, declined, active, pipe, busy, claims>>

NeverConfirmed(c) ==
  /\ Goes(c, "confirming", "ending")
  /\ c \notin answered
  /\ ~Punctual
  /\ EndsItsCall(c)

Greeted(c) ==
  /\ Goes(c, "greeting", "over")
  /\ UNCHANGED <<hung, sent, declined, active, pipe, tear, busy, claims>>

\* No model to answer with, or no STT: one line said, then the call ends.
CannotTalk(c) ==
  /\ Goes(c, "greeting", "ending")
  /\ EndsItsCall(c)

HasEnded(c) ==
  /\ Goes(c, "ending", "over")
  /\ tear[<<c, "bringup">>] = "no"
  /\ UNCHANGED <<hung, sent, declined, active, pipe, tear, busy, claims>>

-----------------------------------------------------------------------------
(* The pipeline ends under its call (on_pipeline_finished): the caller is   *)
(* hung up and the teardown is a task; the runner waits for this handler.   *)
PipelineDies(c) ==
  /\ pipe[c] = "running"
  /\ active = c
  /\ pipe' = [pipe EXCEPT ![c] = "dying"]
  /\ hung' = hung \cup {c}
  /\ EndFromInside(c, "pipeline")
  /\ UNCHANGED <<line, reader, rings, setup, bring, active, down, busy, claims>>

\* The busy line a declined call got on being answered has been said.
BusyTaskEnds(c) ==
  /\ c \in busy
  /\ busy' = busy \ {c}
  /\ hung' = hung \cup {c}
  /\ UNCHANGED <<line, reader, rings, setup, bring, active, pipe, down, tear, claims>>

-----------------------------------------------------------------------------
Gateway(c) == Invite(c) \/ PickUp(c) \/ Leaves(c) \/ CallEnds(c)

Reader(c) == Incoming(c) \/ Confirmed(c) \/ Disconnected(c) \/ ReaderSettled(c)

BringUp(c) ==
  \/ Ask(c) \/ Granted(c) \/ LeftRinging(c) \/ Refused(c) \/ ConfirmedBusy(c)
  \/ NeverConfirmedBusy(c) \/ BusyLineEnds(c) \/ Built(c) \/ BuildFails(c)
  \/ Answer(c) \/ IsConfirmed(c) \/ NeverConfirmed(c) \/ Greeted(c)
  \/ CannotTalk(c) \/ HasEnded(c)

Teardown(c) ==
  \/ RunnerEnds(c) \/ Settled(c)
  \/ \E who \in Starters : TeardownBegins(<<c, who>>)

\* The connection is closed and every task has run out.
AllOver ==
  /\ reader = Closed
  /\ \A c \in Calls : Teardowns(c) = {}
  /\ UNCHANGED vars

Next ==
  \/ \E c \in Calls : \/ Gateway(c) \/ Reader(c) \/ BringUp(c) \/ Teardown(c)
                      \/ PipelineDies(c) \/ BusyTaskEnds(c)
  \/ Eof
  \/ AllOver

Spec == Init /\ [][Next]_vars

(* The event loop runs every task that can go on, the arbiter answers (its  *)
(* waits all have limits), and the gateway carries out what it is told.     *)
(* Callers need neither call nor hang up.                                   *)
FairSpec ==
  /\ Spec
  /\ \A c \in Calls : /\ WF_vars(Reader(c)) /\ WF_vars(BringUp(c))
                      /\ WF_vars(Teardown(c)) /\ WF_vars(BusyTaskEnds(c))
                      /\ WF_vars(c \in sent /\ PickUp(c))
                      /\ WF_vars(Leaves(c))
                      /\ WF_vars(gw[c] = "leaving" /\ CallEnds(c))

-----------------------------------------------------------------------------
(* Properties.                                                              *)

(* A call asks the arbiter only when no other call of the line has a claim  *)
(* there: "a call's claim is let go before the next call asks"              *)
(* (CallClaim._release), so the arbiter never ends one call for another.    *)
AskAlone == \A c \in Calls : bring[c] = "asking" => claims = {c}

(* While a call's pipeline can hold the engine's one STT slot, the call has *)
(* its claim, so nobody else is given the engine: the claim is let go after *)
(* the runner, in cancel_active_call's finally, and by nothing before it.   *)
SlotIsClaimed ==
  reader # Closed => \A c \in Calls : HoldsTheSlot(c) => c \in claims

(* The same, and also when the connection goes: "it lets the claim go when  *)
(* the runner is done and the engine's STT slot is free" (on_call_state, of *)
(* a call whose own teardown runs), which run_connection's finally does not *)
(* keep to: it lets every claim go.                                         *)
SlotIsClaimedToTheEnd == \A c \in Calls : HoldsTheSlot(c) => c \in claims

(* Two calls' pipelines never hold the slot together, whatever the gateway  *)
(* sends and whenever it arrives (start_call evicts before it builds).      *)
OnePipeline ==
  \A c, d \in Calls : HoldsTheSlot(c) /\ HoldsTheSlot(d) => c = d

(* A running pipeline is taken down only if its call is over or being ended,*)
(* for the call that replaces it, or with the connection: a `disconnected`  *)
(* of another call, however late, leaves it alone.                          *)
NoWrongTeardownStep ==
  active # None /\ active' = None =>
    \/ gw[active] = "gone" \/ active \in hung
    \/ reader'.at = "down" /\ reader'.job.at \in {"start", "close"}
NoWrongTeardown == [][NoWrongTeardownStep]_vars

(* Once a call is gone, and the reader has heard so, nothing keeps its      *)
(* claim but its own teardown still running.                                *)
NoClaimLeftBehind ==
  reader = Reading =>
    \A c \in claims :
      gw[c] = "gone" /\ Teardowns(c) = {} =>
        [what |-> "disconnected", call |-> c] \in {inbox[i] : i \in DOMAIN inbox}

(* The busy line of a refused call is never sent on the one connection over *)
(* another call's: not over a pipeline, nor while another is brought up.    *)
BusyLineAlone ==
  \A c \in Calls :
    /\ c \in busy => active = None /\ setup = None
    /\ bring[c] = "busyLine" => active = None /\ busy = {}

(* The four of them. An old gateway can break all but the slot's: its calls *)
(* overlap, but never two pipelines, nor is one without its claim.          *)
LineInv ==
  /\ SlotIsClaimed /\ OnePipeline
  /\ ~overlap => AskAlone /\ NoClaimLeftBehind /\ BusyLineAlone

\* The call is being spoken to: its pipeline is up and it has been greeted.
Served(c) == active = c /\ pipe[c] = "running" /\ bring[c] = "over"

(* What is promised.  "line": a connected caller is never left on a dead    *)
(* line: talked to, hung up, or gone (the connection closing aside: the     *)
(* gateway replays the call then).  "claim": the claim of a call that is    *)
(* over is let go, whatever the call was in the middle of.                  *)
Promises == {"line", "claim"} \X Calls
AreDue == {p \in Promises : gw[p[2]] = IF p[1] = "line" THEN "up" ELSE "gone"}
AreKept == {p \in Promises :
           LET c == p[2]
           IN  IF p[1] = "claim" THEN c \notin claims
               ELSE gw[c] = "gone" \/ c \in hung \/ Served(c) \/ ~Connected}

=============================================================================
