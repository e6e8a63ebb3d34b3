----------------------------- MODULE RoomBridge -----------------------------
(* The room's microphone and its conversation: the bridge process that holds *)
(* the sound card and dials the brain (local_audio.py), the brain's end of   *)
(* each dial (run_relay_bot), and the wake gate with the conversation it     *)
(* keeps between sessions (wake_gate.py). Messages of a session that is up   *)
(* are taken as read when sent; a close is not. Who gets the slot is         *)
(* SessionArbiter's: here another client or a call has it, or nobody.        *)

EXTENDS Naturals, FiniteSets

CONSTANTS MaxDials,  \* sessions dialled
          MaxFaults, \* the card, the bridge or the brain dying, in all
          MaxOthers  \* times somebody else takes the box

VARIABLES
  wake_mode,   \* LOCAL_AUDIO_WAKE_WORDS is set
  at,          \* where run_bridge is
  backoff,     \* another client has the box: to be waited out
  restart,     \* WakeState.restart: the next dial is awake, once
  connect_now, \* no voice is waited for before the next dial
  card,        \* the sound card works
  link,        \* the socket: "up", or how the brain closed it
  cl,          \* the bridge's side of the session
  dials,       \* sessions dialled
  brain,       \* the brain's side of each
  up,          \* the brain runs
  store,       \* MIC: the conversation kept (0: none)
  other,       \* who else has the box
  others, faults,
  theirs,      \* a Talk client has had the box ever since we lost it
  left,        \* conversations the user asked to leave for a fresh one
  gone         \* those whose fresh one has begun

bridgeVars == <<wake_mode, at, backoff, restart, connect_now, card>>
sessionVars == <<link, cl>>
brainVars == <<dials, brain, up, store>>
worldVars == <<other, others, faults>>
pastVars == <<theirs, left, gone>>
vars == <<bridgeVars, sessionVars, brainVars, worldVars, pastVars>>

Dials == 1..MaxDials
Ends == {"taken", "busy", "yield", "stt", "ended", "lost"}
Closed == [gated |-> FALSE, awake |-> FALSE, armed |-> "no", bye |-> FALSE, busy |-> FALSE]
NoSession == [at |-> "none", awake |-> FALSE, asleep |-> FALSE, woke |-> FALSE, conv |-> 0, hung |-> FALSE]

TypeOK ==
  /\ wake_mode \in BOOLEAN /\ backoff \in BOOLEAN /\ restart \in BOOLEAN /\ connect_now \in BOOLEAN
  /\ at \in {"start", "opening", "nocard", "loop", "session", "idle", "call"}
  /\ card \in BOOLEAN /\ up \in BOOLEAN /\ link \in {"none", "up"} \cup Ends
  /\ cl \in [gated : BOOLEAN, awake : BOOLEAN, armed : {"no", "restart", "sleep"}, bye : BOOLEAN, busy : BOOLEAN]
  /\ dials \in 0..MaxDials /\ store \in 0..MaxDials
  /\ brain \in [Dials -> [at : {"none", "asks", "built", "runs", "ends", "over"}, awake : BOOLEAN,
                          asleep : BOOLEAN, woke : BOOLEAN, conv : 0..MaxDials, hung : BOOLEAN]]
  /\ other \in {"none", "talk", "call"} /\ others \in 0..MaxOthers /\ faults \in 0..MaxFaults
  /\ theirs \in BOOLEAN /\ left \subseteq Dials /\ gone \subseteq left

Init ==
  /\ wake_mode \in BOOLEAN /\ at = "start" /\ connect_now = TRUE
  /\ backoff = FALSE /\ restart = FALSE /\ card = TRUE
  /\ link = "none" /\ cl = Closed
  /\ dials = 0 /\ brain = [n \in Dials |-> NoSession] /\ up = TRUE /\ store = 0
  /\ other = "none" /\ others = 0 /\ faults = 0
  /\ theirs = FALSE /\ left = {} /\ gone = {}

-----------------------------------------------------------------------------
(* The bridge between sessions. *)

\* taken_at_start: a Talk session still live after the settling time is not evicted.
Starts ==
  /\ at = "start"
  /\ at' = "opening"
  /\ IF other = "talk" THEN backoff' = TRUE /\ connect_now' = FALSE
     ELSE UNCHANGED <<backoff, connect_now>>
  /\ theirs' = (other = "talk")
  /\ UNCHANGED <<wake_mode, restart, card, sessionVars, brainVars, worldVars, left, gone>>

\* Card.open: playback, then a capture that delivers; or wait_for_card, and again.
Opens ==
  /\ at \in {"opening", "nocard"}
  /\ at' = IF card THEN "loop" ELSE "nocard"
  /\ UNCHANGED <<wake_mode, backoff, restart, connect_now, card, sessionVars, brainVars, worldVars, pastVars>>

\* Backoff.wait: no Talk session seen in BACKOFF_SECS of asking.
BackoffOver ==
  /\ at = "loop" /\ backoff /\ other # "talk"
  /\ backoff' = FALSE
  /\ UNCHANGED <<wake_mode, at, restart, connect_now, card, sessionVars, brainVars, worldVars, pastVars>>

\* run_session's dial, awake once after a restart. Without wake words, unless connect_now,
\* it waits for a voice in the room first.
Dials_(awake) ==
  /\ up /\ dials < MaxDials
  /\ dials' = dials + 1
  /\ brain' = [brain EXCEPT ![dials + 1] =
                 [at |-> "asks", awake |-> awake, asleep |-> wake_mode /\ ~awake,
                  woke |-> awake, conv |-> dials + 1, hung |-> FALSE]]
  /\ link' = "up"
  /\ cl' = [Closed EXCEPT !.gated = ~wake_mode, !.awake = awake]
  /\ at' = "session" /\ UNCHANGED <<up, store>>

DialFails ==
  /\ ~up /\ at' = IF wake_mode \/ connect_now THEN "idle" ELSE "loop"
  /\ UNCHANGED <<sessionVars, brainVars>>

\* One-shot, whatever the dial does.
StillAsked == FALSE

MayDial == at = "loop" /\ ~backoff

Dial ==
  /\ MayDial
  /\ Dials_(restart) \/ DialFails
  /\ restart' = StillAsked
  /\ UNCHANGED <<wake_mode, backoff, connect_now, card, worldVars, pastVars>>

\* idle_for, and wait_out_call.
Waited ==
  /\ at = "idle" \/ (at = "call" /\ other # "call")
  /\ at' = "loop"
  /\ UNCHANGED <<wake_mode, backoff, restart, connect_now, card, sessionVars, brainVars, worldVars, pastVars>>

-----------------------------------------------------------------------------
(* A session ends. *)

HungUp == [brain EXCEPT ![dials].hung = TRUE]

\* The close codes go before all; then what the bridge itself decided.
Reasons ==
  IF link \in {"taken", "busy", "yield", "stt"} THEN {link}
  ELSE (IF wake_mode /\ ~cl.gated THEN {"ungated"} ELSE {})
       \cup (IF cl.awake /\ wake_mode /\ ~cl.busy THEN {"keepalive"} ELSE {})
       \cup (IF cl.armed # "no" /\ ~cl.busy THEN {cl.armed} ELSE {})
       \cup (IF link # "up" THEN {"ended"} ELSE {})

\* Slip: the next dial after being taken is at once, as after a session
LosesBoxSlip(why) == FALSE
LosesBox(why) == why \in {"taken", "busy"}

\* run_wake_sessions and run_bridge, after a session.
After(why) ==
  /\ backoff' = (backoff \/ LosesBox(why))
  /\ restart' = (why = "restart" /\ wake_mode)
  /\ connect_now' = (why = "restart" /\ ~wake_mode)
  /\ at' \in CASE why = "yield" -> {"call"}
               [] why \in {"restart", "sleep", "keepalive"} \/ LosesBox(why) -> {"loop"}
               [] why \in {"ungated", "stt"} /\ wake_mode -> {"idle"}
               [] OTHER -> IF wake_mode THEN {"idle", "loop"} ELSE {"loop"}

Ended ==
  /\ at = "session"
  /\ \E why \in Reasons :
       /\ After(why)
       /\ theirs' = (why \in {"taken", "busy"} /\ other = "talk")
       /\ left' = IF why = "restart" THEN left \cup {brain[dials].conv} ELSE left
  /\ link' = "none" /\ cl' = Closed
  /\ brain' = HungUp
  /\ UNCHANGED <<wake_mode, card, dials, up, store, worldVars, gone>>

-----------------------------------------------------------------------------
(* What is said in a session: client_tool, KeepAlive, Restart.             *)

Talking == at = "session" /\ link = "up" /\ brain[dials].at = "runs" /\ ~brain[dials].asleep

\* The model ends it: by restart_session, by end_conversation, or goodbye.py for it, `said`.
Arms ==
  /\ Talking /\ cl.armed = "no"
  /\ \E kind \in {"restart"} \cup (IF wake_mode THEN {"sleep"} ELSE {}), said \in BOOLEAN :
       /\ said => kind = "sleep"
       /\ cl' = [cl EXCEPT !.armed = kind, !.bye = said, !.busy = ~said]
  /\ UNCHANGED <<bridgeVars, link, brainVars, worldVars, pastVars>>

\* conversation_busy, or a goodbye still to come (waited for) or to be heard out.
Busies ==
  /\ Talking
  /\ cl' = [cl EXCEPT !.busy = ~@, !.bye = @ \/ (cl.armed # "no" /\ cl.busy)]
  /\ UNCHANGED <<bridgeVars, link, brainVars, worldVars, pastVars>>

-----------------------------------------------------------------------------
(* The brain's end of a dial: run_relay_bot. *)

Say(n, what) == IF n = dials /\ at = "session" /\ link = "up" THEN link' = what ELSE UNCHANGED link

\* would_refuse, the host's context, and the fresh conversation, all before the ask.
Builds(n) ==
  /\ brain[n].at = "asks" /\ other = "none"
  /\ brain' = [brain EXCEPT ![n].at = "built"]
  /\ store' = IF brain[n].awake THEN 0 ELSE store
  /\ cl' = IF n = dials /\ at = "session" THEN [cl EXCEPT !.gated = TRUE] ELSE cl
  /\ UNCHANGED <<bridgeVars, link, dials, up, worldVars, pastVars>>

Refuses(n) ==
  /\ brain[n].at \in {"asks", "built"} /\ other # "none"
  /\ brain' = [brain EXCEPT ![n].at = "over"]
  /\ Say(n, "busy")
  /\ UNCHANGED <<bridgeVars, cl, dials, up, store, worldVars, pastVars>>

\* The slot: an earlier session of ours is ended for this one, and has left.
Granted(n) ==
  /\ brain[n].at = "built" /\ other = "none"
  /\ IF \E m \in Dials \ {n} : brain[m].at \in {"runs", "ends"}
     THEN /\ brain' = [m \in Dials |-> IF m # n /\ brain[m].at = "runs" THEN [brain[m] EXCEPT !.at = "ends"]
                                       ELSE brain[m]]
          /\ UNCHANGED gone
     ELSE /\ brain' = [brain EXCEPT ![n].at = "runs"]
          /\ gone' = IF brain[n].awake THEN left ELSE gone
  /\ brain' # brain
  /\ UNCHANGED <<bridgeVars, sessionVars, dials, up, store, worldVars, theirs, left>>

\* WakeGate.wake: a phrase, or the box itself; what is kept goes on, within its window.
Wakes(n) ==
  /\ brain[n].at = "runs" /\ brain[n].asleep /\ ~brain[n].hung
  /\ \E keeps \in BOOLEAN :
       /\ keeps => store # 0
       /\ brain' = [brain EXCEPT ![n].asleep = FALSE, ![n].woke = TRUE,
                                 ![n].conv = IF keeps THEN store ELSE n]
       /\ store' = IF keeps THEN store ELSE 0
  /\ cl' = IF n = dials /\ at = "session" THEN [cl EXCEPT !.awake = TRUE] ELSE cl
  /\ UNCHANGED <<bridgeVars, link, dials, up, worldVars, pastVars>>

\* A line lost, an engine that does not come up (greet), a session that ends by itself.
Fails(n) ==
  /\ brain[n].at = "runs" /\ ~brain[n].hung /\ faults < MaxFaults
  /\ faults' = faults + 1
  /\ brain' = [brain EXCEPT ![n].at = "ends"]
  /\ \E how \in {"stt", "ended"} : Say(n, how)
  /\ UNCHANGED <<bridgeVars, cl, dials, up, store, other, others, pastVars>>

\* Slip: only what a phrase woke is kept
KeepsSlip(n) == wake_mode /\ brain[n].woke /\ ~brain[n].awake

\* WakeGate.ended: what the session said is the conversation to be continued.
Keeps(n) == wake_mode /\ brain[n].woke

\* The runner is done: the claim is let go and the conversation kept, in one go.
Over_(n) ==
  /\ brain[n].at = "ends" \/ (brain[n].at = "runs" /\ brain[n].hung)
  /\ brain' = [brain EXCEPT ![n].at = "over"]
  /\ store' = IF Keeps(n) THEN brain[n].conv ELSE store
  /\ Say(n, "ended")
  /\ UNCHANGED <<bridgeVars, cl, dials, up, worldVars, pastVars>>

-----------------------------------------------------------------------------
(* Everyone else. *)

\* A Talk client or a call gets the box: an asleep session of ours yields, one awake a call only.
OtherComes(who) ==
  /\ up /\ other = "none" /\ others < MaxOthers
  /\ \A n \in Dials : brain[n].at = "runs" => brain[n].asleep \/ who = "call"
  /\ \A n \in Dials : brain[n].at # "ends"
  /\ other' = who /\ others' = others + 1
  /\ brain' = [n \in Dials |-> IF brain[n].at = "runs" THEN [brain[n] EXCEPT !.at = "ends"] ELSE brain[n]]
  /\ IF dials > 0 /\ brain[dials].at = "runs"
     THEN Say(dials, IF who = "talk" THEN "taken" ELSE "yield")
     ELSE UNCHANGED link
  /\ UNCHANGED <<bridgeVars, cl, dials, up, store, faults, pastVars>>

OtherLeaves ==
  /\ other # "none"
  /\ other' = "none" /\ theirs' = FALSE
  /\ UNCHANGED <<bridgeVars, sessionVars, brainVars, others, faults, left, gone>>

\* A CardError, wherever the card is held: the session goes with it, the back-off does not.
CardFails ==
  /\ at \notin {"start", "opening", "nocard"} /\ card /\ faults < MaxFaults
  /\ faults' = faults + 1 /\ card' = FALSE
  /\ at' = "nocard" /\ link' = "none" /\ cl' = Closed
  /\ brain' = IF at = "session" THEN HungUp ELSE brain
  /\ UNCHANGED <<wake_mode, backoff, restart, connect_now, dials, up, store, other, others, pastVars>>

CardReturns ==
  /\ ~card /\ card' = TRUE
  /\ UNCHANGED <<wake_mode, at, backoff, restart, connect_now, sessionVars, brainVars, worldVars, pastVars>>

BridgeDies ==
  /\ faults < MaxFaults /\ faults' = faults + 1
  /\ at' = "start" /\ connect_now' = TRUE /\ backoff' = FALSE /\ restart' = FALSE
  /\ link' = "none" /\ cl' = Closed
  /\ brain' = IF at = "session" THEN HungUp ELSE brain
  /\ UNCHANGED <<wake_mode, card, dials, up, store, other, others, pastVars>>

\* Everything of a brain that dies is in memory.
BrainDies ==
  /\ up /\ faults < MaxFaults /\ faults' = faults + 1
  /\ up' = FALSE /\ store' = 0
  /\ brain' = [n \in Dials |-> IF brain[n].at = "none" THEN brain[n] ELSE [brain[n] EXCEPT !.at = "over"]]
  /\ link' = IF link = "up" THEN "lost" ELSE link
  /\ other' = "none" /\ theirs' = FALSE
  /\ UNCHANGED <<bridgeVars, cl, dials, others, left, gone>>

BrainReturns ==
  /\ ~up /\ up' = TRUE
  /\ UNCHANGED <<bridgeVars, sessionVars, dials, brain, store, worldVars, pastVars>>

\* The bounds are used up.
Spent == dials = MaxDials /\ at = "loop" /\ UNCHANGED vars

Next ==
  \/ Starts \/ Opens \/ BackoffOver \/ Dial \/ Waited \/ Ended \/ Arms \/ Busies
  \/ \E n \in Dials : Builds(n) \/ Refuses(n) \/ Granted(n) \/ Wakes(n) \/ Fails(n) \/ Over_(n)
  \/ OtherComes("talk") \/ OtherComes("call") \/ OtherLeaves
  \/ CardFails \/ CardReturns \/ BridgeDies \/ BrainDies \/ BrainReturns \/ Spent

Spec == Init /\ [][Next]_vars

\* What a bridge out of session comes back to, unless its world stands in the way: a session
\* the brain has given the box to, or the wait for a voice.
Promises == {"back"}
AreDue == IF at = "session" THEN {} ELSE {"back"}
AreKept ==
  IF \/ at = "session" /\ brain[dials].at = "runs"
     \/ at = "loop" /\ ~wake_mode /\ ~connect_now
     \/ ~card \/ ~up \/ other # "none" \/ dials = MaxDials
  THEN {"back"} ELSE {}

-----------------------------------------------------------------------------
(* A conversation left for a fresh one does not come back once that has begun, whatever  *)
(* session saved last.                                                                  *)
FreshIsFresh ==
  \A n \in Dials : brain[n].at = "runs" /\ ~brain[n].asleep => brain[n].conv \notin gone

(* A Talk client who took the box is not dialled over while they have it, through card     *)
(* failures and restarts of the bridge.                                                   *)
TakenIsTheirs == [][dials' > dials => ~theirs]_vars

=============================================================================
