----------------------------- MODULE WifiVoice -----------------------------
(***************************************************************************)
(* Spoken Wi-Fi setup (wifi_voice.py) and a new box's first boot           *)
(* (first_boot.py): a session asks whether to go into setup mode, starts   *)
(* the unit, follows the status file it writes, and says how it ended.     *)
(* The unit is what SetupUnit says of one: runs of it come and go here by  *)
(* the helper's restart (two seconds later) and stop (which does not wait  *)
(* for the unit to put things back), and it outlives the session.          *)
(***************************************************************************)
EXTENDS Naturals

CONSTANTS MaxRuns,   \* bound: setups begun in a boot
          MaxFails,  \* bound: joins that fail in a run
          Orphans    \* a setup may begin while a unit nobody follows still runs

Nobody == [run |-> 0, phase |-> "none", fails |-> 0]

VARIABLES
  slow,     \* the helper may outlast its wait, or a "cancel" come while it works
  live,     \* a session is open
  state,    \* its setup: "idle", "confirm", or "running"
  unclear,  \* answers to the question that were neither yes nor no
  byModel,  \* the model began this one, or asked about it
  first,    \* this is the first-boot one
  starting, \* _start's helper call: "no", "said" (not called yet), "called", or "ran"
  cancelling, \* _cancel's: "no", "called", or "ran"
  polling,  \* _following runs
  last,     \* the status last announced
  before,   \* what the file said before this run
  look,     \* first_boot.due: "no", or "reading"
  new,      \* the box has never been online
  tried,    \* this boot's try is spent
  timer,    \* the helper has scheduled a start of the unit
  unit,     \* the unit: "off", "up", or "stopping"
  run,      \* its latest run
  file,     \* the status file: of which run, its phase, and the fails it tells of
  starts,   \* setups begun
  ends,     \* setups whose end was said
  mine,     \* this session started the unit last, and was not refused its stop since
  owed      \* the model waits to hear how a setup ends

asking == <<unclear, byModel>>
boot   == <<look, new, tried>>
box    == <<timer, unit, run, file>>
calls  == <<starting, cancelling>>
told   == <<mine, starts, ends, owed>>
follow == <<polling, last, before>>
vars   == <<slow, live, state, asking, first, calls, follow, boot, box, told>>

(* The unit's latest run, by what it has written. *)
Phase == IF file.run = run THEN file.phase ELSE "none"
Fails == IF file.run = run THEN file.fails ELSE 0

Unit == INSTANCE SetupUnit WITH phase <- Phase, up <- unit # "off"

Files == [run : 0..(2 * MaxRuns), fails : 0..MaxFails,
          phase : Unit!Ends \cup {"none", "scanning", "ap_up", "joining", "failed"}]

TypeOK ==
  /\ state \in {"idle", "confirm", "running"}
  /\ unclear \in 0..1
  /\ {slow, live, byModel, first, polling, new, tried, timer, mine, owed} \subseteq BOOLEAN
  /\ starting \in {"no", "said", "called", "ran"}
  /\ cancelling \in {"no", "called", "ran"}
  /\ {last, before, file} \subseteq Files
  /\ look \in {"no", "reading"}
  /\ unit \in {"off", "up", "stopping"}
  /\ run \in 0..(2 * MaxRuns)
  /\ starts \in 0..MaxRuns /\ ends \in 0..(2 * MaxRuns)

Init ==
  /\ slow \in BOOLEAN
  /\ live = TRUE /\ state = "idle" /\ unclear = 0 /\ byModel = FALSE /\ first = FALSE
  /\ starting = "no" /\ cancelling = "no" /\ polling = FALSE
  /\ last = Nobody /\ before = Nobody
  /\ look = "no" /\ new \in BOOLEAN /\ tried = FALSE
  /\ timer = FALSE /\ unit = "off" /\ run = 0 /\ file = Nobody
  /\ mine = FALSE /\ starts = 0 /\ ends = 0 /\ owed = FALSE

------------------------------------------------------------------------------
(* Asking. *)

\* Slip: the model's asking while a setup runs is not kept.
BeginSlip(model) ==
  /\ live
  /\ owed' = (owed \/ model)
  /\ IF state = "running" THEN UNCHANGED <<state, unclear, byModel>>
     ELSE state' = "confirm" /\ unclear' = 0 /\ byModel' = model
  /\ UNCHANGED <<slow, live, first, calls, follow, boot, box, starts, ends, mine>>

(* begin: the phrase, or the wifi_setup tool, which is told it will hear.  *)
Begin(model) ==
  /\ live
  /\ owed' = (owed \/ model)
  /\ IF state = "running"
     THEN byModel' = (byModel \/ model) /\ UNCHANGED <<state, unclear>>
     ELSE state' = "confirm" /\ unclear' = 0 /\ byModel' = model
  /\ UNCHANGED <<slow, live, first, calls, follow, boot, box, starts, ends, mine>>

Phrase == state = "idle" /\ Begin(FALSE)
Tool == Begin(TRUE)

(* _ended: the model hears of it where it began the setup, or it is online. *)
Ended(online) == owed' = (owed /\ ~(byModel \/ online))

Answered ==
  /\ Ended(FALSE)
  /\ state' = "idle"
  /\ UNCHANGED <<slow, live, asking, first, calls, follow, boot, box, starts, ends, mine>>

Lapses == live /\ state = "confirm" /\ Answered

SaysNo == live /\ state = "confirm" /\ Answered

SaysWhat ==
  /\ live /\ state = "confirm"
  /\ \/ unclear = 1 /\ Answered
     \/ /\ unclear = 0 /\ unclear' = 1
        /\ UNCHANGED <<slow, live, state, byModel, first, calls, follow, boot, box, told>>

------------------------------------------------------------------------------
(* Starting and stopping the unit. *)

Quiet == unit = "off" /\ ~timer

\* Slip: a setup the owner began leaves the boot its try.
StartSlip(unasked) ==
  /\ starts < MaxRuns /\ starting = "no"
  /\ Orphans \/ Quiet
  /\ slow \/ cancelling = "no"
  /\ state' = "running" /\ last' = Nobody /\ before' = file
  /\ first' = unasked
  /\ tried' = (tried \/ unasked)
  /\ starting' = "said" /\ starts' = starts + 1

(* _start: what the file says before it, the boot's try, and the words.    *)
Start(unasked) ==
  /\ starts < MaxRuns
  /\ starting = "no"
  /\ Orphans \/ Quiet
  /\ slow \/ cancelling = "no"
  /\ state' = "running"
  /\ last' = Nobody
  /\ before' = file
  /\ first' = unasked
  /\ tried' = (tried \/ new)
  /\ starting' = "said"
  /\ starts' = starts + 1

SaysYes ==
  /\ live /\ state = "confirm"
  /\ Start(FALSE)
  /\ UNCHANGED <<slow, live, asking, cancelling, polling, look, new, box,
                 ends, owed, mine>>

CallHelper ==
  /\ starting = "said"
  /\ starting' = "called"
  /\ UNCHANGED <<slow, live, state, asking, first, cancelling, follow, boot, box, told>>

HelperRestarts ==
  /\ starting = "called"
  /\ starting' = "ran"
  /\ timer' = TRUE
  /\ mine' = live
  /\ UNCHANGED <<slow, live, state, asking, first, cancelling, follow, boot, unit, run, file,
                 starts, ends, owed>>

Started ==
  /\ starting = "ran"
  /\ starting' = "no"
  /\ polling' = live
  /\ UNCHANGED <<slow, live, state, asking, first, cancelling, last, before,
                 boot, box, told>>

(* An end: the state, the notice, and the last line. *)
End(online) ==
  /\ state' = "idle"
  /\ Ended(online)
  /\ ends' = ends + 1
  /\ first' = FALSE

(* The helper fails -- or has not answered in time, and may start it yet.  *)
NotStarted ==
  /\ starting = "called"
  /\ starting' = "no"
  /\ End(FALSE)
  /\ timer' \in (IF slow THEN BOOLEAN ELSE {timer})
  /\ UNCHANGED <<slow, live, asking, cancelling, follow, boot, unit, run,
                 file, starts, mine>>

\* Slip: a start still scheduled is left to come.
StopUnitSlip == UNCHANGED timer /\ unit' = (IF unit = "up" THEN "stopping" ELSE unit)

(* The stop takes a start still scheduled with it; the unit puts back.     *)
StopUnit == timer' = FALSE /\ unit' = (IF unit = "up" THEN "stopping" ELSE unit)

Cancel ==
  /\ live /\ state = "running" /\ cancelling = "no"
  /\ slow \/ starting = "no"
  /\ cancelling' = "called"
  /\ UNCHANGED <<slow, live, state, asking, first, starting, follow, boot, box, told>>

HelperStops ==
  /\ cancelling = "called"
  /\ cancelling' = "ran"
  /\ StopUnit
  /\ UNCHANGED <<slow, live, state, asking, first, starting, follow, boot,
                 run, file, told>>

\* Slip: not looked at again after the helper: it may have ended, and said so.
CancelledSlip ==
  /\ cancelling = "ran"
  /\ cancelling' = "no"
  /\ End(FALSE) /\ polling' = FALSE
  /\ UNCHANGED <<slow, live, asking, starting, last, before, boot, box, starts, mine>>

Cancelled ==
  /\ cancelling = "ran"
  /\ cancelling' = "no"
  /\ IF state = "running" THEN End(FALSE) /\ polling' = FALSE
     ELSE UNCHANGED <<state, first, owed, ends, polling>>
  /\ UNCHANGED <<slow, live, asking, starting, last, before, boot, box, starts, mine>>

(* The stop could not be asked for: it is followed on. *)
NotCancelled ==
  /\ cancelling = "called"
  /\ cancelling' = "no"
  /\ UNCHANGED <<slow, live, state, asking, first, starting, follow, boot, box, told>>

------------------------------------------------------------------------------
(* Following it. *)

\* Slip: the file of the run before is read as this one's.
ReadSlip == file # Nobody

Read == file # before
News == file # last
Polls == live /\ polling

(* A poll that reads something new announces it; an end ends the setup.    *)
Announce ==
  /\ Polls /\ state = "running"
  /\ Read /\ News
  /\ last' = file
  /\ IF file.phase \in Unit!Ends
     THEN /\ End(file.phase = "connected")
          /\ polling' = FALSE
          /\ new' = (new /\ file.phase # "connected")
     ELSE UNCHANGED <<state, first, owed, ends, polling, new>>
  /\ UNCHANGED <<slow, live, asking, calls, before, look, tried, box, starts, mine>>

(* _stop_unit: a stop that fails is only logged, and the unit runs on.     *)
StopIsTried ==
  \/ StopUnit /\ UNCHANGED mine
  \/ mine' = FALSE /\ UNCHANGED <<timer, unit>>

(* It did not start, or runs on past its own hard stop: the following ends,*)
(* whether or not the unit could be stopped.                               *)
GivesUp ==
  /\ Polls /\ state = "running"
  /\ StopIsTried
  /\ End(FALSE)
  /\ polling' = FALSE
  /\ UNCHANGED <<slow, live, asking, calls, last, before, boot, run, file, starts>>

(* The unit is gone, and its last words are announced or there are none.   *)
Gone ==
  /\ Polls /\ state = "running"
  /\ Read /\ ~News /\ unit = "off"
  /\ End(FALSE)
  /\ polling' = FALSE
  /\ UNCHANGED <<slow, live, asking, calls, last, before, boot, box, starts, mine>>

(* The box came online another way: the first-boot setup is left.          *)
LeaveOnline ==
  /\ Polls /\ state = "running"
  /\ first /\ ~new /\ last.phase \in {"none", "ap_up", "failed"}
  /\ StopIsTried
  /\ End(TRUE)
  /\ polling' = FALSE
  /\ UNCHANGED <<slow, live, asking, calls, last, before, boot, run, file, starts>>

(* The poller finds the setup over by another hand. *)
PollOver ==
  /\ Polls /\ state # "running"
  /\ polling' = FALSE
  /\ UNCHANGED <<slow, live, state, asking, first, calls, last, before, boot, box, told>>

------------------------------------------------------------------------------
(* The first boot. *)

Looks ==
  /\ live /\ look = "no" /\ new /\ ~tried
  /\ look' = "reading"
  /\ UNCHANGED <<slow, live, state, asking, first, calls, follow, new, tried, box, told>>

(* Two readings say offline, and no setup began meanwhile: the boot's try  *)
(* is spent, and setup begins unasked, unless the session is asking.       *)
FirstBoot ==
  /\ live /\ look = "reading"
  /\ look' = "no"
  /\ \/ /\ new /\ ~tried /\ state = "idle"
        /\ Start(TRUE)
        /\ byModel' = FALSE
     \/ /\ ~(new /\ ~tried /\ state = "idle")
        /\ tried' = (tried \/ new)
        /\ UNCHANGED <<state, byModel, first, starting, last, before, starts>>
  /\ UNCHANGED <<slow, live, unclear, cancelling, polling, new, box, ends, owed, mine>>

(* The watcher, or a look, finds the box online. *)
ReachedOnline ==
  /\ new
  /\ new' = FALSE
  /\ look' = IF look = "reading" THEN "no" ELSE look
  /\ UNCHANGED <<slow, live, state, asking, first, calls, follow, tried, box, told>>

------------------------------------------------------------------------------
(* The unit, and what else happens to the box. *)

(* The timer's systemctl restart: a run still up is stopped first. *)
UnitStarts ==
  /\ timer
  /\ IF unit = "off"
     THEN unit' = "up" /\ run' = run + 1 /\ timer' = FALSE
     ELSE unit = "up" /\ unit' = "stopping" /\ UNCHANGED <<run, timer>>
  /\ UNCHANGED <<slow, live, state, asking, first, calls, follow, boot, file, told>>

UnitWrites ==
  /\ unit # "off"
  /\ \E p \in Unit!After[Phase] :
       /\ (p = "stopped") = (unit = "stopping")
       /\ p = "failed" => Fails < MaxFails
       /\ file' = [run |-> run, phase |-> p, fails |-> Fails + (IF p = "failed" THEN 1 ELSE 0)]
  /\ UNCHANGED <<slow, live, state, asking, first, calls, follow, boot, timer,
                 unit, run, told>>

(* It is done -- or dies, with its last words unsaid. *)
UnitEnds ==
  /\ unit # "off"
  /\ unit' = "off"
  /\ UNCHANGED <<slow, live, state, asking, first, calls, follow, boot, timer,
                 run, file, told>>

(* The Settings page starts or stops it (when it is not busy). *)
FromOutside ==
  /\ \/ unit = "up" /\ StopUnit
     \/ Orphans /\ unit = "off" /\ ~timer /\ run < MaxRuns /\ timer' = TRUE /\ UNCHANGED unit
  /\ mine' = (mine /\ ~timer')
  /\ UNCHANGED <<slow, live, state, asking, first, calls, follow, boot, run, file,
                 starts, ends, owed>>

(* The session ends: the unit goes on, the following does not. *)
SessionEnds ==
  /\ live
  /\ live' = FALSE
  /\ polling' = FALSE
  /\ look' = "no"
  /\ UNCHANGED <<slow, state, asking, first, calls, last, before, new, tried, box, told>>

SessionOpens ==
  /\ ~live /\ starting = "no" /\ cancelling = "no"
  /\ live' = TRUE
  /\ state' = "idle" /\ unclear' = 0 /\ byModel' = FALSE /\ first' = FALSE
  /\ last' = Nobody /\ before' = Nobody
  /\ mine' = FALSE /\ ends' = starts /\ owed' = FALSE
  /\ UNCHANGED <<slow, calls, polling, boot, box, starts>>
------------------------------------------------------------------------------
Voice == \/ CallHelper \/ HelperRestarts \/ Started \/ HelperStops \/ Cancelled
         \/ Announce \/ Gone \/ LeaveOnline \/ PollOver \/ FirstBoot
Next == \/ Voice
        \/ Phrase \/ Tool \/ Lapses \/ SaysNo \/ SaysWhat \/ SaysYes
        \/ Cancel \/ NotStarted \/ NotCancelled \/ GivesUp \/ Looks \/ ReachedOnline
        \/ UnitStarts \/ UnitWrites \/ UnitEnds \/ FromOutside \/ SessionEnds \/ SessionOpens

Spec == Init /\ [][Next]_vars
(* The session's tasks run, and its timers with them: the question's and   *)
(* the poller's own deadline.                                              *)
FairSpec == Spec /\ WF_vars(Voice) /\ WF_vars(Lapses) /\ WF_vars(GivesUp)

------------------------------------------------------------------------------
(* The unit is never up, or about to be, with nobody following it: the     *)
(* session that started it follows it or has stopped it, until the session *)
(* ends -- but for a stop that failed as it gave up or came online, which  *)
(* only the log tells of: the unit is then up with nobody following it,    *)
(* against "stop it, so the box is not offline with nobody following".     *)
Followed ==
  live /\ mine /\ state # "running" /\ starting = "no" =>
    ~timer /\ (unit = "up" => Phase \in Unit!Ends)

(* What is announced is of the run begun here: "each run has its own run   *)
(* id, so a stale file is never read as this run's news" (wifi_setup.py).  *)
NewsIsOurs == state = "running" /\ last # Nobody => last.run > before.run

(* Each setup begun has one end said, and a model that handed over to one  *)
(* or asked after it hears of its end.                                     *)
EachEndIsTold ==
  live => /\ state = "running" => ends = starts - 1
          /\ state # "running" /\ starting = "no" => ends = starts
          /\ state = "idle" => ~owed

(* The three together: a setup begun is followed, as itself, to its one end,*)
(* while the helper answers in its time and the stops of those who leave it *)
(* unfinished do not fail.                                                  *)
SetupIsFollowed == ~slow => Followed /\ NewsIsOurs /\ EachEndIsTold

(* The setup a new box begins unasked is the first of its boot, and there  *)
(* is none after one the owner began.                                      *)
UnaskedIsFirst == [][first' /\ ~first => starts' = 1]_vars

(* What a session owes: the question answered or lapsed, and the setup     *)
(* followed to its end.                                                    *)
Promises == {"idle"}
AreDue == IF live /\ state # "idle" THEN Promises ELSE {}
AreKept == IF state = "idle" \/ ~live THEN Promises ELSE {}
=============================================================================
