# teaport, in TLA+

teaport is a voice assistant on a small box: a room microphone, a browser's Talk page
and a telephone line all speak to one process, the *brain* (`brain/teaport_brain`), which
drives one speech engine and, over a loopback, an agent host (OpenClaw). The brain is
asyncio Python: many tasks on one event loop, and every `await` is a place where the
others run. This directory models the parts of it whose correctness depends on that,
checks them with TLC on small instances, and proves with TLAPS what holds for every
instance.

The specifications under `brain/formal/` belong to the repository and are independent of
this project: nothing here uses them.

## 1. Inventory

| part | code | state it keeps | operations and interactions | what is hard | what makes it correct |
|---|---|---|---|---|---|
| session arbiter | `session_arbiter.py` | the holder of the engine's one STT slot, the conversation on hold and for which call, a lock, the shielded end/hold/resume tasks | `acquire`, `release`; asks, ends, holds and resumes sessions through the callbacks of their `Claim` | an `acquire` cancelled anywhere, while what it began runs on; decisions before an await, acted on after it | one user of the slot, nobody stranded, no refusal that touched anybody, every ask answered |
| SIP front-end | `sip_server.py` | the ring, the bring-up in flight, the active pipeline, the teardown and busy-line tasks, the claims by call | the gateway's `incoming`, `confirmed`, `disconnected`; `call.answer`, `call.hangup`; `CallClaim` on the arbiter | late and stale messages behind a reader that blocks in teardowns; pipelines that die; cancelled bring-ups | the claim, the slot and the teardown match their call; no caller on a dead line |
| /talk front-end | `gateway_server.py` | one claim per websocket, its gate | builds a session, asks the arbiter, runs it, releases | clients that freeze or reconnect | a session always releases; a sleeping room yields |
| call prompt | `call_prompt.py` | the question in progress | asked by the arbiter, answered by the session's transcripts | an answer at the deadline | one answer per question |
| agent session | `agent_session.py` | held or not, muted, its own lines | assembles the pipeline; hold, resume, greet, last lines | hold against end | a held session is silent, and comes back or ends |
| follow-up gate | `followup_gate.py` | who speaks, consults running, what is queued | `is_clear`, unprompted turns | a user who starts as it decides | nothing unprompted is said over anybody |
| owed until heard | `owed.py` | results and promises not yet heard | settled by what was heard, re-owed by interruptions | a result that lands after its turn | nothing is lost, nothing is said twice |
| transcript ledger | `transcript_ledger.py` | the merged transcript, single writer | both sides' events, out of order | late finals, interrupted replies | order, and each utterance once |
| barge-in pause | `barge_pause.py`, `playout_pause.py` | paused, by what, since when | VAD and transcripts pause, resume or cut the playout | a pause undone as a second one starts | never paused for ever, never talked over |
| reply hold, speculative reply | `reply_hold.py`, `speculate.py` | a reply held back; a reply asked for early | user speech, final turn | the final words differ | only the reply to the final words is heard |
| speech recognition, endpointing, turn text | `stt.py`, `endpointing.py`, `turn_text.py`, `taken_turn.py` | the engine connection, the finals of the turn | frames, engine events, timers | a lost connection in a turn; a turn judged over too early | each final in one turn |
| run control | `run_control.py`, `plugin/provider.js` | the frames held for OpenClaw's verdict; the newest final, the last act, the claim that waits | a question and its answer over the socket, the relay's act, two timers | an act before, while or after its words are asked about; a late answer | order kept; claimed only what is acted on, and that answered once |
| wake gate, goodbye | `wake_gate.py`, `goodbye.py` | asleep, the window after the wake words | transcripts | the window closing in a turn | asleep hears nothing but the wake words |
| pairing, settings access | `pairing.py`, `pair_device.py`, `settings_access.py` | codes, tickets, grants and their expiry | phone, box, OpenClaw | use against expiry, twice used | one use, in time |
| Wi-Fi setup, first boot | `wifi_setup.py`, `wifi_voice.py`, `first_boot.py` | mode, the request files, the tries | the setup service, the voice | a crash or restart in setup mode | the box always comes back to a network |
| keys, credit, sign-in | `ai_account.py`, `agent_key.py`, `credit.py`, `openrouter_connect.py` | the key in use, the last read credit, the sign-in in progress | HTTP, files, the agent | a newer key during an exchange | one key, one balance |
| consults and notes | `tools.py`, `consult_bridge.py`, `client_notes.py` | pending calls, notes | the client runs them | late or lost results | each call settles once |
| speech output | `engine_tts.py`, `heard_context.py`, `captions.py`, `thinking_sound.py` | words against timestamps, what was heard | interruptions | cut at a word | the context says what was heard |
| room bridge | `local_audio.py` | the /talk connection of the microphone | reconnects, yields, `GET /session` | coming back under a call | one connection, always back |
| plugin | `plugin/provider.js` | the relay session in OpenClaw | websocket to the brain | reconnects | one session |
| installer | `install.sh` | the files under the prefix, the kept engine, the marker of a swap, the link to the brain's venv | a full run, `--only`, `--rollback`; systemd | a run stopped at any step, only the disk is left of it | what runs is of one release, and the way back is there |

Leaf code (text shaping, languages, framing, signal processing, measurement) is listed in
`PROJECT.json` with the reason it is left out. The parts meet through few interfaces: frames
of the pipeline one above the other, callbacks into the arbiter, status files, a socket to
the plugin. Each module takes what comes over such an interface from any source that the
other side's code permits, so that a part is checked against more than its neighbour does.

## 2. How the project is built

Each part is a module of its own: its state as variables under the code's names, `Init`,
one action per handler or per piece of code between two awaits, `Next`, `Spec`, a type
invariant and its properties. Three modules put parts side by side: `Listening` (what
listens to the caller), `Replies` (what answers) and `Box` (the phone line, a session on
hold, and the settings). The parts in one of them share no variable; each is an `INSTANCE`
there, renamed where two use one name, and a step of the whole is a step of one part
(`PauseGoes`, `LineGoes`, ...) that leaves the others alone. The properties are stated
there once more (`SilenceIsOwned == Pause!SilenceIsOwned /\ ...`), and both the runs and the
theorems are about these definitions, under the same `Spec`.

For TLC, `MCListening`, `MCReplies` and `MCBox` extend them with `scene`: one part goes on
and the others stay as they begin. As the parts share nothing, what a part can do is the
same as in `Spec`, and the states are the sum over the parts and not the product.
`MCProgress` does the same for liveness, on variables `v1`, `v2`, ... that the parts take
turns on.

What does not change in a behaviour but differs between installations is a variable that
keeps its first value: `overlap` and `autoAnswer` (which gateway a phone line has),
`mayCross` and `timely` (how the line between brain and plugin behaves), `slow` (how long the
root helper may take). One run covers all of them and an invariant says which it is for.

## 3. The modules

### The slot: OneSlot, SessionArbiter, SessionArbiterInv
`OneSlot` is what the arbiter promises, and no more: a slot that one session has at a time,
and one place beside it where a session steps away for a caller and from where it comes back
when that caller is gone. `SessionArbiter` is `session_arbiter.py`, whole. Claims are of
three kinds (`Talks`, `Rooms`, `Calls`), with a client each. `pc[c]` is where `c`'s
`acquire()` is, `on[c]` the claim it is dealing with; `owner`/`line` are the asyncio lock
with its FIFO; `holder`, `held`, `heldFor` the slot; `ending`, `hold`, `resuming` the
shielded tasks, which run on when their `acquire()` is cancelled. `Enter` takes the lock and
decides (`Meet`, `Judge`, `decide`), `AskEnds` acts on the answer to the question, `Held`
and `TakeOver` come back from a hold or an end and look again (`SecondLook`), `Told`,
`LetGo`, `EndSettled` are the end task, `PutOnHold`, `HoldFails`, `HoldSettled` the hold
task, `Resumed` the resume. `Leave`, `HangUp`, `Abandon` are what the rest of the brain does
to a claim. Whether a session is asleep, gone or can be asked is chosen afresh each time the
code reads it (`Views`). `using` is who has the engine in fact, `overrun` who was ended and
did not let go in `END_WAIT_SECS`: the code grants the slot over such a one, and logs it.

### The phone: SipCalls, HeldSession
`SipCalls` is one gateway connection of `sip_server.py`. `inbox` is the socket; `reader`
what the receive loop does, which reads nothing while it tears a pipeline down; `bring[c]`
how far the bring-up of a call is; `active`, `setup`, `ring`, `tear`, `busy`, `claims` the
variables of `run_connection` of those names; `pipe` and `down` the runner and the teardown
it is in. The gateway is another program, modelled as the source relies on it: calls in
order, one at a time, except that an INVITE may come while a call the brain hung up is on
its way out, or (`overlap`, before 0.6.0) at any time. The arbiter answers as it likes.
`HeldSession` is a conversation that a call interrupts: `call_prompt.py`'s question, and
`hold`, `resume`, `own_line` and the start notice of `agent_session.py`, with every switch
they set (mute, hold-off, the gate's hold, `own_cut`, the engine session). The arbiter is
its environment, `arb` where it is with this conversation; any timer may run out at any time.

### What listens: BargePause, UserTurn, Speculation, RunControl, RoomBridge, WifiVoice
- `BargePause`: `barge_pause.py` with the start strategy's side and `playout_pause.py`'s
  output; notices go up, the STT's frames come down in a queue of their own.
- `UserTurn`: when a turn is over and on which words; `stt.py`'s segments, verdicts,
  commits, receipts and stranded segments, `LateStartTurnStopStrategy` and
  `keep_barge_in_reachable` of `endpointing.py`. A word is `<<utterance, index>>`.
- `Speculation`: the reply asked for early (`speculate.py`) and who asks for it. The fence
  (`CutReplyFence`) may run out of its wait: the frames are forgotten, no speculation that
  waited is begun, and the commit goes ahead of the cut reply.
- `RunControl`: `run_control.py` and its other half in `plugin/provider.js`. A frame is a
  number; `toPlugin` and `toBrain` are the socket. OpenClaw's relay is external: `duty` is
  what it will act on, `running` the consults it has a run for. With `mayCross` a question
  may overtake its final's transcript by a turn of the event loop.
- `RoomBridge`: the microphone's bridge (`local_audio.py`), the brain's end of each dial, and
  the conversation `wake_gate.py` keeps between sessions.
- `WifiVoice`: spoken Wi-Fi setup and a new box's first boot; the unit it follows is what
  `SetupUnit` says of one. A stop of the unit may be refused, which the code only logs.

### What answers: Owed, FollowupGate, ClientNotes, TranscriptLedger, ReplyHold, SlicedTurn, TurnText
- `Owed`: `owed.py`'s book; what a text is about and each judge's verdict are choices. A line
  of the session's own cuts what plays and cancels the request that is being rendered
  (`OwnLine`), before it has noted anything; a turn may end with nothing to commit.
- `FollowupGate`: who may speak unprompted, when, and the answer it holds. A turn ends in a
  request (`TurnCommits`) or in none (`TurnEndsEmpty`).
- `ClientNotes`: notes nobody said, from receipt to the model's context.
- `TranscriptLedger`: what the user heard of each reply; a chunk of audio is the unit of time.
- `ReplyHold`: the gate below the TTS, the fence of the commits, the fold of a continued turn by
  the corrector a commit passes on its way to the model; `Queues` is what is left of a queue.
- `SlicedTurn`: one continuous decode cut into turns by commits, with previews and finals.
- `TurnText`: a final that differs from the words its turn was asked on, applied in the
  aggregator or in the message it was committed in, whose event may be behind. A word carries
  whose it is and a message the turns it was written of: history, for the properties. The
  record of the commits is whole, where the code's has the last eight (`_COMMITS_KEPT`).

### The box: Pairing, DevicePairing, AgentKey, SettingsPhone, SetupUnit, WifiSetup, EngineSwap, BrainSwap
- `Pairing`, `DevicePairing`: `pairing.py` and the code on the screen, `pair_device.py`.
- `AgentKey`: one key in the brain's file, in `brain.env` and in OpenClaw; savers, the
  restarter and a crash at any call.
- `SettingsPhone`: a one-time code, the session it opens, the sign-in at OpenRouter started
  in it. Clocks count down, with the code's order of their lengths.
- `SetupUnit`, `WifiSetup`: the phases of the setup unit's status file, and one run of
  the unit (`wifi_setup.py`, `wifi.py`) with a stop at any of its calls.
- `EngineSwap`, `BrainSwap`: `install.sh`'s way with the engine and with the brain, stopped
  at any step. A file is its content, a release a number.

## 4. The runs

Five pass, seven show a disagreement of code and words.

| run | instance | shows |
|---|---|---|
| `arbiter_safety` | 2 Talk sessions of one client, 1 room, 2 calls (symmetric), any 4 of them | the inductive invariant, the safety properties, `NoClobber`, and that the arbiter implements `OneSlot` |
| `listening` | two utterances, two frames, two setups (one, where the helper is slow), three dials | the parts that listen |
| `replies` | one consult and a tool, two calls of tools, a reply or two, two stops in a decode of two words, three finals | the parts that answer |
| `box` | three calls (two where the gateway overlaps them or answers by itself), two questions, two keys and savers, two phones, three engines, four runs of the installer | the phone line, the session on hold and the settings |
| `progress` | each part by itself, smaller | what each part promises comes to be, under its fairness |
| `arbiter_half_held` | 1 Talk, 1 call | **violated**: a failed hold whose caller has hung up leaves a conversation muted, neither ended nor resumed |
| `sip_line_closes` | 1 call | **violated**: the connection's end lets a claim go with the slot still held |
| `run_control_said_more` | 3 frames | **violated**: the act on words held behind others is missed when more has been said |
| `notes_order_last` | 3 notes where 2 are kept | **violated**: an order lands after the user's words, which then go unanswered |
| `key_torn_unseen` | 2 savers, 1 crash | **violated**: a torn save's marker is taken over by the next save before anyone has looked |
| `wifi_news_of_another` | 1 setup beside an older unit | **violated**: the older unit's end is announced as this one's |
| `engine_rolls_back_to_a_mix` | 3 engines, 4 runs, 1 stop | **violated**: after a stopped rollback the newest copy left is rolled back to over another release's model |

What each property says is written above it in its module. Those of `listening`:
`SilenceIsOwned` (a paused output has something that will wake it, and held words are waited
for), `BargeInReachable` (a turn open for the model's words alone can be talked over: it is
open without a stop to come only while the caller speaks and the close was refused),
`RunControlIsTrue` (order kept, claims confirmed, words answered once), `SetupIsFollowed`,
`FreshIsFresh`, and as action properties `LateWordsAreHeard`, `AheadIsAsAsked`,
`UnaskedIsFirst`, `TakenIsTheirs`. Those of `replies`: `NobodyForgotten`, `ResultIsRead`,
`NothingHangs`, `TextIsWhole`, `CutsAreReadFirst`, `NoNoteIsAnswered`, `HeardIsWhatPlayed`,
`RepliesFitTurns`, `FinalsFitTurns`. Those of `box`: `NothingLeftOn`, `ClaimsFollowCalls`,
`SharedKeyIsTrue`, `BackAsItWas`, `InstallIsWhole`, `NoWrongTeardown`, `PairingToItsEnd`,
`ScreenIsTheUsers`, `SignInIsOwn`, `IsSetupUnit`, `InstallerAsTold`.

**Promises.** For `progress` a module says what it owes: `Promises`, those that `AreDue` and
those that `AreKept`. A behaviour looks after one of them (`promise`), and
`EveryPromiseKept` is that, once due, it is kept: a claim that asks is answered, a question
ends and a held conversation comes back, a word said is the model's or went with a
session, a reply with the caller's words plays or has nothing to say, an answer owed is
offered, a note goes in, a reply read is settled, a frame goes on past a dead plugin, no
caller is left on a dead line and no claim outlives its call, whoever pairs hears an end, a
code comes down from the screen, a torn save is found and an owed restart comes, the bridge
comes back, the setup unit ends and is said to have.

**Bounds.** Two calls are enough for a call that hangs up and the next that comes while its
tasks run on; three let a stale message of the first arrive with the second half brought up
and the third ringing (it comes only while something of the first is left: with nothing of
it there are two again). The installer's fourth run is a rollback or an `--only engine` one.
Two Talk sessions of one client are a reconnect that replaces; the
room is a sleeper that yields; four claims of the five come, in any choice, so that no two
of a kind are missing together with a third party. Symmetry is used over calls only, in a
safety run, and nothing orders them. Two utterances are one judged while the next begins.
Three frames would be one asked about, one held behind it and a newer; `listening` has two,
`run_control_said_more` three. Two notes with one kept is the cut of `_retain`. Three engine
releases, of which the second has no model of its own, are the least for a copy that is not
of the release before; four runs are two updates, a stopped one and the one that finds its
marker. One stop each, one crash, one fault: a second is a question of its own. In the
ledger's scene of `progress` two replies are said and the promise is the second's, so that
what a cut leaves of the first can hurt it. In `TurnText` two turns' events
may be behind (`MaxBehind`), of three turns, two of them asked on the same word.

**Fairness.** Weak fairness, of what the event loop, the shielded tasks and the timers with
a limit in the code will do: `acquire()` and its tasks (`HOLD_WAIT_SECS`, `END_WAIT_SECS`,
the prompt's deadline), the reader, bring-ups and teardowns of a call, the processors of the
pipeline, the debounce and grace timers, the watchers and restarters. Of the gateway: that
it carries out `call.answer` and `call.hangup`, and (`Punctual`) that `confirmed` comes
within `_CONFIRM_SECS`, as sip_server.py:199 says; `BuildMayFail` is false there, as a build
that raises after the call was answered leaves its caller waiting until they hang up. Of the
engine: that it finishes what it was given. Nothing is assumed of people (they need neither
call, answer, hang up nor speak), nor of the plugin or the relay: for an answer to be offered
the caller must leave a quiet moment, and that is a condition of the promise.

Deadlock is checked in every run; where a system may be over, its module has an action for
that which changes nothing. Each property is shown to depend on the code by mutants: an
operator marked `Slip` before the definition it changes, which no specification uses.
## 5. Proved

Eight modules hold theorems, for `Spec` of `SessionArbiter` or of the composite module whose
definition they state (two parts have a module of their own), and for every value of the constants within the assumptions
named. Each proof has the same shape. An inductive invariant, a conjunction of named parts;
one step for each action, which first lists what the action sets and then goes through the
parts it can disturb; a lemma `XAlone` for each part of a composite, that the steps of the
others leave its variables alone; and the temporal step (PTL). What stays as it begins
(`slow`, `mayCross`, `overlap`) is a condition inside the invariant.

- **SessionArbiterProofs** (`ClaimsAssumption`: the kinds are disjoint, `None` is no claim,
  all calls have one client). All an `acquire()` does to the slot it does as `owner` of the
  lock; what runs without it is on record in `ending`, `hold` and `resuming`, which the next
  owner waits out. That nobody is stranded needs that a hold task's claim is the holder and
  asks for a pending call; that the right call is held for needs that only the owner can be
  between a hold and its grant. `Inv` (`SessionArbiterInv`) is `LockInv` (one claim inside
  `acquire()`, the others in line once each), `CallsInv` (one call asks or holds), `SlotInv`
  (who is granted and not over is the holder, on hold, or overrun), `HoldInv` and `EndInv` (what
  each task's claim is while it runs) and `AcquireInv` (what each place in `acquire()` knows).
  From it all safety properties of `arbiter_safety`, `NoClobber`, and `IsOneSlot`: the
  arbiter implements `OneSlot`, step by step.
- **SipCallsProofs** (`None` is no call): `NoWrongTeardown` and `ClaimsFollowCalls`, for any
  set of calls and any gateway. A pipeline holds the engine while it is active or its runner
  is being cancelled (`PipeInv`), there is one bring-up (`SetupInv`), and whoever cancels a
  pipeline waits for it: the reader, which begins nothing meanwhile, or a task the next ask
  waits for (`TearInv`, `AloneInv`). That gives the parts about the slot. The others need that
  a current gateway's calls come one after another, and are read so: `OrderInv` says of every
  two calls in the inbox that the first is being hung up, or its end was said, before the
  second is heard of; `CurrentInv` that the call heard of last is `rings`'; `EndingInv` that
  whoever a bring-up, a pipeline, a claim or a busy line is for is there, or its end is still
  to be read; `UnpipedInv` and `BusyInv` what a claim with no pipeline, and a call left to
  ring, can be beside. So a call that begins finds nothing left of the one before it.
  And of the conversation a call puts on hold (no assumption but that the bound is a number):
  `NothingLeftOn`. The switches are tied to where the arbiter, the question and the notice are
  (`HoldInv`, `LineInv`, `MuteInv`); that the call goes as the model was told needs what a
  taken question stays (`AnswerInv`); the type invariant needs that interruptions are counted
  (`PassingInv`).
- **ListeningProofs**: `SilenceIsOwned` (needs that no resume is to come while the caller
  speaks), `BargeInReachable`, `SetupIsFollowed` (where no setup is begun over the unit of
  another start, `~Orphans`; with one it is false, run `wifi_news_of_another`; a unit whose
  stop was refused is excepted by the property, section 7), `UnaskedIsFirst`,
  and `RunControlIsTrue` whole. Sequence numbers make the last argument: what was heard, asked
  and acted on is numbered by one counter, and what the messages under way carry is in step
  (`MsgInv`), so all is in order (`FramesInOrder`), and what is claimed was confirmed, unless a
  question overtakes its transcript (`ClaimsAreConfirmed`). That a request is answered once
  needs more: a transcript's number is fresh and falls in no queue twice (`FreshInv`), what
  the plugin believes of a run is what is on its way to it (`RunsInv`), and of one request
  there is at any time one of a question, a reply, a timer or a claim (`WaitInv`, which holds
  while the relay has acted in time and the plugin knows the final). `AheadIsAsAsked`: nothing asks
  while the caller speaks (`QuietInv`), what waits for its cut to land asks for the words there
  are (`WordsInv`), and a turn a reply plays over has cut it (`CutInv`); that what is asked
  reads the cut as heard is said where no wait for it ran out (`InOrder`). Of the room bridge
  `TakenIsTheirs` and `FreshIsFresh`, for any number of dials and faults.
- **RepliesProofs**: `ResultIsRead`, and `NobodyForgotten`: an entry that is owed has been
  missed or is on its way to be told, or waits for the caller's next turn (section 7), kept
  through the arms, the evictions and the judges by a lemma per operator of the book
  (`EndFollows`, `OweFollows`, `ArmFollows`, `SettleFollows`, ...).
  `CutsAreReadFirst`: only an answer owed awaits the reading of a cut, and only a fresh one has
  tries left (`Sane`), so that a request that notes one finds no cut of it unread.
  `NoNoteIsAnswered`, for any number of notes kept, turns and notes sent: a live reaction's
  order is in the context just once (`OrderIsLive`), and words whose request has not passed
  are its last message (`WordsWait`). `NothingHangs` and `RepliesFitTurns` come from the
  hold's own theorems, and `FinalsFitTurns` from those of the turn's text:
- **ReplyHoldProofs** (the bounds are numbers): the hold by itself, for any number of
  utterances, tool calls and waits that run out; `RepliesProofs` takes its theorems over to
  the composite by an instance of this module. `Inv` is, after the states of each part
  (`HoldTyped`): where a call's frame and its result's can be, once each and in order, in the
  gate's queue, behind it and in the context (`HoldCalls`), which gives that no call is left
  open; that there are never more requests than words committed and results let by
  (`CountInv`), which bounds the replies; and `FitInv`. An open turn either has its interruption
  on the way down with nothing of an earlier reply left behind it (`Swept`), or there is one
  reply to come, armed, with no interruption about (`OneToCome`): so what is about to play
  answers all that was said (`NewInv`), and the turn a continued one is folded into was
  answered by nothing that played (`MergeInv`).
- **TurnTextProofs** (the bounds are numbers; every turn is asked on some words): the three
  parts of `FinalsFitTurns`, for any turns whatever their words and finals say, and any number
  of events behind. In `Inv` a message is on record once, in the order of the commits
  (`Ordered`), and those that are not are as many as the events to come (`Counted`); where one
  on record is gone, the newest is later or had it folded in (`Newest`), so what the corrector
  looks in besides the messages since the turn was pushed is never one before it. Then, that a
  turn's words read as it was asked on until its own final is in, or that of a turn asked on
  the same (`Worded`); that they are in the aggregator, in a message or taken (`Kept`), and on
  record where they belong (`Owned`, `Started`). The proof corrected two properties the small
  runs had let by: a message that another was folded into may be rewritten by the final of
  the other, and of two turns asked on the same words of which the first was taken, the
  first's final has the second's words, whose own is then unplaced.
- **QueuesProofs**: what is left of a queue (`Only`, module `Queues`): its elements of the set,
  each once and in order; and, for the provers, what `Append`, `Tail` and `\o` make of one.

- **BoxProofs**: `BackAsItWas` (but for what a stop in the undoing call itself leaves,
  `wifi.py:304`) and `IsSetupUnit` (which call undoes what, by position of the main thread),
  `SignInIsOwn` (`PENDING <= SESSION`, as the code's constants are),
  `PairingToItsEnd` and `ScreenIsTheUsers`, and `InstallIsWhole`: of the brain for fewer than a
  hundred releases, the first one named; of the engine for any releases of any
  files (`EngineReleases`), whatever runs are stopped, but where one is stopped among the
  renames that put an engine back (the ghost `astray`; section 7). Its invariant says, for
  each place of a run, which release each file is of, live, staged and in the copy that is
  written. And `InstallerAsTold`, under the same assumptions and for releases counted from one: what a run
  said of its end is how it left the box. A ghost keeps the box as the run found it, and an
  invariant says at each place of the run how far the box is from it: that the copy named is
  the way back until the swap is done (`KeptWell`), that no file is of two releases by then
  (`SwappedIn`), which keys the new release brought (`NewKeys`), and of the brain, that
  `sip_brain_restore` undoes just what the run had done to the units (`Undoes`, `ToldInv`).
  Of the key, `SharedKeyIsTrue` (`Apart`: no key is saved twice, as a restart spans the
  give-back of a key; `None` is no key and no saver): what the status says is so between
  saves (`KnownInv`), and of a save, what its place in the code has told OpenClaw
  (`HolderInv`).

## 6. Only model-checked

Out of the prover's reach: liveness under fairness (`EveryPromiseKept`) and ENABLED; what a
recursive definition or a fold computes for every input, and with it `TextIsWhole` (the
pieces of a cut decode put together again). Not proved, though it could be: the type
invariants of the composites, `LateWordsAreHeard` and `HeardIsWhatPlayed`.

## 7. Where code and words differ

Each run that expects a violation is described under `findings` in `PROJECT.json`, with the
words the code differs from:

1. `session_arbiter.py:418`, run `arbiter_half_held`;
2. `sip_server.py:1107`, run `sip_line_closes`;
3. `provider.js:925`, run `run_control_said_more`;
4. `client_notes.py:525`, run `notes_order_last`;
5. `agent_key.py:311`, run `key_torn_unseen`;
6. `wifi_voice.py:669`, run `wifi_news_of_another`;
7. `install.sh:713`, run `engine_rolls_back_to_a_mix`.

Other things the models made visible, with no run of their own:

- a gateway from before 0.6.0 that passes on a second INVITE: a call asks beside the claim of a
  bring-up cancelled after its grant (`overlap`; the invariants that need one call at a time
  are stated without it);
- a question answered "no" ahead of its transcript leaves the transcript to be matched with
  the next question in the same words (`provider.js:931`), so `ClaimedIsConfirmed` is stated
  without `mayCross`;
- a result's answer that `FollowupGate` holds, dropped by a line of the session's own, has
  no turn behind it that would read the result (`followup_gate.py:676`, `agent_session.py:564`);
  nor has one dropped for a turn that then commits nothing (`followup_gate.py:577`, 680,
  `taken_turn.py:85`);
- a run for an answer owed, cut by a line of the session's own before its request was noted,
  arms nothing (`services.py:762`, `owed.py:1332`): the record stays owed and is offered only
  with the caller's next turn, as one of a conversation restored is (`waits` in `Owed`);
- the fence's wait runs out (`endpointing.py:1541`): the commit is then ahead of the reply it
  cut, which is read as if it had been heard whole; `AheadIsAsAsked` is stated of cuts in
  order;
- `wifi_voice.py:809`: a stop that fails is logged and no more, and the session goes idle with
  the unit up and followed by nobody, against `wifi_voice.py:772`;
- `wifi.py:304`: `undo()` forgets what is pending before the call that undoes it, so a stop
  within that call leaves the password that did not work; and a cancel that races `_start`'s
  helper, or a helper that outlasts its wait, leaves a unit unfollowed;
- `SlicedTurn` has one fault in a session: with a preview's fault and a final not waited for
  the correction is lost, as documented, and two timeouts may say a late word twice;
  `_amend` takes the last match among turns that read the same;
- `turn_text.py:24` has a final that fits nowhere as one whose words were taken on the way:
  so, but for the second of two turns asked on the same words, where the first was taken, and
  for a message not on record yet that another was written behind;
- the engine's swap: one stop, or one rename refused, among the renames that put an engine
  back leaves two releases: after an update that did not come up there is no marker by then
  (`install.sh:984`), and after an abort or a recovery it names a copy with no binary left,
  which the next run passes over; `InstallIsWhole` says nothing of these; after a run
  stopped between its swap and its restart the next `--only engine` checks only the old
  running engine; an aborted swap leaves the keys it added to `engine.env`; the mix of finding
  7 can also be reached between a copy's `rm -rf` and the marker's removal;
- the brain's swap: Ctrl-C after the link has moved runs the EXIT trap, which starts the old
  SIP brain beside a new brain that is itself the phone's front-end (`install.sh:3517`,
  `3022`); and a stop in the move of the pre-uv venv, followed by a full run, prunes that venv
  before another is built.

## 8. Not modelled, and what is planned

Of the parts that are modelled, these branches are left out: `RoomBridge` has no grant made
while the ended holder outstays `END_WAIT_SECS` (`session_arbiter.py:450`); the ledger neither
takes pushed text (`transcript_ledger.py:381`) nor gives a drained context to another reply
(739-766), and sees an interruption below the TTS and the transport's stop as one; notes do
not meet the second window of a foreign tail; and a final's merge that comes ahead of the
turn's own event is left to the order of the events (`AnsweredStands` is of the messages on
record).

Listed with reasons in `PROJECT.json`. Left aside for good: text, languages, construction of
clients, framing, acoustics, measurement, scripts run once. Planned: the words spoken against
their timestamps (`engine_tts.py`), the calls of tools and their timeouts (`tools.py`,
`openclaw_client.py`), the typing sound, the recording of a call, goodbye, the guard on a
model's text and the once-per-turn apology, the credit monitor; and the proofs named in
section 6.
