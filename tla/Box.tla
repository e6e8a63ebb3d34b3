-------------------------------- MODULE Box ---------------------------------
(* The phone line, a session on hold, and the settings of the box: the parts*)
(* together. They share no state: they meet in the inputs each module takes *)
(* from any source.                                                         *)

CONSTANTS
  MaxQuestions, Calls, None, Punctual, BuildMayFail, MaxCodes, MaxWrong,
  MaxStarts, MaxStops, Keys, FirstKey, Savers, MaxCrashes, Apart, Phones,
  MaxSignIns, MaxPastes, MAX_WRONG, OFFER, HELD, PENDING, SESSION, MaxPosts,
  MaxJoins, Last, Models, Content, BadEngines, MaxRuns, MaxEngineStops,
  Max, FirstBrain, PhoneIn, BadBrains, MaxBrainStops, WithOld

VARIABLES
  arb, questions, caller, askAt, fut, closed, told, line, passing, waited,
  mute, holding, held, gateHeld, holdOff, ownCut, stt, greeting,
  overlap, autoAnswer, gw, inbox, hung, reader, ring, answered, sent,
  declined, setup, bring, active, pipe, down, tear, busy, claims,
  issued, pairing, creating, session, current, code_dead, old, locked, wrong,
  spent, tap, stopped, page, minted, made, result, waiter, listed, found,
  gen, asking, offer, last, unshown, watcher, on_spent, screen, shown,
  closed_device, code, pairing_device, usable, claim, made_device, ending,
  codes, stops, started,
  file, env, procenv, oc, gw_key, gw_restarts, sha, mismatched, restart,
  saving, gen_key, lock, looking, owed, crashes, pc, key, prev, prev_file,
  text, gen0, oc0, newest,
  issued_phone, left, dead, wrong_phone, spent_phone, session_phone, opened,
  starting, signIns, pending, pendingLeft, by, granted, redeemed, finishing,
  asked, held_phone, heldLeft, pastes,
  at, status, screen_wifi, ap, served, posts, request, wake, key_wifi, target,
  account, pending_wifi, psk, made_wifi, created, on, late, joins, cut, rc,
  live, unit, env_engine, staged, copies, mark, up, run, pc_engine, todo,
  want, changed, kept, target_engine, before, added, was, astray, ended, runs,
  stops_engine,
  venvs, link, prev_venvs, toolsOf, current_venvs, up_venvs, unit_venvs,
  old_venvs, gateway, saved, dropin, moved, run_venvs, pc_venvs, staged_venvs,
  from, back, detached, active_venvs, ours, was_venvs, ended_venvs, built,
  stops_venvs

Held == INSTANCE HeldSession
Line == INSTANCE SipCalls
Pair == INSTANCE Pairing
Device == INSTANCE DevicePairing
  WITH closed <- closed_device, pairing <- pairing_device, made <- made_device
Key == INSTANCE AgentKey
  WITH gw <- gw_key, gen <- gen_key, First <- FirstKey
Phone == INSTANCE SettingsPhone
  WITH issued <- issued_phone, wrong <- wrong_phone, spent <- spent_phone,
       session <- session_phone, held <- held_phone
Wifi == INSTANCE WifiSetup
  WITH screen <- screen_wifi, key <- key_wifi, pending <- pending_wifi,
       made <- made_wifi
Engine == INSTANCE EngineSwap
  WITH env <- env_engine, pc <- pc_engine, target <- target_engine,
       stops <- stops_engine, Bad <- BadEngines, MaxStops <- MaxEngineStops
Venvs == INSTANCE BrainSwap
  WITH prev <- prev_venvs, current <- current_venvs, up <- up_venvs,
       unit <- unit_venvs, old <- old_venvs, run <- run_venvs, pc <- pc_venvs,
       staged <- staged_venvs, active <- active_venvs, was <- was_venvs,
       ended <- ended_venvs, stops <- stops_venvs, First <- FirstBrain,
       Bad <- BadBrains, MaxStops <- MaxBrainStops

heldVars == <<arb, questions, caller, askAt, fut, closed, told, line, passing,
  waited, mute, holding, held, gateHeld, holdOff, ownCut, stt, greeting>>
lineVars == <<overlap, autoAnswer, gw, inbox, hung, reader, ring, answered,
  sent, declined, setup, bring, active, pipe, down, tear, busy, claims>>
pairVars == <<issued, pairing, creating, session, current, code_dead, old,
  locked, wrong, spent, tap, stopped, page, minted, made, result, waiter,
  listed, found>>
deviceVars == <<gen, asking, offer, last, unshown, watcher, on_spent, screen,
  shown, closed_device, code, pairing_device, usable, claim, made_device,
  ending, codes, stops, started>>
keyVars == <<file, env, procenv, oc, gw_key, gw_restarts, sha, mismatched,
  restart, saving, gen_key, lock, looking, owed, crashes, pc, key, prev,
  prev_file, text, gen0, oc0, newest>>
phoneVars == <<issued_phone, left, dead, wrong_phone, spent_phone,
  session_phone, opened, starting, signIns, pending, pendingLeft, by, granted,
  redeemed, finishing, asked, held_phone, heldLeft, pastes>>
wifiVars == <<at, status, screen_wifi, ap, served, posts, request, wake,
  key_wifi, target, account, pending_wifi, psk, made_wifi, created, on, late,
  joins, cut, rc>>
engineVars == <<live, unit, env_engine, staged, copies, mark, up, run,
  pc_engine, todo, want, changed, kept, target_engine, before, added, was,
  astray, ended, runs, stops_engine>>
venvsVars == <<venvs, link, prev_venvs, toolsOf, current_venvs, up_venvs,
  unit_venvs, old_venvs, gateway, saved, dropin, moved, run_venvs, pc_venvs,
  staged_venvs, from, back, detached, active_venvs, ours, was_venvs,
  ended_venvs, built, stops_venvs>>

vars == <<heldVars, lineVars, pairVars, deviceVars, keyVars, phoneVars,
  wifiVars, engineVars, venvsVars>>

Init ==
  /\ Held!Init /\ Line!Init /\ Pair!Init /\ Device!Init /\ Key!Init
  /\ Phone!Init /\ Wifi!Init /\ Engine!Init /\ Venvs!Init

heldOnly == UNCHANGED <<lineVars, pairVars, deviceVars, keyVars, phoneVars,
  wifiVars, engineVars, venvsVars>>
HeldGoes == Held!Next /\ heldOnly

lineOnly == UNCHANGED <<heldVars, pairVars, deviceVars, keyVars, phoneVars,
  wifiVars, engineVars, venvsVars>>
LineGoes == Line!Next /\ lineOnly

pairOnly == UNCHANGED <<heldVars, lineVars, deviceVars, keyVars, phoneVars,
  wifiVars, engineVars, venvsVars>>
PairGoes == Pair!Next /\ pairOnly

deviceOnly == UNCHANGED <<heldVars, lineVars, pairVars, keyVars, phoneVars,
  wifiVars, engineVars, venvsVars>>
DeviceGoes == Device!Next /\ deviceOnly

keyOnly == UNCHANGED <<heldVars, lineVars, pairVars, deviceVars, phoneVars,
  wifiVars, engineVars, venvsVars>>
KeyGoes == Key!Next /\ keyOnly

phoneOnly == UNCHANGED <<heldVars, lineVars, pairVars, deviceVars, keyVars,
  wifiVars, engineVars, venvsVars>>
PhoneGoes == Phone!Next /\ phoneOnly

wifiOnly == UNCHANGED <<heldVars, lineVars, pairVars, deviceVars, keyVars,
  phoneVars, engineVars, venvsVars>>
WifiGoes == Wifi!Next /\ wifiOnly

engineOnly == UNCHANGED <<heldVars, lineVars, pairVars, deviceVars, keyVars,
  phoneVars, wifiVars, venvsVars>>
EngineGoes == Engine!Next /\ engineOnly

venvsOnly == UNCHANGED <<heldVars, lineVars, pairVars, deviceVars, keyVars,
  phoneVars, wifiVars, engineVars>>
VenvsGoes == Venvs!Next /\ venvsOnly

Next == HeldGoes \/ LineGoes \/ PairGoes \/ DeviceGoes \/ KeyGoes \/
        PhoneGoes \/ WifiGoes \/ EngineGoes \/ VenvsGoes

Spec == Init /\ [][Next]_vars

-----------------------------------------------------------------------------
(* Every part keeps to its states. *)
TypeOK ==
  /\ Held!TypeOK /\ Line!TypeOK /\ Pair!TypeOK /\ Device!TypeOK /\ Key!TypeOK
  /\ Phone!TypeOK /\ Wifi!TypeOK /\ Engine!TypeOK /\ Venvs!TypeOK

-----------------------------------------------------------------------------
(* Back from a call, a question or a notice, all it switched is back as it  *)
(* was; from the step-away line to the way back nobody in the room is       *)
(* heard; and what the model was told of its answer is what happens to the  *)
(* call.                                                                    *)
NothingLeftOn ==
  /\ Held!NothingLeftOn /\ Held!UnheardOnHold /\ Held!AnswerIsWhatHappens

-----------------------------------------------------------------------------
(* While a call's pipeline can hold the engine the call has its claim, and  *)
(* never two calls have one; and, of a gateway of our own, no other call    *)
(* asks meanwhile, once the call is gone nothing keeps the claim but its    *)
(* own teardown, and the busy line is alone.                                *)
ClaimsFollowCalls == Line!LineInv

(* A running pipeline is taken down only for its own call, its successor,   *)
(* or the connection.                                                       *)
NoWrongTeardown == Line!NoWrongTeardown

-----------------------------------------------------------------------------
(* A phone gets a handoff only of a pairing that goes on, one whose phone   *)
(* may still connect is watched to its end, and one said to have come to    *)
(* nothing has handed out no handoff.                                       *)
PairingToItsEnd ==
  /\ []Pair!NothingWasHandedOut /\ Pair!HandoffsAreOfThePairing
  /\ Pair!WatchedToTheEnd

-----------------------------------------------------------------------------
(* No code can be used that is not on the screen or on its way there,       *)
(* nothing of a pairing stays there unfollowed, and after the user's stop   *)
(* only a code asked for since comes up.                                    *)
ScreenIsTheUsers ==
  /\ []Device!CodeIsOnScreen /\ []Device!ScreenIsFollowed /\ Device!StopStops

-----------------------------------------------------------------------------
(* The status says OpenClaw shares the key only while it does, the gateway  *)
(* of a shared key runs on it or is owed a restart, and the newest save     *)
(* that went through stands.                                                *)
SharedKeyIsTrue == Key!SharedKeyIsTrue

-----------------------------------------------------------------------------
(* A phone that comes back from OpenRouter in time is still in its session, *)
(* and a sign-in is finished with its own verifier.                         *)
SignInIsOwn == Phone!SignInIsOwn

-----------------------------------------------------------------------------
(* A setup that ends without a network leaves the box as it was: no setup   *)
(* network, no password on the display, the old network asked for; and no   *)
(* password or profile of a join that failed, unless the stop came in the   *)
(* very call that was to put back the one or delete the other.              *)
BackAsItWas == Wifi!BackAsItWas

(* The status file goes through the phases those who follow it count on. *)
IsSetupUnit == Wifi!IsSetupUnit

-----------------------------------------------------------------------------
(* Once the engine's swap is not half-done its files are one release's, with *)
(* the newest kept engine put back too, unless a run was stopped among the  *)
(* renames that put an engine back; the brain that is live and the way back *)
(* to it are on the disk.                                                   *)
InstallIsWhole == Engine!InstallIsWhole /\ Venvs!InstallIsWhole

(* A run that ends well runs what it swapped in; one that says it put the   *)
(* old back left the box as it was.                                         *)
InstallerAsTold == Engine!AsTold /\ Venvs!BrainAsTold
=============================================================================
