------------------------------- MODULE AgentKey -------------------------------
(* One LLM key for the brain and OpenClaw: a key saved in Settings or setup mode    *)
(* goes to the brain's key file and to OpenClaw, both or neither, and a copy of it  *)
(* in brain.env, which the brain reads first, is dropped. ai_account.py (save_key,   *)
(* undo), agent_key.py, config_ui.save_values.                                    *)
(*                                                                                *)
(* Left out: a gateway that shares no store here, an endpoint that is not           *)
(* OpenRouter's. A fingerprint is its key.                                         *)
EXTENDS Naturals, FiniteSets

CONSTANTS
  None,
  Keys,       \* keys
  First,      \* the one the box has
  Savers,     \* saves of a key, one each (bound)
  MaxCrashes, \* restarts of the brain, mid-save or not (bound)
  Apart       \* a save does not begin over a torn one not found yet, and OpenClaw does not
              \* take a key again while the restart for it is being asked for

VARIABLES
  file, env, procenv,    \* the key file; brain.env's copy; this process's copy
  oc, gw, gw_restarts,   \* EXTERNAL OpenClaw's key; the one its gateway runs on; it restarts
  sha, mismatched, restart, saving, gen,  \* agent_key.json; saving: {} or {the new key}
  lock,                  \* save_lock's holder
  looking,               \* the first look: "due", "same", "other", "over"
  owed,                  \* the key a restart that runs is for
  crashes,
  pc, key, prev, prev_file, text, gen0,   \* of each save; text: brain.env as it read it
  oc0,                   \* OpenClaw's key as it took the lock (history)
  newest                 \* the newest save that went through and was not taken back (history)

vars == <<file, env, procenv, oc, gw, gw_restarts, sha, mismatched, restart, saving, gen, lock, looking,
          owed, crashes, pc, key, prev, prev_file, text, gen0, oc0, newest>>

KeyOrNone == Keys \cup {None}

envVars == <<env, procenv>>
agentVars == <<oc, gw, gw_restarts>>
stateVars == <<sha, mismatched, restart, saving, gen, looking>>
boxVars == <<owed, crashes>>
readVars == <<key, text, oc0>>

Running == {"check", "waits", "tells", "ok", "warn", "no", "half", "back", "backok", "backwarn", "backno", "took", "env",
            "undo", "utells", "uok", "uwarn", "uno"}
Answers == {"refused", "kept", "halfway", "saved", "undone", "stands", "unfinished", "stopped"}

TypeOK ==
  /\ {file, env, procenv, oc, gw, sha, owed} \subseteq KeyOrNone
  /\ {gw_restarts, mismatched, restart} \subseteq BOOLEAN /\ saving \subseteq KeyOrNone /\ Cardinality(saving) <= 1
  /\ gen \in 0..(2 * Cardinality(Savers) + MaxCrashes) /\ {lock, newest} \subseteq Savers \cup {None}
  /\ looking \in {"due", "same", "other", "over"} /\ crashes \in 0..MaxCrashes
  /\ pc \in [Savers -> {"off"} \cup Running \cup Answers]
  /\ {key, prev, prev_file, text, oc0} \subseteq [Savers -> KeyOrNone] /\ gen0 \in [Savers -> Nat]

(* current_key: the environment's copy, else the file. *)
current_key == IF procenv # None THEN procenv ELSE file

(* A box whose keys are one, or were never compared; with a copy in brain.env or not. *)
Init ==
  /\ file = First /\ env \in {None, First} /\ procenv = env
  /\ oc \in {First, None} /\ gw = oc /\ gw_restarts = FALSE
  /\ sha \in {None, oc} /\ mismatched = FALSE /\ restart = FALSE /\ saving = {} /\ gen = 0 /\ lock = None
  /\ looking = "due" /\ owed = None /\ crashes = 0
  /\ pc = [p \in Savers |-> "off"] /\ gen0 = [p \in Savers |-> 0]
  /\ key = [p \in Savers |-> None] /\ prev = key /\ prev_file = key /\ oc0 = key /\ text = key
  /\ newest = None

-----------------------------------------------------------------------------
(* The state file. A look that runs is thrown away by any write of it.             *)

Thrown == looking' = IF looking \in {"same", "other"} THEN "over" ELSE looking
mismatch == sha' = None /\ mismatched' = TRUE /\ restart' = FALSE /\ Thrown
Took(k, owes) == /\ sha' = k /\ mismatched' = FALSE /\ restart' = (owes \/ (restart /\ sha = k)) /\ Thrown
end(saved) == saving' = {} /\ gen' = IF saved THEN gen + 1 ELSE gen

Go(p, to) == pc' = [pc EXCEPT ![p] = to]

-----------------------------------------------------------------------------
(* A save of a key, up to the lock.                                               *)

Asked(p) ==
  /\ pc[p] = "off" /\ Go(p, "check")
  /\ \E k \in Keys : key' = [key EXCEPT ![p] = k]
  /\ text' = [text EXCEPT ![p] = env]
  /\ UNCHANGED <<file, envVars, agentVars, stateVars, lock, boxVars, prev, prev_file, gen0, oc0, newest>>

(* check_key's answer; a key set elsewhere is not saved from here.                 *)
Checked(p) ==
  /\ pc[p] = "check"
  /\ \/ Go(p, "refused")
     \/ ~(text[p] = None /\ procenv # None) /\ Go(p, "waits")
  /\ UNCHANGED <<file, envVars, agentVars, stateVars, lock, boxVars, readVars, prev, prev_file, gen0, newest>>

(* save_lock's wait is over: SAVE_WAIT_SECS. *)
Busy(p) ==
  /\ pc[p] = "waits" /\ lock # None /\ Go(p, "refused")
  /\ UNCHANGED <<file, envVars, agentVars, stateVars, lock, boxVars, readVars, prev, prev_file, gen0, newest>>

(* _save_locked, up to telling OpenClaw.                                           *)
Locked(p) ==
  /\ pc[p] = "waits" /\ lock = None /\ lock' = p /\ Go(p, "tells") /\ (Apart => saving = {})
  /\ prev' = [prev EXCEPT ![p] = current_key] /\ prev_file' = [prev_file EXCEPT ![p] = file]
  /\ oc0' = [oc0 EXCEPT ![p] = oc]
  /\ saving' = {key[p]} /\ Thrown /\ file' = key[p]
  /\ UNCHANGED <<envVars, agentVars, sha, mismatched, restart, gen, boxVars, key, text, gen0, newest>>

-----------------------------------------------------------------------------
(* give(): OpenClaw's CLI run, then what it came to.                              *)

(* EXTERNAL It takes the key (and the gateway applies it, or says it must restart), *)
(* or fails, with the key taken or not.                                            *)
Paste(k) ==
  \/ oc' = k /\ UNCHANGED <<gw, gw_restarts>>
  \/ oc' = k /\ gw' = k /\ UNCHANGED gw_restarts

Runs(p, k, ok, warn, half) ==
  \/ Go(p, ok) /\ oc' = k /\ gw' = k /\ UNCHANGED gw_restarts
  \/ Go(p, warn) /\ oc' = k /\ UNCHANGED <<gw, gw_restarts>>
  \/ Go(p, half) /\ (UNCHANGED agentVars \/ Paste(k))

Tells(p) ==
  /\ pc[p] = "tells"
  /\ Runs(p, key[p], "ok", "warn", "half") \/ (Go(p, "no") /\ UNCHANGED agentVars)
  /\ UNCHANGED <<file, envVars, stateVars, lock, boxVars, readVars, prev, prev_file, gen0, newest>>

TakenByAgent(p) ==
  /\ pc[p] \in {"ok", "warn"} /\ Go(p, "took") /\ (Apart => owed # key[p])
  /\ Took(key[p], pc[p] = "warn")
  /\ UNCHANGED <<file, envVars, agentVars, saving, gen, lock, boxVars, readVars, prev, prev_file, gen0, newest>>

(* It went through in both. brain.env's copy is dropped next.                      *)
Saved(p) ==
  /\ pc[p] = "took" /\ end(TRUE) /\ gen0' = [gen0 EXCEPT ![p] = gen + 1]
  /\ newest' = p /\ lock' = None /\ Thrown
  /\ Go(p, IF text[p] # None THEN "env" ELSE "saved")
  /\ UNCHANGED <<file, envVars, agentVars, sha, mismatched, restart, boxVars, readVars, prev, prev_file>>

(* Not taken: the file goes back. *)
PutBack(p) == file' = prev_file[p] /\ end(FALSE) /\ lock' = None

NotTaken(p) ==
  /\ pc[p] \in {"no", "backok", "backwarn"} /\ Go(p, "kept") /\ PutBack(p) /\ Thrown
  /\ (Apart => owed = None \/ owed # prev[p])
  /\ restart' = (restart \/ pc[p] = "backwarn")
  /\ UNCHANGED <<envVars, agentVars, sha, mismatched, boxVars, readVars, prev, prev_file, gen0, newest>>

HeldPrev(p) == prev[p] # None /\ sha = prev[p]

(* It may have been taken: OpenClaw gets back the key it is known to have had.      *)
PasteBack(p) ==
  /\ pc[p] = "half" /\ HeldPrev(p)
  /\ Runs(p, prev[p], "backok", "backwarn", "backno")
  /\ UNCHANGED <<file, envVars, stateVars, lock, boxVars, readVars, prev, prev_file, gen0, newest>>

Halfway(p) ==
  /\ \/ pc[p] = "half" /\ ~HeldPrev(p)
     \/ pc[p] = "backno"
  /\ Go(p, "halfway") /\ mismatch /\ PutBack(p)
  /\ UNCHANGED <<envVars, agentVars, boxVars, readVars, prev, prev_file, gen0, newest>>

(* Cancelled, or broken, after the file was written; a run of the CLI with it. *)
Stopped(p) ==
  /\ lock = p /\ pc[p] \notin {"utells", "uok", "uwarn", "uno"} /\ Go(p, "stopped") /\ mismatch /\ PutBack(p)
  /\ UNCHANGED agentVars \/ (pc[p] = "tells" /\ Paste(key[p])) \/ (pc[p] = "half" /\ HeldPrev(p) /\ Paste(prev[p]))
  /\ UNCHANGED <<envVars, boxVars, readVars, prev, prev_file, gen0, newest>>

-----------------------------------------------------------------------------
(* brain.env's copy, and taking a key back when it cannot be dropped.              *)

EnvWritten(p) ==
  /\ pc[p] = "env" /\ Go(p, "saved")
  /\ env' = None /\ procenv' = None /\ Thrown
  /\ UNCHANGED <<file, agentVars, sha, mismatched, restart, saving, gen, lock, boxVars, readVars, prev, prev_file, gen0, newest>>

EnvFails(p) ==
  /\ pc[p] = "env" /\ Go(p, "undo")
  /\ UNCHANGED <<file, envVars, agentVars, stateVars, lock, boxVars, readVars, prev, prev_file, gen0, newest>>

(* undo: nothing when another save has gone through since. *)
UndoStands(p) ==
  /\ pc[p] = "undo" /\ lock = None /\ gen # gen0[p] /\ Go(p, "stands")
  /\ UNCHANGED <<file, envVars, agentVars, stateVars, lock, boxVars, readVars, prev, prev_file, gen0, newest>>

\* Slip: the save generation is not looked at
UndoSlip(p) ==
  /\ pc[p] = "undo" /\ lock = None
  /\ lock' = p /\ file' = prev_file[p] /\ saving' = {prev[p]} /\ Thrown /\ Go(p, "utells")
  /\ UNCHANGED <<envVars, agentVars, sha, mismatched, restart, gen, boxVars, readVars, prev, prev_file, gen0, newest>>

Undo(p) ==
  /\ pc[p] = "undo" /\ lock = None /\ gen = gen0[p]
  /\ lock' = p /\ file' = prev_file[p] /\ saving' = {prev[p]} /\ Thrown /\ Go(p, "utells")
  /\ UNCHANGED <<envVars, agentVars, sha, mismatched, restart, gen, boxVars, readVars, prev, prev_file, gen0, newest>>

(* It cannot be: another save holds the lock for too long. *)
Unfinished(p) ==
  /\ pc[p] = "undo" /\ lock # None /\ Go(p, "unfinished") /\ mismatch
  /\ UNCHANGED <<file, envVars, agentVars, saving, gen, lock, boxVars, readVars, prev, prev_file, gen0, newest>>

UndoTells(p) ==
  /\ pc[p] = "utells" /\ Runs(p, prev[p], "uok", "uwarn", "uno")
  /\ UNCHANGED <<file, envVars, stateVars, lock, boxVars, readVars, prev, prev_file, gen0, newest>>

(* give() in it, whichever way it came out, and the marker; or stopped: no new generation. *)
Undone(p) ==
  /\ pc[p] \in {"utells", "uok", "uwarn", "uno"} /\ lock' = None /\ newest' = IF newest = p THEN None ELSE newest
  /\ (Apart => owed = None \/ owed # prev[p])
  /\ \/ pc[p] \in {"uok", "uwarn"} /\ Took(prev[p], pc[p] = "uwarn") /\ end(TRUE) /\ Go(p, "undone")
     \/ pc[p] = "uno" /\ mismatch /\ end(TRUE) /\ Go(p, "undone")
     \/ mismatch /\ end(FALSE) /\ Go(p, "stopped")
  /\ UNCHANGED agentVars \/ (pc[p] = "utells" /\ Paste(prev[p]))
  /\ UNCHANGED <<file, envVars, boxVars, readVars, prev, prev_file, gen0>>

-----------------------------------------------------------------------------
(* A crash, and the Restarter of the next brain.                                   *)

Crash ==
  /\ crashes < MaxCrashes /\ crashes' = crashes + 1
  /\ pc' = [p \in Savers |-> IF pc[p] \in Running THEN "stopped" ELSE pc[p]]
  /\ lock' = None /\ procenv' = env /\ looking' = "due" /\ owed' = None
  /\ \/ UNCHANGED agentVars
     \/ \E p \in Savers : \/ pc[p] = "tells" /\ Paste(key[p])
                          \/ (pc[p] = "utells" \/ (pc[p] = "half" /\ HeldPrev(p))) /\ Paste(prev[p])
  /\ UNCHANGED <<file, env, sha, mismatched, restart, saving, gen, readVars, prev, prev_file, gen0, newest>>

\* Slip: the marker of one that did not go through is left
settle_tornLeft ==
  /\ lock = None /\ saving # {} /\ newest' = None
  /\ IF saving \subseteq Keys /\ saving = {sha} /\ saving = {file}
     THEN end(TRUE) /\ Thrown /\ UNCHANGED <<sha, mismatched, restart>>
     ELSE mismatch /\ UNCHANGED <<saving, gen>>
  /\ UNCHANGED <<file, envVars, agentVars, lock, boxVars, pc, readVars, prev, prev_file, gen0>>

\* Slip: a torn save's marker is cleared with no word of it
settle_tornSlip ==
  /\ lock = None /\ saving # {} /\ end(TRUE) /\ Thrown /\ newest' = None
  /\ sha' = file /\ UNCHANGED <<mismatched, restart>>
  /\ UNCHANGED <<file, envVars, agentVars, lock, boxVars, pc, readVars, prev, prev_file, gen0>>

settle_torn ==
  /\ lock = None /\ saving # {} /\ end(TRUE) /\ newest' = None
  /\ IF saving \subseteq Keys /\ saving = {sha} /\ saving = {file}
     THEN Thrown /\ UNCHANGED <<sha, mismatched, restart>>
     ELSE mismatch
  /\ UNCHANGED <<file, envVars, agentVars, lock, boxVars, pc, readVars, prev, prev_file, gen0>>

(* The first look, once nobody is talking: what OpenClaw shows, and the writing of it. *)
unlooked == current_key # None /\ ~mismatched /\ saving = {} /\ sha # current_key

LookStarts ==
  /\ looking = "due"
  /\ looking' = IF ~unlooked THEN "over" ELSE IF oc = current_key THEN "same" ELSE "other"
  /\ UNCHANGED <<file, envVars, agentVars, sha, mismatched, restart, saving, gen, lock, boxVars, pc, readVars, prev, prev_file, gen0, newest>>

LookEnds ==
  /\ looking \in {"same", "other"} /\ looking' = "over"
  /\ IF looking = "same"
     THEN sha' = current_key /\ restart' = FALSE
     ELSE UNCHANGED <<sha, restart>>
  /\ UNCHANGED <<file, envVars, agentVars, mismatched, saving, gen, lock, boxVars, pc, readVars, prev, prev_file, gen0, newest>>

(* A restart owed, once nobody is talking: asked for, then noted as done.           *)
RestartAsked ==
  /\ restart /\ sha # None /\ ~mismatched /\ owed = None /\ looking # "due"
  /\ owed' = sha /\ gw_restarts' = TRUE
  /\ UNCHANGED <<file, envVars, oc, gw, stateVars, lock, crashes, pc, readVars, prev, prev_file, gen0, newest>>

\* Slip: a restart that was owed for another key is crossed off too
RestartNotedSlip ==
  /\ owed # None /\ owed' = None /\ restart' = FALSE /\ Thrown
  /\ UNCHANGED <<file, envVars, agentVars, sha, mismatched, saving, gen, lock, crashes, pc, readVars, prev, prev_file, gen0, newest>>

RestartNoted ==
  /\ owed # None /\ owed' = None
  /\ IF sha = owed THEN restart' = FALSE /\ Thrown ELSE UNCHANGED <<restart, looking>>
  /\ UNCHANGED <<file, envVars, agentVars, sha, mismatched, saving, gen, lock, crashes, pc, readVars, prev, prev_file, gen0, newest>>

(* EXTERNAL Once its own work drains. *)
GatewayRestarts ==
  /\ gw_restarts /\ gw_restarts' = FALSE /\ gw' = oc
  /\ UNCHANGED <<file, envVars, oc, stateVars, lock, boxVars, pc, readVars, prev, prev_file, gen0, newest>>

Steps(p) ==
  \/ Checked(p) \/ Locked(p) \/ Tells(p) \/ TakenByAgent(p) \/ Saved(p) \/ NotTaken(p) \/ PasteBack(p) \/ Halfway(p)
  \/ EnvWritten(p) \/ EnvFails(p) \/ UndoStands(p) \/ Undo(p) \/ UndoTells(p) \/ Undone(p)

(* Every save is over, and nothing is left to settle. *)
Over ==
  /\ \A p \in Savers : pc[p] \in Answers
  /\ saving = {} /\ looking = "over" /\ owed = None /\ UNCHANGED vars

Next ==
  \/ \E p \in Savers : Asked(p) \/ Busy(p) \/ Stopped(p) \/ Unfinished(p) \/ Steps(p)
  \/ Crash \/ settle_torn \/ LookStarts \/ LookEnds
  \/ RestartAsked \/ RestartNoted \/ GatewayRestarts
  \/ Over

Spec == Init /\ [][Next]_vars

(* CLI runs end (they have a timeout); the Restarter looks every POLL_SECS. *)
Fairness ==
  /\ \A p \in Savers : WF_vars(Steps(p))
  /\ WF_vars(settle_torn) /\ WF_vars(LookStarts) /\ WF_vars(LookEnds) /\ WF_vars(RestartAsked) /\ WF_vars(RestartNoted)
FairSpec == Spec /\ Fairness

-----------------------------------------------------------------------------
(* Properties.                                                                   *)

(* No save under way, or torn and not found yet: /health says the two share a key   *)
(* only while they do.                                                             *)
Shared == saving = {} /\ current_key # None /\ ~mismatched /\ sha = current_key
SharedIsTrue == Shared => oc = current_key

(* The gateway of a shared key runs on it, or a restart is owed, or under way.      *)
GatewayIsOwed == Shared => gw = oc \/ restart \/ gw_restarts

(* The newest save that went through stands until a newer one: nothing an older     *)
(* save takes back reaches it.                                                     *)
NewestStands == lock = None /\ saving = {} /\ newest # None => file = key[newest]

(* So the key that the two are said to share is one key. *)
SharedKeyIsTrue == SharedIsTrue /\ GatewayIsOwed /\ NewestStands

(* What is promised: a save torn by a crash is found, and a restart that is owed      *)
(* comes, unless the two are said to differ.                                       *)
Promises == {"torn", "restart"}
AreDue == {p \in Promises : IF p = "torn" THEN saving # {} /\ lock = None ELSE restart /\ ~mismatched}
AreKept == {p \in Promises : IF p = "torn" THEN saving = {} ELSE ~restart \/ mismatched}

=============================================================================
