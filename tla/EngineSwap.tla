----------------------------- MODULE EngineSwap -----------------------------
(***************************************************************************)
(* install.sh's way with the engine: a full run, --only engine and         *)
(* --rollback engine, over the files under $PREFIX.  What a run downloads  *)
(* is staged, the live engine is kept under engine.rollback/, a marker     *)
(* stands while the staged files are renamed in one by one, and a run that *)
(* finds the marker puts the kept engine back first.  A run may be stopped *)
(* at any step (SIGKILL, the power), and only the disk is left of it.      *)
(*                                                                         *)
(* A file is its content; a hard link of the kept copy is its content too, *)
(* as nothing here writes into a file in place.  One run at a time:        *)
(* installer_lock.  Not here: a dry run, the EULA, masked units, drop-ins, *)
(* the engine's own restarts by systemd.                                   *)
(***************************************************************************)
EXTENDS Naturals, FiniteSets, Functions

CONSTANTS
  Last,        \* the files, in the order of ENGINE_FILES and then ENGINE_MODELS, are 1..Last
  Models,      \* ENGINE_MODELS
  Content,     \* release |-> file |-> what the manifest's entry for it holds
  Bad,         \* the releases that do not come up here
  MaxRuns,     \* runs started
  MaxStops     \* runs stopped half-way

Releases == DOMAIN Content
File     == 1..Last
Binary   == 1
NoFile   == 0                     \* no file
NoMark   == [kept |-> 0, there |-> FALSE]
Keep     == 2                     \* ENGINE_KEEP

VARIABLES
  live, unit, env,    \* $PREFIX's files, the unit's release, engine.env has the new key
  staged,             \* engine.staged
  copies,             \* engine.rollback: <n> |-> [files, unit]; the newest has the highest
  mark,               \* engine.swapping: there, and the copy it names (0: none)
  up,                 \* what the engine was last started on
  run, pc, todo,      \* the run ("none": no run), where it is, the files its loop has left
  want,               \* the release of its manifest
  changed, kept,      \* ENGINE_CHANGED, ENGINE_KEPT (the copy's n; 0: none)
  target,             \* the copy being put back
  before, added,      \* the unit before, ENV_ADDED
  was,                \* the box as this run found it, a swap stopped before put right
  astray,             \* ghost: a rollback was stopped among its renames, its copy begun:
                      \* "copy"; another rollback has begun since, or a run was stopped
                      \* among the renames that put its engine back: "live"
  ended,              \* how the last run ended
  runs, stops

diskVars == <<live, unit, env, staged, copies, mark>>
runVars  == <<run, pc, todo, want, changed, kept, target, before, added, was>>
count    == <<runs, stops, astray>>
vars     == <<diskVars, up, runVars, ended, count>>

NoFiles == [f \in File |-> NoFile]
IsWhole(files) == \E r \in Releases : files = Content[r]

Init ==
  /\ live = Content[1] /\ unit = 1 /\ env = FALSE      \* a box a first full run set up
  /\ staged = NoFiles /\ copies = [n \in {} |-> 0] /\ mark = NoMark
  /\ up = [files |-> live, unit |-> unit]
  /\ run = "none" /\ pc = "rest" /\ todo = {} /\ want = 0
  /\ changed = {} /\ kept = 0 /\ target = 0 /\ before = 0 /\ added = FALSE
  /\ was = [live |-> live, unit |-> unit, env |-> env]
  /\ ended = "none" /\ runs = 0 /\ stops = 0 /\ astray = "none"

-----------------------------------------------------------------------------
(* Helpers.                                                                 *)

First(fs)   == CHOOSE f \in fs : \A g \in fs : f <= g
IsCopy(n)   == n \in DOMAIN copies
Complete(n) == copies[n].files[Binary] # NoFile
Whole       == {n \in DOMAIN copies : Complete(n)}
Newest      == CHOOSE n \in Whole : \A m \in Whole : m <= n      \* engine_rollback_target
Fresh       == CHOOSE n \in {m + 1 : m \in DOMAIN copies} \cup {1} : \A m \in DOMAIN copies : m < n
Without(n)  == Restrict(copies, DOMAIN copies \ {n})

(* engine_prune: of the complete copies the newest, Keep in all, the one    *)
(* this run made among them wherever it is.                                 *)
Newer(n) == {m \in Whole : m > n}
Pruned   == Restrict(copies, {n \in DOMAIN copies :
              n = kept \/ (n \in Whole /\ Cardinality(Newer(n)) < Keep)})

Goes(where)   == pc' = where
Ends(how)     == run' = "none" /\ pc' = "rest" /\ todo' = {} /\ ended' = how
(* write_env and env_add_missing: the keys this release brings; env_put_back *)
(* takes those an --only run added out again.                               *)
WriteEnv      == env' = TRUE
EnvAddMissing == added' = ~env /\ WriteEnv
EnvPutBack    == env' = (env /\ ~added)
RenderUnit    == unit' = want
KeepRun       == UNCHANGED <<run, want, was>>
Started       == [files |-> live, unit |-> unit]

-----------------------------------------------------------------------------
(* main, main_only_engine, main_rollback_engine: a run begins.              *)
Begins(kind, r) ==
  /\ run = "none" /\ runs < MaxRuns
  /\ run' = kind /\ want' = r /\ runs' = runs + 1
  /\ was' = [live |-> live, unit |-> unit, env |-> env]
  /\ changed' = {} /\ kept' = 0 /\ added' = FALSE /\ before' = unit
  /\ UNCHANGED <<diskVars, up, stops, ended, todo>>

Full(r) == Begins("full", r) /\ Goes("recover") /\ target' = 0 /\ UNCHANGED astray

Only(r) ==
  /\ Begins("only", r) /\ Goes("recover") /\ target' = 0 /\ UNCHANGED astray

Rollback ==
  /\ mark.there \/ Whole # {}
  /\ Begins("rollback", 0)
  /\ IF mark.there THEN Goes("recover") /\ target' = 0 /\ UNCHANGED astray
     ELSE /\ Goes("keep") /\ target' = Newest
          /\ astray' = IF astray = "copy" THEN "live" ELSE astray

\* Slip: a marker left by a run that was stopped is only removed.
RecoverSlip ==
  /\ pc = "recover"
  /\ Goes("fetch") /\ todo' = File /\ mark' = NoMark
  /\ KeepRun
  /\ UNCHANGED <<live, unit, env, staged, copies, up, changed, kept, target, before, added, ended, count>>

(* engine_swap_recover: a marker still there.                               *)
Recover ==
  /\ pc = "recover"
  /\ IF mark.there /\ IsCopy(mark.kept) /\ Complete(mark.kept)
     THEN Goes("recovering") /\ target' = mark.kept /\ todo' = File /\ UNCHANGED mark
     ELSE Goes("fetch") /\ todo' = File /\ mark' = NoMark /\ UNCHANGED target
  /\ KeepRun
  /\ UNCHANGED <<live, unit, env, staged, copies, up, changed, kept, before, added, ended, count>>

(* engine_restore: a rename per file of the copy, then its unit, and the    *)
(* copy is gone.  The same loop in each of its four callers.                *)
PuttingBack == pc \in {"recovering", "aborting", "backing", "restoring"}
RestoreFile ==
  /\ PuttingBack /\ todo # {}
  /\ LET f == First(todo)  c == copies[target].files[f] IN
       /\ IF c = NoFile THEN UNCHANGED <<live, copies>>
          ELSE /\ live' = [live EXCEPT ![f] = c]
               /\ copies' = [copies EXCEPT ![target].files[f] = NoFile]
       /\ todo' = todo \ {f}
  /\ KeepRun
  /\ UNCHANGED <<unit, env, staged, mark, up, pc, changed, kept, target, before, added, ended, count>>

(* A run ends among the renames back: a copy begun is no rollback target,   *)
(* and no run puts it back: the next leaves what is live.                   *)
Begun  == PuttingBack /\ ~Complete(target)
Strays == astray' = IF Begun /\ pc = "restoring" /\ astray = "none" THEN "copy"
                    ELSE IF Begun /\ pc # "restoring" /\ todo # {} THEN "live"
                    ELSE astray

RestoreFails ==       \* a rename back is refused: what is left stays in the copy
  /\ PuttingBack /\ todo # {} /\ stops < MaxStops
  /\ copies[target].files[First(todo)] # NoFile
  /\ stops' = stops + 1
  /\ Ends("died") /\ Strays
  /\ UNCHANGED <<diskVars, up, want, was, changed, kept, target, before, added, runs>>

(* What its callers do once all is back.                                    *)
Restored(where) ==
  /\ pc = where /\ todo = {}
  /\ unit' = IF copies[target].unit # 0 THEN copies[target].unit ELSE unit
  /\ copies' = Without(target)
  /\ UNCHANGED <<live, staged, up, changed, kept, target, before, want, count>>

Recovered ==          \* engine_swap_recover
  /\ Restored("recovering")
  /\ mark' = NoMark
  /\ Goes("fetch") /\ todo' = File
  /\ was' = [live |-> live, unit |-> unit', env |-> env]
  /\ UNCHANGED <<run, env, added, ended>>

Aborted ==            \* engine_swap_abort: and the run stops
  /\ Restored("aborting")
  /\ mark' = NoMark
  /\ Ends("aborted")
  /\ UNCHANGED <<env, added, was>>

RolledBack ==         \* main_rollback_engine
  /\ Restored("restoring")
  /\ mark' = NoMark
  /\ Goes("restart")
  /\ UNCHANGED <<run, todo, env, added, was, ended>>

\* Slip: the keys this run added to engine.env stay.
PutBackSlip ==
  /\ Restored("backing")
  /\ Goes("again")
  /\ UNCHANGED <<run, env, todo, mark, added, was, ended>>

PutBack ==            \* engine_swap
  /\ Restored("backing")
  /\ EnvPutBack
  /\ Goes("again")
  /\ UNCHANGED <<run, todo, mark, added, was, ended>>

-----------------------------------------------------------------------------
(* phase_engine.                                                            *)

(* engine_fetch: what differs from the live file is downloaded, unless the  *)
(* stage has it of this very release.                                       *)
Fetch ==
  /\ pc = "fetch" /\ run # "rollback" /\ todo # {}
  /\ LET f == First(todo)  c == Content[want][f] IN
       /\ IF live[f] = c
          THEN staged' = [staged EXCEPT ![f] = NoFile] /\ UNCHANGED changed
          ELSE staged' = [staged EXCEPT ![f] = c] /\ changed' = changed \cup {f}
       /\ todo' = todo \ {f}
  /\ KeepRun
  /\ UNCHANGED <<live, unit, env, copies, mark, up, pc, kept, target, before, added, ended, count>>

(* A download that fails, or a binary whose libraries are not all here.     *)
Missing ==
  /\ pc = "fetch" /\ run # "rollback" /\ todo # {}
  /\ live[First(todo)] # Content[want][First(todo)]
  /\ Ends("untouched")
  /\ UNCHANGED <<diskVars, up, want, was, changed, kept, target, before, added, count>>

Fetched ==
  /\ pc = "fetch" /\ (run = "rollback" \/ todo = {})
  /\ IF run = "rollback" THEN Goes("restart") /\ UNCHANGED <<env, added>>
     ELSE /\ Goes(IF changed = {} THEN "render" ELSE "keep")
          /\ IF run = "only" THEN EnvAddMissing ELSE UNCHANGED <<env, added>>
  /\ todo' = {}
  /\ staged' = IF run # "rollback" /\ changed = {} THEN NoFiles ELSE staged
  /\ KeepRun
  /\ UNCHANGED <<live, unit, copies, mark, up, changed, kept, target, before, ended, count>>

-----------------------------------------------------------------------------
(* engine_swap_in, and the rollback's own keeping.                          *)

(* engine_keep_live: built aside and renamed whole.  The files that are     *)
(* replaced are kept, and all of the release's own; a model that stays is   *)
(* in neither.                                                              *)
Replacing == IF run = "rollback"
             THEN {f \in File : copies[target].files[f] # NoFile}
             ELSE changed
Kept == [files |-> [f \in File |-> IF f \in Models /\ f \notin Replacing THEN NoFile ELSE live[f]],
         unit  |-> unit]
KeepLive ==
  /\ pc = "keep"
  /\ kept' = Fresh
  /\ copies' = [n \in DOMAIN copies \cup {kept'} |-> IF n = kept' THEN Kept ELSE copies[n]]
  /\ Goes("mark")
  /\ KeepRun
  /\ UNCHANGED <<live, unit, env, staged, mark, up, todo, changed, target, before, added, ended, count>>

CannotKeep ==         \* a full disk: the run stops before anything moved
  /\ pc = "keep"
  /\ Ends("untouched")
  /\ UNCHANGED <<diskVars, up, want, was, changed, kept, target, before, added, count>>

Mark ==
  /\ pc = "mark"
  /\ IF run = "rollback"
     THEN /\ mark' = IF kept # 0 THEN [kept |-> kept, there |-> TRUE] ELSE mark
          /\ Goes("restoring") /\ todo' = File
     ELSE /\ mark' = [kept |-> kept, there |-> TRUE]
          /\ Goes("move") /\ todo' = changed
  /\ KeepRun
  /\ UNCHANGED <<live, unit, env, staged, copies, up, changed, kept, target, before, added, ended, count>>

Move ==
  /\ pc = "move" /\ todo # {}
  /\ LET f == First(todo) IN
       /\ live' = [live EXCEPT ![f] = staged[f]]
       /\ staged' = [staged EXCEPT ![f] = NoFile]
       /\ todo' = todo \ {f}
  /\ KeepRun
  /\ UNCHANGED <<unit, env, copies, mark, up, pc, changed, kept, target, before, added, ended, count>>

(* engine_swap_abort: a rename fails, or Ctrl-C comes among them.           *)
Abort ==
  /\ pc = "move"
  /\ IF kept # 0 THEN Goes("aborting") /\ target' = kept /\ todo' = File /\ UNCHANGED <<run, ended>>
     ELSE Ends("died") /\ UNCHANGED target
  /\ UNCHANGED <<diskVars, up, want, was, changed, kept, before, added, count>>

Moved ==
  /\ pc = "move" /\ todo = {}
  /\ mark' = NoMark /\ staged' = NoFiles
  /\ copies' = Pruned
  /\ Goes("render")
  /\ KeepRun
  /\ UNCHANGED <<live, unit, env, up, todo, changed, kept, target, before, added, ended, count>>

-----------------------------------------------------------------------------
(* engine_swap's second half, and phase_services for a full run.            *)

Render ==
  /\ pc = "render"
  /\ RenderUnit /\ WriteEnv
  /\ \/ Goes("restart")
     \/ run = "only" /\ changed = {} /\ before = want /\ ~added /\ Goes("check")
  /\ KeepRun
  /\ UNCHANGED <<live, staged, copies, mark, up, todo, changed, kept, target, before, added, ended, count>>

(* engine_restart, and engine_verify: it listens, in the invocation it was  *)
(* started in, and stays.  A good engine may be too slow all the same.      *)
Verified(comesUp) == comesUp => \A r \in Bad : Started.files # Content[r]

Restart(comesUp) ==
  /\ pc = "restart" /\ Verified(comesUp)
  /\ up' = Started
  /\ IF comesUp \/ run = "full" THEN copies' = (IF run = "rollback" THEN Pruned ELSE copies) /\ Ends("ok") /\ UNCHANGED target
     ELSE IF run = "rollback" THEN Ends("died") /\ UNCHANGED <<copies, target>>
     ELSE /\ Goes("back") /\ UNCHANGED <<run, todo, copies, target, ended>>
  /\ UNCHANGED <<live, unit, env, staged, mark, want, was, changed, kept, before, added, count>>

(* Nothing changed and the engine runs: it is checked, not restarted.       *)
Check(well) ==
  /\ pc = "check" /\ Verified(well)
  /\ Ends(IF well THEN "ok" ELSE "died")
  /\ UNCHANGED <<diskVars, up, want, was, changed, kept, target, before, added, count>>

(* The engine did not come back: what this run changed is put back.         *)
Back ==
  /\ pc = "back"
  /\ IF kept # 0
     THEN /\ Goes("backing") /\ target' = kept /\ todo' = File
          /\ UNCHANGED <<run, unit, env, added, ended>>
     ELSE /\ unit' = before
          /\ EnvPutBack
          /\ IF unit' # unit \/ added THEN Goes("again") /\ UNCHANGED <<run, todo, ended>> ELSE Ends("died")
          /\ UNCHANGED <<target, added>>
  /\ UNCHANGED <<live, staged, copies, mark, up, want, was, changed, kept, before, count>>

Again ==
  /\ pc = "again"
  /\ up' = Started
  /\ Ends("back")
  /\ UNCHANGED <<diskVars, want, was, changed, kept, target, before, added, count>>

(* SIGKILL, or the power: the box then starts on what is live.              *)
Stopped(boots) ==
  /\ run # "none" /\ stops < MaxStops
  /\ stops' = stops + 1
  /\ up' = IF boots THEN Started ELSE up
  /\ Ends("stopped") /\ Strays
  /\ UNCHANGED <<diskVars, want, was, changed, kept, target, before, added, runs>>

Rest == run = "none" /\ runs = MaxRuns /\ UNCHANGED vars

-----------------------------------------------------------------------------
Next ==
  \/ \E r \in Releases : Full(r) \/ Only(r)
  \/ Rollback \/ Recover \/ RestoreFile \/ RestoreFails
  \/ Recovered \/ Aborted \/ RolledBack \/ PutBack
  \/ Fetch \/ Missing \/ Fetched
  \/ KeepLive \/ CannotKeep \/ Mark \/ Move \/ Abort \/ Moved
  \/ Render \/ Back \/ Again
  \/ \E b \in BOOLEAN : Restart(b) \/ Check(b) \/ Stopped(b)
  \/ Rest

Spec == Init /\ [][Next]_vars

-----------------------------------------------------------------------------
TypeOK ==
  /\ live \in [File -> Nat] /\ staged \in [File -> Nat]
  /\ unit \in {0} \cup Releases /\ env \in BOOLEAN
  /\ DOMAIN copies \subseteq Nat \ {0}
  /\ \A n \in DOMAIN copies : copies[n].files \in [File -> Nat]
  /\ changed \subseteq File /\ kept \in Nat

(* With no run going on and no marker standing the files are one release's, *)
(* the binary and all it reads, and so would be with the newest kept engine *)
(* put back over them; wherever runs were stopped, but among the renames    *)
(* that put an engine back.  There a stop, even the only one, may leave two *)
(* releases and no marker, or one that names a copy begun; and a copy that  *)
(* is over another, half put back, may lack the other's models.             *)
Calm    == run = "none" /\ ~mark.there
Over(n) == [f \in File |-> IF copies[n].files[f] # NoFile THEN copies[n].files[f] ELSE live[f]]
InstallIsWhole ==
  Calm => /\ astray # "live" => IsWhole(live)
          /\ astray = "none" /\ Whole # {} => IsWhole(Over(Newest))

(* Of the newest kept engine the installer says that a model it does not    *)
(* hold is the same in both: but where live is itself put back in part.     *)
SameInBoth ==
  Calm /\ Whole # {} /\ astray # "live" => IsWhole(Over(Newest))

(* A run that ends well leaves what its manifest names, or with --rollback  *)
(* a whole engine, running; one that says it put things back left the       *)
(* files, the unit and the keys as it found them; one that could not swap,  *)
(* or nothing to swap in, the files and the unit (the keys stay added).     *)
Now == [live |-> live, unit |-> unit, env |-> env]
AsTold ==
  [][run # "none" /\ run' = "none" =>
       /\ ended' = "ok" => /\ pc # "check" => up' = [files |-> live', unit |-> unit']
                           /\ astray # "live" => IsWhole(live')
                           /\ run # "rollback" => live' = Content[want] /\ unit' = want
       /\ ended' = "back" => Now' = was
       /\ ended' \in {"aborted", "untouched"} => live' = was.live /\ unit' = was.unit]_vars
=============================================================================
