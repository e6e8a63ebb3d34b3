----------------------------- MODULE BrainSwap ------------------------------
(***************************************************************************)
(* install.sh's way with the brain: --only brain, --rollback brain and the *)
(* brain's part of a full run.  Each release is a venv of its own, and     *)
(* $PREFIX/venv a link to the live one; the release's operator tools flip  *)
(* with it; the brain is restarted on it and watched, and what was there   *)
(* before is put back when it does not stay up.  On the way the retired    *)
(* teaport-sip-brain unit is detached, and put back or removed.            *)
(*                                                                         *)
(* Release 0 is the pre-uv venv, which can only run from the link's own    *)
(* path.  A run may be stopped at any step: by Ctrl-C (its EXIT trap runs) *)
(* or for good (SIGKILL, the power).                                       *)
(***************************************************************************)
EXTENDS Naturals, FiniteSets

CONSTANTS
  Max,       \* releases built: 1..Max
  First,     \* what is live at first: a release, 0 the pre-uv venv
  PhoneIn,     \* the releases whose brain is the phone line's front-end itself
  Bad,       \* the releases that do not stay up
  MaxStops,  \* runs stopped
  WithOld    \* the box still has the teaport-sip-brain unit

Release == 0..Max
Nothing == 100              \* no release
Keep    == 3                \* BRAIN_KEEP

VARIABLES
  venvs,      \* the complete venvs on disk; the pre-uv one among them
  link,       \* $PREFIX/venv: a release, or Nothing while the pre-uv venv moves
  prev,       \* $PREFIX/venv.previous
  toolsOf,    \* the releases with operator tools of their own
  current,    \* whose tools are installed (Nothing: plain files, the first release's)
  up,         \* what the brain runs on
  unit, old,  \* teaport-sip-brain.service is there; it runs
  gateway,    \* the gateway's unit: "tied" to the old one, "free"
  saved,      \* teaport-sip.service.pre-detach is there
  dropin,     \* the Talk drop-in: "there", "pending" (parked), "retired"
  moved,      \* its tuning is in brain.env
  run, pc,    \* the run and where it is
  staged,     \* STAGED, or the rollback's target; back, what was before
  from,       \* what the link named when it was moved
  back,       \* the run puts the previous one back
  detached,   \* SIP_BRAIN_DETACHED
  active,     \* SIP_BRAIN_WAS_ACTIVE
  ours,       \* SIP_GW_SAVED and DROPINS_PARKED, as this run knows them
  was,        \* the box as the run found it, and put right
  ended, built, stops

tools   == <<toolsOf, current>>
brain   == <<venvs, link, prev, up>>
sip     == <<unit, old, gateway, saved, dropin, moved>>
flags   == <<detached, active, ours>>
move    == <<staged, from, back>>
vars    == <<tools, brain, sip, flags, move, run, pc, was, ended, built, stops>>

Sip == [unit |-> unit, old |-> old, gateway |-> gateway, dropin |-> dropin]
Box == [link |-> link, up |-> up, sip |-> Sip]
NoOurs == [gateway |-> FALSE, dropin |-> FALSE]

Init ==
  /\ venvs = {First} /\ link = First /\ prev = Nothing /\ up = First
  /\ toolsOf = {} /\ current = Nothing
  /\ unit = WithOld /\ old = WithOld
  /\ gateway = (IF WithOld THEN "tied" ELSE "free") /\ saved = FALSE
  /\ dropin = (IF WithOld THEN "there" ELSE "retired") /\ moved = ~WithOld
  /\ run = "none" /\ pc = "rest" /\ staged = First /\ from = Nothing /\ back = FALSE
  /\ detached = FALSE /\ active = FALSE /\ ours = NoOurs
  /\ was = Box /\ ended = "none" /\ built = First /\ stops = 0

-----------------------------------------------------------------------------
Goes(where) == pc' = where
\* Slip: the Talk drop-ins that were parked stay parked.
RestoresSlip ==
  IF ~detached THEN UNCHANGED <<sip, flags>>
  ELSE /\ gateway' = IF ours.gateway /\ saved THEN "tied" ELSE gateway
       /\ saved' = IF ours.gateway THEN FALSE ELSE saved
       /\ old' = IF active THEN TRUE ELSE old
       /\ detached' = FALSE /\ ours' = NoOurs
       /\ UNCHANGED <<unit, dropin, moved, active>>

(* sip_brain_restore, the EXIT trap: what this run undid is done again.     *)
Restores ==
  IF ~detached THEN UNCHANGED <<sip, flags>>
  ELSE /\ gateway' = IF ours.gateway /\ saved THEN "tied" ELSE gateway
       /\ saved' = IF ours.gateway THEN FALSE ELSE saved
       /\ dropin' = IF ours.dropin THEN "there" ELSE dropin
       /\ old' = IF active THEN TRUE ELSE old
       /\ detached' = FALSE /\ ours' = NoOurs
       /\ UNCHANGED <<unit, moved, active>>
Exits(how) == run' = "none" /\ pc' = "rest" /\ ended' = how /\ Restores
Goes2(where) == Goes(where) /\ UNCHANGED <<run, ended>>
Steady == UNCHANGED <<was, built, stops>>

\* Slip: only the live one is spared.
PrunedSlip(vs) ==
  LET spare == vs \ {link, 0}
  IN  {v \in vs : v = link \/ (v \in spare /\ Cardinality({w \in spare : w > v}) < Keep)}

(* brain_prune: the newest Keep of those that are neither live nor the      *)
(* rollback target; the pre-uv venv only while it is one of the two.        *)
Pruned(vs) ==
  LET spare == vs \ {link, prev, 0}
  IN  {v \in vs : v \in {link, prev} \/ (v \in spare /\ Cardinality({w \in spare : w > v}) < Keep)}
PruneTools(vs) == {t \in toolsOf : t \in vs \/ t = current}

Begins(kind) ==
  /\ run = "none"
  /\ run' = kind /\ was' = Box /\ from' = Nothing /\ back' = FALSE
  /\ detached' = FALSE /\ active' = FALSE /\ ours' = NoOurs
  /\ UNCHANGED <<tools, brain, sip, ended, built, stops>>

Only     == built < Max /\ link # Nothing /\ Begins("only") /\ Goes("stage") /\ UNCHANGED staged
Full     == built < Max /\ Begins("full") /\ Goes("stage") /\ UNCHANGED staged
Rollback == prev \in venvs /\ Begins("rollback") /\ Goes("tools") /\ staged' = prev

(* brain_stage, brain_stage_tools: built beside the live one, checked.      *)
Stage ==
  /\ pc = "stage"
  /\ built' = built + 1 /\ staged' = built + 1
  /\ venvs' = Pruned(venvs) \cup {built + 1}
  /\ toolsOf' = PruneTools(venvs') \cup {built + 1}
  /\ Goes2("detach")
  /\ UNCHANGED <<link, prev, up, current, sip, flags, from, back, was, stops>>

NotBuilt ==           \* uv sync, the record or the self-check fails
  /\ pc = "stage"
  /\ venvs' = Pruned(venvs) /\ toolsOf' = PruneTools(venvs')
  /\ Exits("untouched")
  /\ UNCHANGED <<link, prev, up, current, move, was, built, stops>>

-----------------------------------------------------------------------------
(* sip_brain_detach.                                                        *)
NothingToDetach ==
  /\ pc = "detach" /\ ~unit
  /\ Goes2("tools")
  /\ Steady /\ UNCHANGED <<tools, brain, sip, flags, move>>

(* What an earlier run left half-way is put back first.                     *)
Detach ==
  /\ pc = "detach" /\ unit
  /\ dropin' = IF dropin = "pending" THEN "there" ELSE dropin
  /\ gateway' = IF saved THEN "tied" ELSE gateway
  /\ saved' = FALSE
  /\ active' = old /\ detached' = TRUE
  /\ Goes2("migrate")
  /\ UNCHANGED <<tools, brain, unit, old, moved, ours, move, built, stops>>
  /\ was' = [was EXCEPT !.sip = Sip']

(* migrate_brain_dropins: brain.env in one replacement, then the parking.   *)
Migrate ==
  /\ pc = "migrate"
  /\ moved' = TRUE
  /\ Goes2("park")
  /\ Steady /\ UNCHANGED <<tools, brain, unit, old, gateway, saved, dropin, flags, move>>

NotMigrated ==
  /\ pc = "migrate"
  /\ Exits("untouched")
  /\ Steady /\ UNCHANGED <<tools, brain, move>>

Park ==
  /\ pc = "park"
  /\ dropin' = IF dropin = "there" THEN "pending" ELSE dropin
  /\ ours' = [ours EXCEPT !.dropin = dropin = "there"]
  /\ Goes2("free")
  /\ Steady /\ UNCHANGED <<tools, brain, unit, old, gateway, saved, moved, detached, active, move>>

(* The gateway's unit is kept aside before it is cut loose, and only then   *)
(* is the old unit stopped: it would take the gateway along.                *)
Free ==
  /\ pc = "free"
  /\ saved' = (gateway = "tied") /\ ours' = [ours EXCEPT !.gateway = gateway = "tied"]
  /\ gateway' = "free"
  /\ Goes2("stop")
  /\ Steady /\ UNCHANGED <<tools, brain, unit, old, dropin, moved, detached, active, move>>

StopOld ==
  /\ pc = "stop"
  /\ old' = FALSE
  /\ Goes2(IF run = "full" THEN "retire" ELSE "tools")
  /\ Steady /\ UNCHANGED <<tools, brain, unit, gateway, saved, dropin, moved, flags, move>>

(* sip_brain_retire.  The trap goes first.                                  *)
Retire ==
  /\ pc = "retire"
  /\ unit' = FALSE /\ old' = FALSE
  /\ dropin' = IF dropin = "pending" THEN "retired" ELSE dropin
  /\ saved' = FALSE /\ detached' = FALSE /\ ours' = NoOurs
  /\ IF run = "full" THEN Goes2("tools") ELSE Goes2("prune")
  /\ Steady /\ UNCHANGED <<tools, brain, gateway, moved, active, move>>

-----------------------------------------------------------------------------
(* brain_point_at: the tools, then the link, then what it replaced.         *)

(* tools_point_at.  Tools that are still plain files were the live          *)
(* release's, and become its copy first (tools_adopt).                      *)
Tools ==
  /\ pc = "tools"
  /\ LET adopt == current = Nothing /\ link # Nothing IN
       /\ toolsOf' = IF adopt THEN toolsOf \cup {link} ELSE toolsOf
       /\ current' = IF staged \in toolsOf' THEN staged ELSE IF adopt THEN link ELSE current
  /\ from' = link
  /\ Goes2("aside")
  /\ Steady /\ UNCHANGED <<brain, sip, flags, staged, back>>

(* The pre-uv venv leaves the link's path, or the link leaves it to it.     *)
Aside ==
  /\ pc = "aside"
  /\ link' = IF 0 \in {link, staged} THEN Nothing ELSE link
  /\ Goes2("link")
  /\ Steady /\ UNCHANGED <<tools, venvs, prev, up, sip, flags, move>>

Point ==
  /\ pc = "link"
  /\ link' = staged
  /\ Goes2("previous")
  /\ Steady /\ UNCHANGED <<tools, venvs, prev, up, sip, flags, move>>

Previous ==
  /\ pc = "previous"
  /\ prev' = IF from \notin {Nothing, staged} THEN from ELSE prev
  /\ Goes2(IF back THEN "restore" ELSE "restart")
  /\ Steady /\ UNCHANGED <<tools, venvs, link, up, sip, flags, move>>

-----------------------------------------------------------------------------
(* brain_restart, brain_verify: the brain answers, in the invocation it was *)
(* started in, and stays.  A full run only restarts it.                     *)
Restart ==
  /\ pc = "restart"
  /\ up' = link
  /\ Goes2(IF run = "full" THEN "prune" ELSE "verify")
  /\ Steady /\ UNCHANGED <<tools, venvs, link, prev, sip, flags, move>>

Verified ==
  /\ pc = "verify" /\ up \notin Bad
  /\ IF back THEN Exits("back")
     ELSE IF run = "rollback" THEN Exits("ok")
     ELSE Goes2(IF unit THEN "retire" ELSE "prune") /\ UNCHANGED <<sip, flags>>
  /\ Steady /\ UNCHANGED <<tools, brain, move>>

(* A good one may be too slow to answer, all the same.  The previous one is *)
(* put back, once, and only if there is one.                                *)
Failed ==
  /\ pc = "verify"
  /\ IF run = "only" /\ ~back /\ prev \in venvs
     THEN /\ staged' = prev /\ back' = TRUE
          /\ Goes2("tools") /\ UNCHANGED <<sip, flags>>
     ELSE Exits("died") /\ UNCHANGED <<staged, back>>
  /\ Steady /\ UNCHANGED <<tools, brain, from>>

(* The phone line's old brain comes back with its release, and the venv     *)
(* that failed is nothing to roll back to.                                  *)
Restore ==
  /\ pc = "restore"
  /\ Restores
  /\ Goes2("forget")
  /\ Steady /\ UNCHANGED <<tools, brain, move>>

Forget ==
  /\ pc = "forget"
  /\ prev' = Nothing
  /\ Goes2("restart")
  /\ Steady /\ UNCHANGED <<tools, venvs, link, up, sip, flags, move>>

Prune ==
  /\ pc = "prune"
  /\ venvs' = Pruned(venvs) /\ toolsOf' = PruneTools(venvs')
  /\ Exits("ok")
  /\ Steady /\ UNCHANGED <<link, prev, up, current, move>>

-----------------------------------------------------------------------------
(* Ctrl-C, or a command that fails: the EXIT trap.                          *)
Stopped ==
  /\ run # "none" /\ stops < MaxStops
  /\ Exits("stopped") /\ stops' = stops + 1
  /\ UNCHANGED <<tools, brain, move, was, built>>

(* The power: no trap, and the box boots into what the disk has.            *)
Boots ==
  /\ run # "none" /\ stops < MaxStops
  /\ run' = "none" /\ pc' = "rest" /\ ended' = "boot" /\ stops' = stops + 1
  /\ up' = link /\ old' = unit
  /\ UNCHANGED <<tools, venvs, link, prev, unit, gateway, saved, dropin, moved, flags, move, was, built>>

Rest == run = "none" /\ built = Max /\ UNCHANGED vars

-----------------------------------------------------------------------------
Next ==
  \/ Only \/ Full \/ Rollback \/ Stage \/ NotBuilt
  \/ NothingToDetach \/ Detach \/ Migrate \/ NotMigrated \/ Park \/ Free \/ StopOld \/ Retire
  \/ Tools \/ Aside \/ Point \/ Previous
  \/ Restart \/ Verified \/ Failed \/ Restore \/ Forget \/ Prune
  \/ Stopped \/ Boots \/ Rest

Spec == Init /\ [][Next]_vars

-----------------------------------------------------------------------------
TypeOK ==
  /\ venvs \subseteq Release /\ toolsOf \subseteq Release
  /\ {link, prev, up, current, staged, from} \subseteq Release \cup {Nothing}
  /\ unit \in BOOLEAN /\ old \in BOOLEAN /\ saved \in BOOLEAN /\ moved \in BOOLEAN
  /\ gateway \in {"tied", "free"} /\ dropin \in {"there", "pending", "retired"}

(* Whatever stopped where: the link names a venv that is there, what runs   *)
(* and the way back to it are never pruned, and the installed tools are     *)
(* there.  Only the pre-uv venv's own move leaves the link's path empty,    *)
(* and then that venv is beside it, until another run begins.               *)
InstallIsWhole ==
  /\ IF link # Nothing THEN link \in venvs ELSE from # Nothing => 0 \in venvs
  /\ prev \in venvs \cup {Nothing}
  /\ current \in toolsOf \cup {Nothing}

(* How a run that was not stopped ends.  Well: the brain runs on what the   *)
(* link names, with its release's tools, and the old SIP brain is not       *)
(* beside it.  Rolled back, or with nothing swapped: the link, the running  *)
(* brain and the phone line are as the run found them.  However it ends,    *)
(* the old SIP brain runs beside one that answers the phone itself only if  *)
(* it did before, or after a rollback, which leaves its unit alone.         *)
BrainAsTold ==
  [][run # "none" /\ run' = "none" =>
       /\ ended' = "ok" => /\ up' = link' /\ link' = staged /\ current' = link'
                           /\ run # "rollback" => ~old' /\ ~unit' /\ gateway' = "free"
       /\ ended' = "back" => /\ link' = was.link /\ up' = was.link /\ current' = link'
                             /\ Sip' = was.sip
       /\ ended' = "untouched" => Box' = was
       /\ run # "rollback" /\ ended' \notin {"stopped", "boot"} /\ old' /\ up' \in PhoneIn =>
            was.sip.old /\ {was.up, was.link} \cap PhoneIn # {}]_vars
=============================================================================
