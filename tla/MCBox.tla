------------------------------- MODULE MCBox --------------------------------
(* The parts share no state, so that one goes on at a time (`scene`) and the*)
(* others stay as they begin: what a part does is the same either way.      *)
EXTENDS Box, Naturals

CONSTANTS call1, call2, call3

VARIABLE scene   \* the part that goes on

\* Each engine's binary, dictionary and model: the second has no model of its own.
MCContent == <<<<1, 1, 1>>, <<2, 2, 1>>, <<3, 3, 3>>>>

\* The calls come one after the other: call1 is the first.  A bound: of a gateway
\* that overlaps calls, or answers them by itself, two; the third comes only while
\* something of the first is left, as with nothing of it there are two again.
Came == {c \in Calls : gw[c] # "none"}
FirstIsLeft ==
  \/ \E i \in DOMAIN inbox : inbox[i].call = call1
  \/ bring[call1] \notin {"none", "over"} \/ pipe[call1] \in {"running", "dying"}
  \/ call1 \in {ring, setup, active} \cup claims \cup busy
  \/ down[call1] \in {"runner", "settle"}
  \/ \E t \in DOMAIN tear : t[1] = call1 /\ tear[t] # "no"
InTurn ==
  \/ Came' \in {{}, {call1}, {call1, call2}}
  \/ Came' = Calls /\ (Came = Calls \/ (~overlap /\ ~autoAnswer /\ FirstIsLeft))

\* A bound: the last run of the installer is no full one.
LastRun == runs < runs' /\ runs' = MaxRuns => run' # "full"

MCInit ==
  /\ Init
  /\ scene \in {"held", "line", "pair", "device", "key", "phone", "wifi",
      "engine", "venvs"}
  /\ scene # "held" => greeting = "due"
  /\ scene # "line" => ~overlap /\ ~autoAnswer /\ \A c \in Calls : gw[c] = "none"
  /\ scene = "line" => (overlap => autoAnswer) /\ Came \subseteq {call1}
  /\ scene # "key" => env = FirstKey /\ oc = FirstKey /\ sha = FirstKey
  /\ scene # "wifi" => ap = "none"

MCNext ==
  /\ UNCHANGED scene
  /\ \/ scene = "held" /\ HeldGoes
     \/ scene = "line" /\ LineGoes /\ InTurn
     \/ scene = "pair" /\ PairGoes
     \/ scene = "device" /\ DeviceGoes
     \/ scene = "key" /\ KeyGoes
     \/ scene = "phone" /\ PhoneGoes
     \/ scene = "wifi" /\ WifiGoes
     \/ scene = "engine" /\ EngineGoes /\ LastRun
     \/ scene = "venvs" /\ VenvsGoes

MCSpec == MCInit /\ [][MCNext]_<<scene, vars>>
=============================================================================
