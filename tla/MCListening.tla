---------------------------- MODULE MCListening -----------------------------
(* The parts share no state, so that one goes on at a time (`scene`) and the*)
(* others stay as they begin: what a part does is the same either way.      *)
EXTENDS Listening, Naturals

VARIABLE scene   \* the part that goes on

MCInit ==
  /\ Init
  /\ scene \in {"pause", "turn", "ahead", "control", "voice", "mic"}
  /\ scene # "ahead" => mode = "peeks" /\ ~bot_ahead
  /\ scene # "control" => ~mayCross /\ ~timely /\ text_control = [f \in Run!Frames |-> NoWords]
  /\ scene = "control" => mayCross = timely
  /\ scene # "voice" => new /\ ~slow
  /\ scene # "mic" => wake_mode

MCNext ==
  /\ UNCHANGED scene
  /\ \/ scene = "pause" /\ PauseGoes
     \/ scene = "turn" /\ TurnGoes
     \/ scene = "ahead" /\ AheadGoes
     \/ scene = "control" /\ ControlGoes
     \/ scene = "voice" /\ VoiceGoes /\ (slow => starts_voice' <= 1)
     \/ scene = "mic" /\ MicGoes

MCSpec == MCInit /\ [][MCNext]_<<scene, vars>>
=============================================================================
