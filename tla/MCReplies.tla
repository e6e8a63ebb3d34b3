----------------------------- MODULE MCReplies ------------------------------
(* The parts share no state, so that one goes on at a time (`scene`) and the*)
(* others stay as they begin: what a part does is the same either way.      *)
EXTENDS Replies

VARIABLE scene   \* the part that goes on

MCSpokenAs == {<<"a", "b">>}
MCAskedAs == <<"a", "b", "a">>
MCFinallyAs == <<"a", "d", None>>

MCInit ==
  /\ Init
  /\ scene \in {"book", "gate", "notes", "ledger", "hold", "slices",
      "corrects"}

MCNext ==
  /\ UNCHANGED scene
  /\ \/ scene = "book" /\ BookGoes
     \/ scene = "gate" /\ GateGoes
     \/ scene = "notes" /\ NotesGoes
     \/ scene = "ledger" /\ LedgerGoes
     \/ scene = "hold" /\ HoldGoes
     \/ scene = "slices" /\ SlicesGoes
     \/ scene = "corrects" /\ CorrectsGoes

MCSpec == MCInit /\ [][MCNext]_<<scene, vars>>
=============================================================================
