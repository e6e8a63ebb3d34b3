---------------------------- MODULE MCEngineSwap ----------------------------
(* Three releases of the engine: the second brings no model of its own, the *)
(* third does.  The files are the binary, a dictionary and the model.       *)
EXTENDS EngineSwap

MCContent == <<<<1, 1, 1>>, <<2, 2, 1>>, <<3, 3, 3>>>>
=============================================================================
