------------------------------- MODULE Queues -------------------------------
(* What is left of a queue when some of it goes.                            *)
EXTENDS Integers, Sequences, FiniteSets

(* Where s has an element of S. *)
Places(s, S) == {i \in DOMAIN s : s[i] \in S}

(* The k-th of some places. *)
Place(ps, k) == CHOOSE i \in ps : Cardinality({j \in ps : j <= i}) = k

(* What s has at some places, in its order. *)
AtPlaces(s, ps) == [k \in 1..Cardinality(ps) |-> s[Place(ps, k)]]

(* What s has of S, in its order. TLC evaluates an argument wherever it stands *)
(* in a definition: bound, it is evaluated once.                               *)
Only(s, S) ==
  CHOOSE r \in UNION {{AtPlaces(t, ps) : ps \in {Places(t, S)}} : t \in {s}} : TRUE
=============================================================================
