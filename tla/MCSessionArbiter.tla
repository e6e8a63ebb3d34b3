-------------------------- MODULE MCSessionArbiter --------------------------
(* Small sets of claims for the session arbiter.                           *)
EXTENDS SessionArbiterInv, TLC

CONSTANTS alice1, alice2, kitchen, call1, call2, phone, alice, MaxClaims

\* Two sessions of one /talk client, one room microphone (which sends no
\* client id), two calls (which all send the same one).
MCClient == [c \in Claims |->
    CASE c \in Talks -> alice
      [] c \in Rooms -> None
      [] c \in Calls -> phone]

CallSymmetry == Permutations(Calls)

\* No more than MaxClaims of them come, whichever.
Come == {c \in Claims : pc[c] # "idle"}
FewCome == Next /\ Cardinality(Come') <= MaxClaims

\* Everyone who could come has, and is over.
NobodyElse ==
    /\ Cardinality(Come) = MaxClaims
    /\ \A c \in Come : pc[c] \in Outcomes /\ (pc[c] = "granted" => c \in released)
    /\ UNCHANGED vars

MCSpec == Init /\ [][FewCome \/ NobodyElse]_vars

=============================================================================
