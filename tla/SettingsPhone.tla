---------------------------- MODULE SettingsPhone ----------------------------
(* The owner's phone at Teaport's settings (settings_access.py) and its OpenRouter     *)
(* sign-in (openrouter_connect.py): a one-time code opens a session; a sign-in started   *)
(* in it goes to OpenRouter and comes back with a code, which is exchanged with that     *)
(* sign-in's verifier for a key; a key that could not be saved is held to save again.    *)
(*                                                                                 *)
(* Clocks count down, the session's longest, in the order of the code's constants.      *)
EXTENDS Naturals, FiniteSets

CONSTANTS
  Phones,
  MaxCodes,       \* codes opened (bound)
  MaxSignIns,     \* sign-ins started (bound)
  MaxPastes,      \* keys pasted instead (bound)
  MAX_WRONG, OFFER, HELD, PENDING, SESSION  \* the code's, in ticks of the shortest

VARIABLES
  issued, left, dead, wrong, spent,  \* _live: the newest code; _codes.spent
  session,     \* each phone's cookie: what is left of it
  opened,      \* codes each session came of (history)
  starting,    \* start requests past _owner, probing the static page
  signIns, pending, pendingLeft,     \* _pending, 0 for none
  by,          \* whose sign-in each is
  granted, redeemed,  \* at OpenRouter: codes it gave, codes exchanged
  finishing,   \* finishes: the code, the verifier, and how far
  asked,       \* how often each verifier went out (history)
  held, heldLeft,     \* _held
  pastes

codeVars == <<issued, left, dead, wrong, spent, opened>>
signVars == <<signIns, pending, pendingLeft, by>>
orVars == <<granted, redeemed>>
heldVars == <<held, heldLeft>>
vars == <<codeVars, session, starting, signVars, orVars, finishing, asked, heldVars, pastes>>

Codes == 1..MaxCodes
SignIns == 1..MaxSignIns
NONE == 0

TypeOK ==
  /\ issued \in 0..MaxCodes /\ left \in 0..OFFER /\ dead \in BOOLEAN /\ wrong \in 0..MAX_WRONG
  /\ spent \subseteq Codes /\ session \in [Phones -> 0..SESSION] /\ opened \in [Codes -> 0..2]
  /\ starting \subseteq Phones /\ signIns \in 0..MaxSignIns /\ pending \in 0..signIns /\ pendingLeft \in 0..PENDING
  /\ by \in [SignIns -> Phones \cup {NONE}] /\ redeemed \subseteq granted /\ granted \subseteq SignIns
  /\ finishing \subseteq [code : SignIns, verifier : SignIns, at : {"exchange", "save"}]
  /\ asked \in [SignIns -> 0..2] /\ held \in 0..MaxSignIns /\ heldLeft \in 0..HELD /\ pastes \in 0..MaxPastes

Init ==
  /\ issued = 0 /\ left = 0 /\ dead = TRUE /\ wrong = 0 /\ spent = {} /\ opened = [c \in Codes |-> 0]
  /\ session = [p \in Phones |-> 0] /\ starting = {} /\ signIns = 0 /\ pending = NONE /\ pendingLeft = 0
  /\ by = [n \in SignIns |-> NONE] /\ granted = {} /\ redeemed = {} /\ finishing = {}
  /\ asked = [n \in SignIns |-> 0] /\ held = NONE /\ heldLeft = 0 /\ pastes = 0

-----------------------------------------------------------------------------
(* The code, and the session it opens.                                             *)

authorized(p) == session[p] > 0

(* "open my settings": a new code, the one before no longer usable. *)
Opens ==
  /\ issued < MaxCodes /\ issued' = issued + 1 /\ left' = OFFER /\ dead' = FALSE /\ wrong' = 0
  /\ UNCHANGED <<spent, opened, session, starting, signVars, orVars, finishing, asked, heldVars, pastes>>

(* CodeBook.find *)
Find(c) == IF c \in spent THEN "used" ELSE IF c = issued /\ left > 0 /\ ~dead THEN "live" ELSE "expired"

(* redeem, enter_code: the code scanned or typed in. *)
Redeems(p, c) ==
  /\ c <= issued /\ Find(c) = "live"
  /\ dead' = TRUE /\ spent' = spent \cup {issued} /\ opened' = [opened EXCEPT ![c] = @ + 1]
  /\ session' = [session EXCEPT ![p] = SESSION]
  /\ UNCHANGED <<issued, left, wrong, starting, signVars, orVars, finishing, asked, heldVars, pastes>>

(* A code that is none of these: MAX_WRONG of them lock the current one. *)
Guesses ==
  /\ left > 0 /\ ~dead /\ wrong' = wrong + 1 /\ dead' = (wrong' >= MAX_WRONG)
  /\ UNCHANGED <<issued, left, spent, opened, session, starting, signVars, orVars, finishing, asked, heldVars, pastes>>

-----------------------------------------------------------------------------
(* The sign-in.                                                                  *)

StartRequested(p) ==
  /\ authorized(p) /\ p \notin starting /\ signIns < MaxSignIns /\ starting' = starting \cup {p}
  /\ UNCHANGED <<codeVars, session, signVars, orVars, finishing, asked, heldVars, pastes>>

(* settings_access.keep_session *)
kept_session(p) == SESSION

(* start_route, start: a new sign-in, the one before can no longer finish. *)
Started(p) ==
  /\ p \in starting /\ starting' = starting \ {p} /\ signIns < MaxSignIns
  /\ signIns' = signIns + 1 /\ pending' = signIns' /\ pendingLeft' = PENDING /\ by' = [by EXCEPT ![signIns'] = p]
  /\ session' = [session EXCEPT ![p] = kept_session(p)] /\ held' = NONE /\ heldLeft' = 0
  /\ UNCHANGED <<codeVars, orVars, finishing, asked, pastes>>

(* EXTERNAL The owner approves at OpenRouter: a code for that sign-in's challenge. *)
Grants(n) ==
  /\ n <= signIns /\ n \notin granted /\ granted' = granted \cup {n}
  /\ UNCHANGED <<codeVars, session, starting, signVars, redeemed, finishing, asked, heldVars, pastes>>

\* Slip: the newest sign-in finishes, whichever the phone came back from
_liveSlip(n) == pending # NONE /\ pendingLeft > 0

(* _live: the pending sign-in, for the state the phone came back with, if it did. *)
_live(n) == pending # NONE /\ pendingLeft > 0 /\ (n = NONE \/ n = pending)

(* _take: spent, whatever comes of it. *)
_take == NONE

(* finish: the code goes to OpenRouter with the pending verifier. *)
Finishes(c) ==
  /\ finishing' = finishing \cup {[code |-> c, verifier |-> pending, at |-> "exchange"]}
  /\ asked' = [asked EXCEPT ![pending] = @ + 1] /\ pending' = _take
  /\ UNCHANGED <<codeVars, session, starting, signIns, pendingLeft, by, orVars, heldVars, pastes>>

(* finish_route: Finish tapped on the page OpenRouter came back to. *)
FinishTapped(p, n) == authorized(p) /\ n \in granted /\ by[n] = p /\ _live(n) /\ Finishes(n)

(* code_route: a code pasted, for whichever sign-in waits. *)
CodePasted(p, n) == authorized(p) /\ n \in granted /\ by[n] = p /\ _live(NONE) /\ Finishes(n)

(* exchange_code: OpenRouter takes a code once, with the verifier it was asked with. *)
Exchanged(f) ==
  /\ f \in finishing /\ f.at = "exchange"
  /\ \/ /\ f.code = f.verifier /\ f.code \notin redeemed /\ redeemed' = redeemed \cup {f.code}
        /\ finishing' = (finishing \ {f}) \cup {[f EXCEPT !.at = "save"]}
     \/ finishing' = finishing \ {f} /\ UNCHANGED redeemed
  /\ UNCHANGED <<codeVars, session, starting, signVars, granted, asked, heldVars, pastes>>

(* _save: saved (its hook forgets any key held), refused by the key check, or held. *)
Saved(k) ==
  \/ held' = NONE /\ heldLeft' = 0
  \/ held' = k /\ heldLeft' = HELD

SaveEnds(f) ==
  /\ f \in finishing /\ f.at = "save" /\ finishing' = finishing \ {f} /\ Saved(f.code)
  /\ UNCHANGED <<codeVars, session, starting, signVars, orVars, asked, pastes>>

(* retry_route: "Save it again". *)
Retries(p) ==
  /\ authorized(p) /\ held # NONE /\ Saved(held)
  /\ UNCHANGED <<codeVars, session, starting, signVars, orVars, finishing, asked, pastes>>

(* A key pasted on the settings page is saved: _forget_held. *)
KeyPasted(p) ==
  /\ authorized(p) /\ pastes < MaxPastes /\ pastes' = pastes + 1 /\ held' = NONE /\ heldLeft' = 0
  /\ UNCHANGED <<codeVars, session, starting, signVars, orVars, finishing, asked>>

-----------------------------------------------------------------------------
Less(t) == IF t = 0 THEN 0 ELSE t - 1

Tick ==
  /\ left + pendingLeft + heldLeft > 0 \/ \E p \in Phones : session[p] > 0
  /\ left' = Less(left) /\ pendingLeft' = Less(pendingLeft) /\ heldLeft' = Less(heldLeft)
  /\ held' = (IF heldLeft' = 0 THEN NONE ELSE held) /\ session' = [p \in Phones |-> Less(session[p])]
  /\ UNCHANGED <<issued, dead, wrong, spent, opened, starting, signIns, pending, by, orVars, finishing, asked, pastes>>

(* All has been done, and run out. *)
Over ==
  /\ issued = MaxCodes /\ left + pendingLeft + heldLeft = 0 /\ finishing = {} /\ \A p \in Phones : session[p] = 0
  /\ UNCHANGED vars

Next ==
  \/ Opens \/ Guesses \/ Tick \/ Over
  \/ \E p \in Phones : \/ \E c \in Codes : Redeems(p, c)
                       \/ StartRequested(p) \/ Started(p) \/ Retries(p) \/ KeyPasted(p)
                       \/ \E n \in SignIns : FinishTapped(p, n) \/ CodePasted(p, n)
  \/ \E n \in SignIns : Grants(n)
  \/ \E f \in finishing : Exchanged(f) \/ SaveEnds(f)

Spec == Init /\ [][Next]_vars

-----------------------------------------------------------------------------
(* A phone that comes back from OpenRouter with its sign-in still pending is still in    *)
(* its session, whatever was left of it when the sign-in was started.                *)
RoundTripInSession == pending # NONE /\ pendingLeft > 0 => session[by[pending]] >= pendingLeft

(* A phone that comes back from an earlier sign-in spends nothing of a newer: what it    *)
(* brings is exchanged with its own verifier, unless the owner pastes it.             *)
OwnVerifier ==
  [][\A p \in Phones, n \in SignIns : FinishTapped(p, n) =>
       \A f \in finishing' \ finishing : f.code = f.verifier]_vars

(* Both: a sign-in that comes back is finished as the owner's own.                      *)
SignInIsOwn == []RoundTripInSession /\ OwnVerifier

=============================================================================
