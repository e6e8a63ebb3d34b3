------------------------------- MODULE Pairing -------------------------------
(* Pairing a phone with a code on the screen: pairing.py. A pairing goes on over    *)
(* every code it shows; a tap on one spends it and mints a handoff; one waiter      *)
(* watches for the device, and every end reaches it and the taps still minting.     *)
(*                                                                                *)
(* A dashboard's tap and an app's differ only in how long their watch is. Times run *)
(* out whenever they do.                                                          *)
EXTENDS Naturals, FiniteSets

CONSTANTS
  MaxCodes,   \* codes issued (bound)
  MaxWrong    \* MAX_WRONG

VARIABLES
  issued,     \* codes so far
  pairing,    \* whose pairing each is of: the first code of it
  creating,   \* _creating: a start() is reading the device list
  session,    \* _session: its first code, 0 when none goes on
  current,    \* its code
  code_dead, old, locked, wrong,  \* of that code: out of use, OFFER_SECS over, ...
  spent,      \* _codes.spent
  tap,        \* of each code: "none", "queued", "mints", "minted", "failed", "made", "past", "gone"
  stopped,    \* taps an end or the user's stop has stopped
  page,       \* what its phone was shown
  minted,     \* handoffs minted for each
  made,       \* pairings with a handoff handed out
  result,     \* of each pairing, by its first code
  waiter,     \* wait() of the current pairing: "none", "looks", "polls"
  listed,     \* a device new since the snapshot is in the list
  found       \* the poll that runs has read it there

vars == <<issued, pairing, creating, session, current, code_dead, old, locked, wrong, spent, tap,
          stopped, page, minted, made, result, waiter, listed, found>>

Codes == 1..MaxCodes
Results == {"none", "paired", "opened", "expired", "cancelled", "locked", "failed"}

codeVars == <<current, code_dead, old, locked, wrong>>
tapVars == <<spent, tap, stopped, page, minted, made>>
endVars == <<session, result, waiter>>
watchVars == <<listed, found>>

TypeOK ==
  /\ issued \in 0..MaxCodes /\ pairing \in [Codes -> 0..MaxCodes] /\ {session, current} \subseteq 0..MaxCodes
  /\ {creating, code_dead, old, locked, listed, found} \subseteq BOOLEAN /\ wrong \in 0..MaxWrong
  /\ spent \subseteq Codes /\ stopped \subseteq Codes /\ made \subseteq Codes
  /\ tap \in [Codes -> {"none", "queued", "mints", "minted", "failed", "made", "past", "gone"}]
  /\ page \in [Codes -> {"none", "handoff", "expired", "failed"}] /\ minted \in [Codes -> 0..MaxCodes]
  /\ result \in [Codes -> Results] /\ waiter \in {"none", "looks", "polls"}

Init ==
  /\ issued = 0 /\ pairing = [k \in Codes |-> 0] /\ creating = FALSE /\ session = 0 /\ current = 0
  /\ code_dead = FALSE /\ old = FALSE /\ locked = FALSE /\ wrong = 0 /\ spent = {}
  /\ tap = [k \in Codes |-> "none"] /\ stopped = {} /\ page = [k \in Codes |-> "none"]
  /\ minted = [k \in Codes |-> 0] /\ made = {} /\ result = [k \in Codes |-> "none"]
  /\ waiter = "none" /\ listed = FALSE /\ found = FALSE

-----------------------------------------------------------------------------
(* What a pairing still waits for.                                               *)

code_usable == ~code_dead /\ ~old
Mine == {k \in Codes : pairing[k] = session /\ session # 0}
Unminted == {"queued", "mints", "minted", "failed"}
minting == \E k \in Mine : tap[k] \in Unminted
watching == \E k \in Mine : tap[k] = "made"   \* a made handoff's window runs
\* Slip: a tap still minting is nothing to wait for
live_claimSlip == watching

live_claim == minting \/ watching
over == IF session \in made THEN "opened" ELSE IF locked THEN "locked" ELSE "expired"

(* Its end: the taps still minting stop, and the waiter hears it.                  *)
StopMints == LET t == {k \in Mine : tap[k] \in Unminted}
             IN  stopped' = stopped \cup t

End(r) ==
  /\ result' = [result EXCEPT ![session] = r]
  /\ session' = 0 /\ waiter' = "none"
  /\ StopMints

-----------------------------------------------------------------------------
(* Asking for a code.                                                            *)

FreshCode ==
  /\ issued' = issued + 1 /\ current' = issued + 1
  /\ code_dead' = FALSE /\ old' = FALSE /\ locked' = FALSE /\ wrong' = 0

(* A new code of the pairing that goes on.                                         *)
StartAgain ==
  /\ ~creating /\ session # 0 /\ (code_usable \/ live_claim) /\ issued < MaxCodes
  /\ FreshCode /\ pairing' = [pairing EXCEPT ![issued + 1] = session]
  /\ UNCHANGED <<creating, tapVars, endVars, watchVars>>

(* Or that one is over, or has gone on for too long with nothing in progress.      *)
StartEnds ==
  /\ ~creating /\ session # 0 /\ issued < MaxCodes
  /\ \/ ~code_usable /\ ~live_claim /\ End(over)
     \/ ~live_claim /\ End(IF session \in made THEN "opened" ELSE "expired")
  /\ creating' = TRUE
  /\ UNCHANGED <<issued, pairing, codeVars, spent, tap, page, minted, made, watchVars>>

StartFirst ==
  /\ ~creating /\ session = 0 /\ issued < MaxCodes
  /\ creating' = TRUE
  /\ UNCHANGED <<issued, pairing, codeVars, tapVars, endVars, watchVars>>

(* The snapshot is read, or is not.                                                *)
Started ==
  /\ creating /\ creating' = FALSE
  /\ \/ /\ FreshCode /\ session' = issued + 1 /\ pairing' = [pairing EXCEPT ![issued + 1] = issued + 1]
        /\ listed' = FALSE /\ UNCHANGED found
     \/ UNCHANGED <<issued, codeVars, session, pairing, watchVars>>
  /\ UNCHANGED <<tapVars, result, waiter>>

Cancel ==
  /\ session # 0 /\ End("cancelled")
  /\ UNCHANGED <<issued, pairing, creating, codeVars, spent, tap, page, minted, made, watchVars>>

(* The user's stop: the code goes, and what mints; a handoff handed out is watched. *)
Withdraw ==
  /\ session # 0 /\ code_dead' = TRUE
  /\ IF session \in made /\ watching THEN StopMints /\ UNCHANGED endVars ELSE End("cancelled")
  /\ UNCHANGED <<issued, pairing, creating, current, old, locked, wrong, spent, tap, page, minted, made, watchVars>>

-----------------------------------------------------------------------------
(* The phone.                                                                    *)

(* CodeBook.find. *)
find(k) == CASE k \in spent -> "used"
             [] session # 0 /\ k = current /\ code_usable -> "live"
             [] OTHER -> "expired"

(* A choice pressed on a code: it is spent, and its mint waits its turn.            *)
Redeem(k) ==
  /\ find(k) = "live"
  /\ spent' = spent \cup {k} /\ code_dead' = TRUE
  /\ tap' = [tap EXCEPT ![k] = "queued"]
  /\ UNCHANGED <<issued, pairing, creating, current, old, locked, wrong, stopped, page, minted, made, endVars, watchVars>>

(* A code nobody issued, at a pairing whose code can be used. *)
WrongCode ==
  /\ session # 0 /\ code_usable /\ wrong' = wrong + 1
  /\ locked' = (wrong' >= MaxWrong) /\ code_dead' = locked'
  /\ UNCHANGED <<issued, pairing, creating, current, old, tapVars, endVars, watchVars>>

CodeRunsOut ==
  /\ session # 0 /\ ~old /\ old' = TRUE
  /\ UNCHANGED <<issued, pairing, creating, current, code_dead, locked, wrong, tapVars, endVars, watchVars>>

(* _one_cli: a mint starts once no other runs and the poll has let go.             *)
MintStarts(k) ==
  /\ tap[k] = "queued" /\ k \notin stopped /\ waiter # "polls"
  /\ \A j \in Codes : pairing[j] = pairing[k] => tap[j] # "mints" \/ j \in stopped
  /\ tap' = [tap EXCEPT ![k] = "mints"]
  /\ UNCHANGED <<issued, pairing, creating, codeVars, spent, stopped, page, minted, made, endVars, watchVars>>

MintEnds(k) ==
  /\ tap[k] = "mints" /\ k \notin stopped
  /\ \/ tap' = [tap EXCEPT ![k] = "minted"] /\ minted' = [minted EXCEPT ![k] = @ + 1]
     \/ tap' = [tap EXCEPT ![k] = "failed"] /\ UNCHANGED minted
  /\ UNCHANGED <<issued, pairing, creating, codeVars, spent, stopped, page, made, endVars, watchVars>>

\* Slip: the end of the pairing is not looked at again
HandedOutSlip(k) ==
  /\ tap[k] = "minted"
  /\ tap' = [tap EXCEPT ![k] = "made"] /\ page' = [page EXCEPT ![k] = "handoff"]
  /\ made' = made \cup {pairing[k]}
  /\ UNCHANGED <<issued, pairing, creating, codeVars, spent, stopped, minted, endVars, watchVars>>

(* The rest of redeem(), when it runs: the handoff, or none.                       *)
HandedOut(k) ==
  /\ tap[k] = "minted" /\ k \notin stopped
  /\ tap' = [tap EXCEPT ![k] = "made"] /\ page' = [page EXCEPT ![k] = "handoff"]
  /\ made' = made \cup {pairing[k]}
  /\ UNCHANGED <<issued, pairing, creating, codeVars, spent, stopped, minted, endVars, watchVars>>

Refused(k) ==
  /\ tap[k] \in Unminted /\ k \in stopped
  /\ tap' = [tap EXCEPT ![k] = "gone"] /\ page' = [page EXCEPT ![k] = "expired"]
  /\ UNCHANGED <<issued, pairing, creating, codeVars, spent, stopped, minted, made, endVars, watchVars>>

(* A mint that failed (or whose phone went) ends a pairing it leaves with nothing.  *)
LeavesNothing(k) ==
  /\ pairing[k] = session /\ session \notin made /\ ~code_usable
  /\ \A j \in Mine \ {k} : tap[j] \notin Unminted \cup {"made"}

MintFailed(k) ==
  /\ tap[k] \in Unminted \ {"queued"} /\ k \notin stopped
  /\ tap' = [tap EXCEPT ![k] = "gone"] /\ page' = [page EXCEPT ![k] = "failed"]
  /\ IF LeavesNothing(k)
     THEN End("failed")
     ELSE UNCHANGED <<stopped, endVars>>
  /\ UNCHANGED <<issued, pairing, creating, codeVars, spent, minted, made, watchVars>>

WatchRunsOut(k) ==
  /\ tap[k] = "made" /\ tap' = [tap EXCEPT ![k] = "past"]
  /\ UNCHANGED <<issued, pairing, creating, codeVars, spent, stopped, page, minted, made, endVars, watchVars>>

(* A device pairs, here or any other way. *)
DevicePairs ==
  /\ session # 0 /\ ~listed /\ listed' = TRUE
  /\ UNCHANGED <<issued, pairing, creating, codeVars, tapVars, endVars, found>>

-----------------------------------------------------------------------------
(* The waiter: it polls while a handoff is watched and nothing mints.              *)

WaitBegins ==
  /\ session # 0 /\ waiter = "none" /\ waiter' = "looks"
  /\ UNCHANGED <<issued, pairing, creating, codeVars, tapVars, session, result, watchVars>>

PollStarts ==
  /\ waiter = "looks" /\ ~minting /\ watching
  /\ waiter' = "polls" /\ found' = listed
  /\ UNCHANGED <<issued, pairing, creating, codeVars, tapVars, session, result, listed>>

(* Read, or cut short by a tap or the end of the watch.                            *)
PollEnds ==
  /\ waiter = "polls"
  /\ \/ ~minting /\ found /\ End("paired")
     \/ waiter' = "looks" /\ UNCHANGED <<stopped, session, result>>
  /\ found' = FALSE
  /\ UNCHANGED <<issued, pairing, creating, codeVars, spent, tap, page, minted, made, listed>>

WaitEnds ==
  /\ waiter = "looks" /\ ~live_claim /\ ~code_usable
  /\ End(over)
  /\ UNCHANGED <<issued, pairing, creating, codeVars, spent, tap, page, minted, made, watchVars>>

(* Whoever waited is gone. *)
WaitCancelled ==
  /\ waiter # "none" /\ End("cancelled") /\ found' = FALSE
  /\ UNCHANGED <<issued, pairing, creating, codeVars, spent, tap, page, minted, made, listed>>

Done == issued = MaxCodes /\ session = 0 /\ ~creating /\ UNCHANGED vars

Next ==
  \/ StartAgain \/ StartEnds \/ StartFirst \/ Started \/ Cancel \/ Withdraw
  \/ \E k \in Codes : \/ Redeem(k) \/ MintStarts(k) \/ MintEnds(k) \/ HandedOut(k)
                      \/ Refused(k) \/ MintFailed(k) \/ WatchRunsOut(k)
  \/ WrongCode \/ CodeRunsOut \/ DevicePairs
  \/ WaitBegins \/ PollStarts \/ PollEnds \/ WaitEnds \/ WaitCancelled
  \/ Done

Spec == Init /\ [][Next]_vars

(* A CLI run ends (it has a timeout) and its answer is given; times run out; the   *)
(* waiter is a task that runs.                                                    *)
Fairness ==
  /\ \A k \in Codes : /\ WF_vars(MintStarts(k)) /\ WF_vars(MintEnds(k)) /\ WF_vars(Refused(k))
                      /\ WF_vars(HandedOut(k) \/ MintFailed(k)) /\ WF_vars(WatchRunsOut(k))
  /\ WF_vars(CodeRunsOut) /\ WF_vars(PollEnds) /\ WF_vars(WaitEnds)
FairSpec == Spec /\ Fairness

-----------------------------------------------------------------------------
(* Properties.                                                                   *)

(* A phone gets a handoff only of a pairing that goes on: never after its end, and   *)
(* never after the user's stop.                                                   *)
HandoffsAreOfThePairing ==
  [][\A k \in Codes : page'[k] = "handoff" /\ page[k] # "handoff" =>
        result[pairing[k]] = "none" /\ result'[pairing[k]] = "none"]_vars

(* A pairing said to have come to nothing has handed out no handoff.               *)
NothingWasHandedOut ==
  \A k \in Codes : result[k] \in {"expired", "locked", "failed"} => k \notin made

(* Nothing is given up while it could still succeed: no pairing runs out while a    *)
(* handoff of it is being minted or watched.                                      *)
WatchedToTheEnd ==
  [][\A k \in Codes : result[k] = "none" /\ result'[k] \in {"opened", "expired", "locked", "failed"} =>
        \A j \in Codes : pairing[j] = k => tap'[j] \notin {"queued", "mints", "minted", "made"}]_vars

(* What is promised: whoever waits (0) hears an end, and a phone that pressed (its     *)
(* code) is answered.                                                            *)
Promises == Codes \cup {0}
AreDue == spent \cup {p \in {0} : waiter # "none"}
AreKept == {k \in Codes : page[k] # "none"} \cup {p \in {0} : waiter = "none"}

=============================================================================
