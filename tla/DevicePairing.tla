---------------------------- MODULE DevicePairing ----------------------------
(* The code on the box's screen: pair_device.py, over a pairing as Pairing has it.  *)
(* Asking takes seconds, can be asked again or called off meanwhile, and the code    *)
(* that comes of it is shown, or withdrawn unseen.                                 *)
EXTENDS Naturals, FiniteSets

CONSTANTS
  MaxStarts,  \* times a code is asked for (bound)
  MaxStops    \* times it is called off (bound)

VARIABLES
  gen,        \* _gen: what is asked for and called off
  asking,     \* starts that await a code, by their gen (_pending of them)
  offer,      \* _offer, 0 when none
  last,       \* _last
  unshown,    \* _unshown
  watcher,    \* the pairing _watch follows, 0 when none
  on_spent,   \* the code _on_spent waits for
  screen,     \* "none", "held", "code", "finish", "paired"
  shown,      \* the code that was drawn last
  closed,
  code, pairing,  \* pairing.py: its current code, and its pairing, 0 when none goes on
  usable,     \* the code can be used
  claim,      \* "none", "mints", "watches"
  made,       \* that pairing has handed something out
  ending,     \* of a pairing that is over and whose waiter has not run: its outcome
  codes, stops, started  \* bounds

vars == <<gen, asking, offer, last, unshown, watcher, on_spent, screen, shown, closed, code, pairing,
          usable, claim, made, ending, codes, stops, started>>

Numbers == 0..MaxStarts
pairingVars == <<code, pairing, usable, claim, made, ending>>

TypeOK ==
  /\ gen \in 0..(MaxStarts + MaxStops + 1) /\ asking \subseteq 1..(MaxStarts + MaxStops)
  /\ {offer, last, watcher, on_spent, shown, code, pairing} \subseteq Numbers /\ unshown \subseteq Numbers
  /\ screen \in {"none", "held", "code", "finish", "paired"} /\ {closed, usable, made} \subseteq BOOLEAN
  /\ claim \in {"none", "mints", "watches"} /\ ending \in {"none", "paired", "other"}

Init ==
  /\ gen = 0 /\ asking = {} /\ offer = 0 /\ last = 0 /\ unshown = {} /\ watcher = 0 /\ on_spent = 0
  /\ screen = "none" /\ shown = 0 /\ closed = FALSE /\ code = 0 /\ pairing = 0 /\ usable = FALSE
  /\ claim = "none" /\ made = FALSE /\ ending = "none" /\ codes = 0 /\ stops = 0 /\ started = 0

-----------------------------------------------------------------------------
(* The pairing.                                                                  *)

(* A pairing ends; whoever waits for it hears so when it runs.                     *)
Ends(outcome) ==
  /\ pairing' = 0 /\ usable' = FALSE /\ claim' = "none"
  /\ ending' = IF watcher = pairing /\ watcher # 0 THEN outcome ELSE ending

(* pairing.withdraw(offer): does the pairing go on? *)
confirming(o) == o # 0 /\ o = code /\ pairing # 0 /\ made /\ claim = "watches"
Withdrawn(o) ==
  IF o # 0 /\ o = code /\ pairing # 0
  THEN IF confirming(o)
       THEN usable' = FALSE /\ UNCHANGED <<pairing, claim, ending>>
       ELSE Ends("other")
  ELSE UNCHANGED <<pairing, usable, claim, ending>>

PhoneTaps ==
  /\ usable /\ usable' = FALSE /\ claim' = "mints"
  /\ UNCHANGED <<gen, asking, offer, last, unshown, watcher, on_spent, screen, shown, closed, code, pairing,
                 made, ending, codes, stops, started>>

Handed ==
  /\ claim = "mints" /\ \/ claim' = "watches" /\ made' = TRUE
                        \/ claim' = "none" /\ UNCHANGED made
  /\ UNCHANGED <<gen, asking, offer, last, unshown, watcher, on_spent, screen, shown, closed, code, pairing,
                 usable, ending, codes, stops, started>>

(* What it waits for runs out, or the device is there. *)
RunsOut ==
  /\ pairing # 0
  /\ \/ usable /\ usable' = FALSE /\ UNCHANGED claim
     \/ claim = "watches" /\ claim' = "none" /\ UNCHANGED usable
  /\ UNCHANGED <<gen, asking, offer, last, unshown, watcher, on_spent, screen, shown, closed, code, pairing,
                 made, ending, codes, stops, started>>

PairingEnds ==
  /\ pairing # 0 /\ watcher = pairing
  /\ \/ ~usable /\ claim = "none" /\ Ends("other")
     \/ claim = "watches" /\ Ends("paired")
  /\ UNCHANGED <<gen, asking, offer, last, unshown, watcher, on_spent, screen, shown, closed, code, made,
                 codes, stops, started>>

-----------------------------------------------------------------------------
(* The screen.                                                                   *)

_withdraw ==
  /\ offer' = 0 /\ on_spent' = 0 /\ screen' = "none"
  /\ Withdrawn(offer)

(* start(), up to its wait; a screen that draws no code has none.                  *)
Start ==
  /\ ~closed /\ started < MaxStarts /\ started' = started + 1
  /\ gen' = gen + 1
  /\ \/ /\ asking' = asking \cup {gen + 1} /\ screen' = IF screen = "none" THEN "held" ELSE screen
        /\ UNCHANGED <<offer, on_spent, pairingVars>>
     \/ /\ _withdraw /\ UNCHANGED <<asking, code, made>>
  /\ UNCHANGED <<last, unshown, watcher, shown, closed, codes, stops>>

(* pairing.start() answers in the order it was asked in: one reads the list, the rest  *)
(* wait for it.                                                                    *)
InTurn(g) == g \in asking /\ \A h \in asking : g <= h

(* The last to go withdraws what was made and never shown.                         *)
LastOut(g) == asking = {g}
Leaves(g, un) ==
  /\ asking' = asking \ {g}
  /\ unshown' = IF LastOut(g) THEN {} ELSE un

\* Slip: a stop while the code was made is not looked for
wantedSlip(g) == ~closed

wanted(g) == g = gen /\ ~closed

StartFails(g) ==
  /\ InTurn(g) /\ Leaves(g, unshown)
  /\ screen' = IF g = gen /\ offer = 0 /\ watcher = 0 THEN "none" ELSE screen
  /\ IF LastOut(g) /\ code \in unshown \ {offer}
     THEN Withdrawn(code) ELSE UNCHANGED <<pairing, usable, claim, ending>>
  /\ UNCHANGED <<gen, offer, last, watcher, on_spent, shown, closed, code, made, codes, stops, started>>

(* The code comes: of the pairing that goes on, or of a new one; it is shown, the   *)
(* screen can't (it went meanwhile), or it is not wanted any more.                  *)
StartReturns(g) ==
  LET new == codes + 1
      again == pairing # 0 /\ (usable \/ claim # "none")
      of == IF again THEN pairing ELSE new
  IN
  /\ InTurn(g) /\ codes < MaxStarts /\ codes' = new /\ code' = new
  /\ made' = (made /\ again)
  /\ \/ /\ ~wanted(g)
        /\ LET un == IF closed THEN unshown ELSE unshown \cup {new}
               stays == again /\ claim = "watches" /\ made
               goes == closed \/ LastOut(g)
           IN /\ Leaves(g, un)
              /\ usable' = ~goes
              /\ pairing' = IF goes /\ (closed \/ ~stays) THEN 0 ELSE of
              /\ claim' = IF ~again \/ (goes /\ (closed \/ ~stays)) THEN "none" ELSE claim
              /\ ending' = IF watcher # 0 /\ watcher = pairing /\ pairing' # pairing THEN "other" ELSE ending
        /\ UNCHANGED <<offer, last, watcher, on_spent, screen, shown>>
     \/ /\ wanted(g)
        /\ Leaves(g, unshown)
        /\ offer' = new /\ last' = new /\ shown' = new /\ on_spent' = new /\ screen' = "code"
        /\ watcher' = of /\ ending' = IF watcher = of THEN ending ELSE "none"
        /\ usable' = TRUE /\ pairing' = of /\ claim' = IF again THEN claim ELSE "none"
     \/ /\ wanted(g)
        /\ Leaves(g, unshown)
        /\ offer' = 0 /\ on_spent' = 0 /\ screen' = "none"
        /\ usable' = FALSE
        /\ LET stays == again /\ claim = "watches" /\ made
           IN /\ pairing' = IF stays THEN of ELSE 0
              /\ claim' = IF stays THEN claim ELSE "none"
              /\ ending' = IF watcher # 0 /\ watcher = pairing /\ ~stays THEN "other" ELSE ending
        /\ UNCHANGED <<last, watcher, shown>>
  /\ UNCHANGED <<gen, closed, stops, started>>

(* cancel(): the user's stop. *)
Cancel ==
  /\ ~closed /\ stops < MaxStops /\ stops' = stops + 1 /\ gen' = gen + 1
  /\ _withdraw
  /\ UNCHANGED <<asking, last, unshown, watcher, shown, closed, code, made, codes, started>>

Close ==
  /\ ~closed /\ closed' = TRUE /\ gen' = gen + 1
  /\ offer' = 0 /\ last' = 0 /\ on_spent' = 0 /\ watcher' = 0 /\ screen' = "none"
  /\ IF last # 0 /\ pairing # 0 THEN pairing' = 0 /\ usable' = FALSE /\ claim' = "none"
     ELSE UNCHANGED <<pairing, usable, claim>>
  /\ ending' = "none"
  /\ UNCHANGED <<asking, unshown, shown, code, made, codes, stops, started>>

(* _on_spent: used, and its pairing goes on. *)
Spent ==
  /\ on_spent # 0 /\ on_spent = code /\ ~usable /\ pairing # 0 /\ claim # "none"
  /\ on_spent' = 0 /\ screen' = IF offer = on_spent /\ screen # "none" THEN "finish" ELSE screen
  /\ UNCHANGED <<gen, asking, offer, last, unshown, watcher, shown, closed, pairingVars, codes, stops, started>>

(* _watch hears the end. *)
WatcherHears ==
  /\ watcher # 0 /\ ending # "none"
  /\ watcher' = 0 /\ on_spent' = 0 /\ offer' = 0 /\ ending' = "none"
  /\ screen' = IF ending = "paired" THEN "paired" ELSE IF asking # {} THEN screen ELSE "none"
  /\ UNCHANGED <<gen, asking, last, unshown, shown, closed, code, pairing, usable, claim, made, codes, stops, started>>

(* The words that the phone is paired go after a while. *)
PairedGoes ==
  /\ screen = "paired" /\ screen' = "none"
  /\ UNCHANGED <<gen, asking, offer, last, unshown, watcher, on_spent, shown, closed, pairingVars, codes, stops, started>>

Done == (closed \/ started = MaxStarts) /\ asking = {} /\ watcher = 0 /\ UNCHANGED vars

Next ==
  \/ Start \/ \E g \in asking : StartFails(g) \/ StartReturns(g)
  \/ Cancel \/ Close \/ PhoneTaps \/ Handed \/ RunsOut \/ PairingEnds
  \/ Spent \/ WatcherHears \/ PairedGoes
  \/ Done

Spec == Init /\ [][Next]_vars

Fairness ==
  /\ \A g \in 1..(MaxStarts + MaxStops) : WF_vars(StartFails(g) \/ StartReturns(g))
  /\ WF_vars(Handed) /\ WF_vars(RunsOut) /\ WF_vars(PairingEnds) /\ WF_vars(WatcherHears)
FairSpec == Spec /\ Fairness

-----------------------------------------------------------------------------
(* Properties.                                                                   *)

(* No code can be used that is not on the screen, or on its way there: not one made   *)
(* for a request called off or overtaken.                                          *)
CodeIsOnScreen == usable => (offer = code /\ screen = "code") \/ asking # {}

(* Nothing stays on the screen unfollowed: whoever drew it hears the pairing's end.  *)
ScreenIsFollowed == screen \in {"code", "finish"} => watcher # 0 \/ asking # {}

(* After the user's stop, only a code asked for since then comes up.                 *)
StopStops ==
  [][\A g \in asking : asking' = asking \ {g} /\ screen' = "code" /\ shown' # shown => g = gen]_vars

(* What is promised: a code that is up comes down. *)
Promises == {"down"}
AreDue == {p \in Promises : screen = "code"}
AreKept == Promises \ AreDue

=============================================================================
