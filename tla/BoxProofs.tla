------------------------------ MODULE BoxProofs ------------------------------
(***************************************************************************)
(* What holds of the box's settings and its installer, for all values of   *)
(* their constants. They share no state: each is an instance of its own.   *)
(***************************************************************************)
EXTENDS Box, Integers, FiniteSetTheorems, WellFoundedInduction, TLAPS

-----------------------------------------------------------------------------
(* The Wi-Fi setup unit.                                                    *)

(* What the status file says where the main thread is.                      *)
Looking == {"start", "scan", "raise", "serve", "show"}
Waiting == {"wait", "told"}
Joining == {"down", "join", "modify", "up", "undo", "connect", "return", "handed", "joined",
            "failed"}
PutBack == {"clear", "lower", "unpend", "unjoin", "drop", "back"}

Phases ==
  /\ at \in Looking \cup Waiting \cup Joining \cup PutBack
             \cup {"restore", "done", "again", "close", "over", "dead"}
  /\ at = "start" => status = "none"
  /\ at = "scan" => status = "scanning"
  /\ at \in {"raise", "serve", "show"} => status \in {"scanning", "failed"}
  /\ at \in Waiting => status = "ap_up"
  /\ at \in Joining => status = "joining"
  /\ at = "done" => status = "connected"
  /\ at = "again" => status = "failed"
  /\ at \in Looking \cup Waiting \cup Joining \cup {"done", "again"} => rc = "" /\ cut = ""
  /\ at = "restore" => IF rc = "" THEN status = "joining" /\ cut = ""
                                  ELSE status = rc /\ rc \in {"error", "timeout", "stopped"}
  /\ at \in PutBack => status = rc /\ rc \in {"error", "timeout", "stopped"}
  /\ at \in {"close", "over"} => status = rc /\ rc \in {"connected", "error", "timeout", "stopped"}
  /\ cut = "" => status # "stopped"

(* What is to be undone, and by which call; after a stop within that call,  *)
(* or as a profile's id is handed over, by none.                            *)
Undoing ==
  /\ pending_wifi \in {"none", "psk", "new"} /\ psk \in {"good", "typed"} /\ made_wifi \in {"no", "yes", "kept"}
  /\ at \notin {"modify", "up", "undo", "connect", "return", "clear", "lower", "unpend", "dead"}
        => pending_wifi = "none"
  /\ created => /\ pending_wifi = "none"
                 /\ at \in {"joined", "failed", "clear", "lower", "unpend", "drop", "dead"}
  /\ at \in {"modify", "up", "undo"} => pending_wifi = "psk"
  /\ at \in {"connect", "return"} => pending_wifi = "new"
  /\ psk = "typed" => \/ at \in {"up", "undo", "restore", "dead"} \/ cut = "restore"
                      \/ at \in {"clear", "lower", "unpend"} /\ pending_wifi = "psk"
  /\ made_wifi = "yes" => \/ at \in {"return", "handed", "unjoin", "dead"} \/ cut \in {"unjoin", "handed"}
                          \/ at \in {"clear", "lower", "unpend"} /\ pending_wifi = "new"
                          \/ at \in {"joined", "failed", "drop"} \cup {"clear", "lower", "unpend"} /\ created

WayBack ==
  /\ at \in {"start", "scan"} => on = "old"
  /\ at \in {"close", "over"} => on # "away" \/ rc = "connected"
  /\ at = "over" => ap = "none" /\ screen_wifi \in {"off", "connected"}

WifiInv == Phases /\ Undoing /\ WayBack

LEMMA WifiKeeps ==
  ASSUME WifiInv, [Wifi!Next]_Wifi!vars
  PROVE  WifiInv'
<1>. USE DEF WifiInv, Phases, Undoing, WayBack, Looking, Waiting, Joining, PutBack,
             Wifi!web, Wifi!join, Wifi!ending
<1>1. CASE UNCHANGED <<at, status, screen_wifi, ap, on, cut, rc, Wifi!join>>
  <2>1. UNCHANGED <<at, status, screen_wifi, ap, on, cut, rc, pending_wifi, psk, made_wifi>> /\ created' = created
    BY <1>1
  <2>2. Phases' /\ WayBack'
    BY ZenonT(60), <2>1
  <2>3. Undoing'
    BY <2>1, Zenon
  <2> QED
    BY <2>2, <2>3
<1>2. CASE Wifi!NoDevice
  BY <1>2 DEF Wifi!NoDevice, Wifi!Go, Wifi!Says
<1>3. CASE Wifi!Scan
  BY <1>3 DEF Wifi!Scan, Wifi!Go, Wifi!Says
<1>4. CASE Wifi!Raise
  BY <1>4 DEF Wifi!Raise, Wifi!Go, Wifi!GiveUp, Wifi!Says, Wifi!Forgets
<1>5. CASE Wifi!Serve
  BY <1>5 DEF Wifi!Serve, Wifi!Go, Wifi!GiveUp, Wifi!Says
<1>6. CASE Wifi!Show
  BY <1>6 DEF Wifi!Show, Wifi!Go, Wifi!Says
<1>7. CASE Wifi!Taken
  BY <1>7 DEF Wifi!Taken, Wifi!Go
<1>8. CASE Wifi!TimesOut
  BY <1>8 DEF Wifi!TimesOut, Wifi!Go, Wifi!GiveUp, Wifi!Says
<1>9. CASE Wifi!Leaves
  BY <1>9 DEF Wifi!Leaves, Wifi!Go, Wifi!Says
<1>10. CASE Wifi!Join
  BY <1>10 DEF Wifi!Join
<1>11. CASE Wifi!Modify
  BY <1>11 DEF Wifi!Modify
<1>12. CASE Wifi!TryNew
  BY <1>12 DEF Wifi!TryNew
<1>13. CASE Wifi!Undo
  BY <1>13 DEF Wifi!Undo, Wifi!Unpend, Wifi!Go
<1>14. CASE Wifi!Restore
  BY ZenonT(60), <1>14 DEF Wifi!Restore, Wifi!Go
<1>15. CASE Wifi!Connect
  BY <1>15 DEF Wifi!Connect, Wifi!Go
<1>16. CASE Wifi!Return
  BY <1>16 DEF Wifi!Return, Wifi!Unpend, Wifi!Go
<1>17. CASE Wifi!Handed
  BY <1>17 DEF Wifi!Handed
<1>18. CASE Wifi!Online
  BY <1>18 DEF Wifi!Online, Wifi!Go, Wifi!Says
<1>19. CASE Wifi!Offline
  BY <1>19 DEF Wifi!Offline, Wifi!Go
<1>20. CASE Wifi!Done
  BY <1>20 DEF Wifi!Done, Wifi!Go
<1>21. CASE Wifi!JoinFailed
  BY <1>21 DEF Wifi!JoinFailed, Wifi!Go, Wifi!Says, Wifi!DropMade
<1>22. CASE Wifi!Again
  BY <1>22 DEF Wifi!Again, Wifi!Go, Wifi!GiveUp, Wifi!Says
<1>23. CASE Wifi!Clear
  <2>1. UNCHANGED <<status, on, rc, cut, pending_wifi, psk, made_wifi>> /\ created' = created
    BY <1>23 DEF Wifi!Clear
  <2>2. (at = "clear" /\ at' = "lower") \/ (at = "lower" /\ at' = "unpend")
    BY <1>23 DEF Wifi!Clear, Wifi!Go
  <2>3. Phases' /\ WayBack'
    BY <2>1, <2>2
  <2>4. Undoing'
    BY <2>1, <2>2
  <2> QED
    BY <2>3, <2>4
<1>24. CASE Wifi!UndoPending
  <2>1. CASE pending_wifi = "none" /\ at' = "drop" /\ UNCHANGED Wifi!join
    BY <1>24, <2>1 DEF Wifi!UndoPending, Wifi!Go
  <2>2. CASE pending_wifi = "psk" /\ Wifi!Unpend("unpend", "restore")
    BY <1>24, <2>2 DEF Wifi!UndoPending, Wifi!Go, Wifi!Unpend
  <2>3. CASE pending_wifi = "new" /\ Wifi!Unpend("unpend", "unjoin")
    BY <1>24, <2>3 DEF Wifi!UndoPending, Wifi!Go, Wifi!Unpend
  <2> QED
    BY <1>24, <2>1, <2>2, <2>3 DEF Wifi!UndoPending, Wifi!Go
<1>25. CASE Wifi!Unjoin
  BY <1>25 DEF Wifi!Unjoin, Wifi!Go
<1>26. CASE Wifi!Drop
  BY <1>26 DEF Wifi!Drop, Wifi!Go, Wifi!DropMade
<1>27. CASE Wifi!Back
  BY <1>27 DEF Wifi!Back, Wifi!Go
<1>28. CASE Wifi!Close
  BY <1>28 DEF Wifi!Close, Wifi!Go
<1>29. CASE Wifi!Post
  BY <1>1, <1>29 DEF Wifi!Post
<1>30. CASE Wifi!Stop
  <2>1. /\ cut = "" /\ cut' = at /\ at \notin {"over", "dead"}
        /\ UNCHANGED <<screen_wifi, ap, on, pending_wifi, psk, made_wifi>> /\ created' = created
    BY <1>30 DEF Wifi!Stop
  <2>2. CASE at = "close" /\ UNCHANGED <<at, status, rc>>
    BY <2>1, <2>2
  <2>3. CASE /\ at # "close" /\ at' = (IF at = "start" THEN "close" ELSE "clear")
             /\ status' = "stopped" /\ rc' = "stopped"
    <3>1. Phases' /\ WayBack'
      BY <2>1, <2>3
    <3>2. Undoing'
      BY <2>1, <2>3
    <3> QED
      BY <3>1, <3>2
  <2> QED
    BY <1>30, <2>2, <2>3 DEF Wifi!Stop, Wifi!Says
<1>31. CASE Wifi!Late
  BY <1>1, <1>31 DEF Wifi!Late
<1>32. CASE Wifi!Die
  BY <1>32 DEF Wifi!Die
<1>33. CASE Wifi!Rest
  BY <1>1, <1>33 DEF Wifi!Rest, Wifi!vars
<1>34. CASE UNCHANGED Wifi!vars
  BY <1>1, <1>34 DEF Wifi!vars
<1> QED
  BY <1>1, <1>2, <1>3, <1>4, <1>5, <1>6, <1>7, <1>8, <1>9, <1>10, <1>11, <1>12, <1>13,
     <1>14, <1>15, <1>16, <1>17, <1>18, <1>19, <1>20, <1>21, <1>22, <1>23, <1>24, <1>25,
     <1>26, <1>27, <1>28, <1>29, <1>30, <1>31, <1>32, <1>33, <1>34 DEF Wifi!Next,
     Wifi!Main

LEMMA AfterIs ==
  /\ Wifi!Unit!After["none"] = {"scanning", "error", "stopped"}
  /\ Wifi!Unit!After["scanning"] = {"ap_up", "error", "stopped"}
  /\ Wifi!Unit!After["ap_up"] = {"joining", "timeout", "stopped"}
  /\ Wifi!Unit!After["joining"] = {"connected", "failed", "stopped"}
  /\ Wifi!Unit!After["failed"] = {"ap_up", "timeout", "error", "stopped"}
  /\ \A e \in {"connected", "timeout", "error"} : Wifi!Unit!After[e] = {"stopped"}
BY DEF Wifi!Unit!After

LEMMA PhasesFollow ==
  ASSUME WifiInv, [Wifi!Next]_Wifi!vars
  PROVE  [Wifi!Unit!Next]_Wifi!Unit!vars
<1>. USE DEF WifiInv, Phases, Looking, Waiting, Joining, PutBack, Wifi!web, Wifi!join, Wifi!ending
<1> DEFINE isUp == at \notin {"over", "dead"}
<1>1. CASE isUp /\ isUp' /\ status' = status
  BY <1>1 DEF Wifi!Unit!vars
<1>2. CASE isUp /\ isUp' /\ status' \in Wifi!Unit!After[status]
  BY <1>2 DEF Wifi!Unit!Next, Wifi!Unit!Write
<1>3. CASE Wifi!NoDevice
  BY <1>1, <1>2, <1>3, AfterIs DEF Wifi!NoDevice, Wifi!Go, Wifi!Says
<1>4. CASE Wifi!Scan
  BY <1>1, <1>2, <1>4, AfterIs DEF Wifi!Scan, Wifi!Go, Wifi!Says
<1>5. CASE Wifi!Raise
  BY <1>1, <1>2, <1>5, AfterIs DEF Wifi!Raise, Wifi!Go, Wifi!GiveUp, Wifi!Says, Wifi!Forgets
<1>6. CASE Wifi!Serve
  BY <1>1, <1>2, <1>6, AfterIs DEF Wifi!Serve, Wifi!Go, Wifi!GiveUp, Wifi!Says
<1>7. CASE Wifi!Show
  BY <1>1, <1>2, <1>7, AfterIs DEF Wifi!Show, Wifi!Go, Wifi!Says
<1>8. CASE Wifi!Taken
  BY <1>1, <1>2, <1>8, AfterIs DEF Wifi!Taken, Wifi!Go
<1>9. CASE Wifi!TimesOut
  BY <1>1, <1>2, <1>9, AfterIs DEF Wifi!TimesOut, Wifi!Go, Wifi!GiveUp, Wifi!Says
<1>10. CASE Wifi!Leaves
  BY <1>1, <1>2, <1>10, AfterIs DEF Wifi!Leaves, Wifi!Go, Wifi!Says
<1>11. CASE Wifi!Join
  BY <1>1, <1>2, <1>11, AfterIs DEF Wifi!Join
<1>12. CASE Wifi!Modify
  BY <1>1, <1>2, <1>12, AfterIs DEF Wifi!Modify
<1>13. CASE Wifi!TryNew
  BY <1>1, <1>2, <1>13, AfterIs DEF Wifi!TryNew
<1>14. CASE Wifi!Undo
  BY <1>1, <1>2, <1>14, AfterIs DEF Wifi!Undo, Wifi!Unpend, Wifi!Go
<1>15. CASE Wifi!Restore
  BY <1>1, <1>2, <1>15, AfterIs DEF Wifi!Restore, Wifi!Go
<1>16. CASE Wifi!Connect
  BY <1>1, <1>2, <1>16, AfterIs DEF Wifi!Connect, Wifi!Go
<1>17. CASE Wifi!Return
  BY <1>1, <1>2, <1>17, AfterIs DEF Wifi!Return, Wifi!Unpend, Wifi!Go
<1>18. CASE Wifi!Handed
  BY <1>1, <1>2, <1>18, AfterIs DEF Wifi!Handed
<1>19. CASE Wifi!Online
  BY <1>1, <1>2, <1>19, AfterIs DEF Wifi!Online, Wifi!Go, Wifi!Says
<1>20. CASE Wifi!Offline
  BY <1>1, <1>2, <1>20, AfterIs DEF Wifi!Offline, Wifi!Go
<1>21. CASE Wifi!Done
  BY <1>1, <1>2, <1>21, AfterIs DEF Wifi!Done, Wifi!Go
<1>22. CASE Wifi!JoinFailed
  BY <1>1, <1>2, <1>22, AfterIs DEF Wifi!JoinFailed, Wifi!Go, Wifi!Says, Wifi!DropMade
<1>23. CASE Wifi!Again
  BY <1>1, <1>2, <1>23, AfterIs DEF Wifi!Again, Wifi!Go, Wifi!GiveUp, Wifi!Says
<1>24. CASE Wifi!Clear
  BY <1>1, <1>2, <1>24, AfterIs DEF Wifi!Clear, Wifi!Go
<1>25. CASE Wifi!UndoPending
  BY <1>1, <1>2, <1>25, AfterIs DEF Wifi!UndoPending, Wifi!Go, Wifi!Unpend
<1>26. CASE Wifi!Unjoin
  BY <1>1, <1>2, <1>26, AfterIs DEF Wifi!Unjoin, Wifi!Go
<1>27. CASE Wifi!Drop
  BY <1>1, <1>2, <1>27, AfterIs DEF Wifi!Drop, Wifi!Go, Wifi!DropMade
<1>28. CASE Wifi!Back
  BY <1>1, <1>2, <1>28, AfterIs DEF Wifi!Back, Wifi!Go
<1>29. CASE Wifi!Close
  BY <1>1, <1>2, <1>29, AfterIs DEF Wifi!Close, Wifi!Go, Wifi!Unit!Next, Wifi!Unit!Leave,
     Wifi!Unit!Ends
<1>30. CASE Wifi!Post
  BY <1>1, <1>2, <1>30, AfterIs DEF Wifi!Post
<1>31. CASE Wifi!Stop
  BY <1>1, <1>2, <1>31, AfterIs DEF Wifi!Stop, Wifi!Says
<1>32. CASE Wifi!Late
  BY <1>1, <1>2, <1>32, AfterIs DEF Wifi!Late
<1>33. CASE Wifi!Die
  BY <1>1, <1>2, <1>33, AfterIs DEF Wifi!Die, Wifi!Unit!Next, Wifi!Unit!Die
<1>34. CASE Wifi!Rest
  BY <1>1, <1>2, <1>34, AfterIs DEF Wifi!Rest, Wifi!vars, Wifi!Unit!vars
<1>35. CASE UNCHANGED Wifi!vars
  BY <1>35 DEF Wifi!vars, Wifi!Unit!vars
<1> QED
  BY <1>3, <1>4, <1>5, <1>6, <1>7, <1>8, <1>9, <1>10, <1>11, <1>12, <1>13, <1>14, <1>15,
     <1>16, <1>17, <1>18, <1>19, <1>20, <1>21, <1>22, <1>23, <1>24, <1>25, <1>26, <1>27,
     <1>28, <1>29, <1>30, <1>31, <1>32, <1>33, <1>34, <1>35 DEF Wifi!Next, Wifi!Main

(* Of the parts of the box, the setup goes its own way. *)
LEMMA WifiAlone == [Next]_vars => [Wifi!Next]_Wifi!vars
BY DEF Next, HeldGoes, LineGoes, PairGoes, DeviceGoes, KeyGoes, PhoneGoes, WifiGoes,
   EngineGoes, VenvsGoes, heldOnly, lineOnly, pairOnly, deviceOnly, keyOnly, phoneOnly,
   engineOnly, venvsOnly, vars, wifiVars, Wifi!vars, Wifi!web, Wifi!join, Wifi!ending

(* A setup that ends short of a connection leaves the box as it was, but    *)
(* for the password whose putting back, or the profile whose deletion or    *)
(* handing over, the stop itself cut off.                                   *)
THEOREM TheBoxIsBack == Spec => []BackAsItWas
<1>1. Init => WifiInv
  BY DEF Init, Wifi!Init, WifiInv, Phases, Undoing, WayBack, Looking, Waiting, Joining,
     PutBack
<1>2. WifiInv /\ [Next]_vars => WifiInv'
  BY WifiKeeps, WifiAlone
<1>3. WifiInv => BackAsItWas
  BY DEF BackAsItWas, WifiInv, Phases, Undoing, WayBack, Wifi!BackAsItWas
<1> QED
  BY <1>1, <1>2, <1>3, PTL DEF Spec

(* The status file goes through the phases that those who follow the setup  *)
(* count on: the unit implements what SetupUnit promises.                   *)
THEOREM WifiIsSetupUnit == Spec => IsSetupUnit
<1>1. Init => WifiInv /\ Wifi!Unit!Init
  BY DEF Init, Wifi!Init, WifiInv, Phases, Undoing, WayBack, Looking, Waiting, Joining,
     PutBack, Wifi!Unit!Init
<1>2. WifiInv /\ [Next]_vars => WifiInv' /\ [Wifi!Unit!Next]_Wifi!Unit!vars
  BY WifiKeeps, PhasesFollow, WifiAlone
<1> QED
  BY <1>1, <1>2, PTL DEF Spec, IsSetupUnit, Wifi!IsSetupUnit, Wifi!Unit!Spec

-----------------------------------------------------------------------------
(* The owner's phone at the settings.                                       *)

PhoneInv ==
  /\ session_phone \in [Phones -> Nat] /\ by \in [Phone!SignIns -> Phones \cup {0}]
  /\ signIns \in Nat /\ pending \in 0..signIns /\ signIns <= MaxSignIns
  /\ starting \subseteq Phones
  /\ pendingLeft \in Nat /\ pendingLeft <= PENDING
  /\ pending # 0 => by[pending] \in Phones
  /\ Phone!RoundTripInSession

LEMMA PhoneKeeps ==
  ASSUME PENDING \in Nat, SESSION \in Nat, PENDING <= SESSION, MaxSignIns \in Nat,
         PhoneInv, [Phone!Next]_Phone!vars
  PROVE  PhoneInv'
<1>. USE DEF PhoneInv, Phone!RoundTripInSession, Phone!SignIns, Phone!NONE, Phone!codeVars, Phone!signVars,
             Phone!orVars, Phone!heldVars
<1>1. CASE UNCHANGED <<session_phone, by, signIns, pending, pendingLeft>> /\ starting' \subseteq Phones
  BY <1>1
<1>2. CASE Phone!Opens
  BY <1>1, <1>2 DEF Phone!Opens
<1>3. CASE Phone!Guesses
  BY <1>1, <1>3 DEF Phone!Guesses
<1>4. CASE Phone!Tick
  BY <1>4 DEF Phone!Tick, Phone!Less
<1>5. ASSUME NEW p \in Phones, NEW c \in Phone!Codes, Phone!Redeems(p, c) PROVE PhoneInv'
  BY <1>5 DEF Phone!Redeems
<1>6. ASSUME NEW p \in Phones, Phone!StartRequested(p) PROVE PhoneInv'
  BY <1>1, <1>6 DEF Phone!StartRequested
<1>7. ASSUME NEW p \in Phones, Phone!Started(p) PROVE PhoneInv'
  BY <1>7 DEF Phone!Started, Phone!kept_session
<1>8. ASSUME NEW p \in Phones, Phone!Retries(p) \/ Phone!KeyPasted(p) PROVE PhoneInv'
  BY <1>1, <1>8 DEF Phone!Retries, Phone!KeyPasted
<1>9. ASSUME NEW p \in Phones, NEW m \in Phone!SignIns, Phone!FinishTapped(p, m) \/ Phone!CodePasted(p, m) PROVE PhoneInv'
  BY <1>9 DEF Phone!FinishTapped, Phone!CodePasted, Phone!Finishes, Phone!_take
<1>10. ASSUME NEW m \in Phone!SignIns, Phone!Grants(m) PROVE PhoneInv'
  BY <1>1, <1>10 DEF Phone!Grants
<1>11. ASSUME NEW f \in finishing, Phone!Exchanged(f) \/ Phone!SaveEnds(f) PROVE PhoneInv'
  BY <1>1, <1>11 DEF Phone!Exchanged, Phone!SaveEnds
<1>12. CASE Phone!Over \/ UNCHANGED Phone!vars
  BY <1>1, <1>12 DEF Phone!Over, Phone!vars
<1> QED
  BY <1>2, <1>3, <1>4, <1>5, <1>6, <1>7, <1>8, <1>9, <1>10, <1>11, <1>12 DEF Phone!Next

(* And so do the settings. *)
LEMMA PhoneAlone == [Next]_vars => [Phone!Next]_Phone!vars
BY DEF Next, HeldGoes, LineGoes, PairGoes, DeviceGoes, KeyGoes, PhoneGoes, WifiGoes,
   EngineGoes, VenvsGoes, heldOnly, lineOnly, pairOnly, deviceOnly, keyOnly, wifiOnly,
   engineOnly, venvsOnly, vars, phoneVars, Phone!vars, Phone!codeVars, Phone!signVars,
   Phone!orVars, Phone!heldVars

(* A phone that comes back from OpenRouter with its sign-in still pending   *)
(* is still in its session, and what it brings is exchanged with its own    *)
(* verifier.  The session is at least as long as a sign-in may be pending.  *)
THEOREM SignInIsItsOwn ==
  ASSUME PENDING \in Nat, SESSION \in Nat, PENDING <= SESSION, MaxSignIns \in Nat
  PROVE  Spec => SignInIsOwn
<1>1. Init => PhoneInv
  BY DEF Init, Phone!Init, PhoneInv, Phone!RoundTripInSession, Phone!NONE, Phone!SignIns
<1>2. PhoneInv /\ [Next]_vars => PhoneInv'
  BY PhoneKeeps, PhoneAlone
<1>3. PhoneInv => Phone!RoundTripInSession
  BY DEF PhoneInv
<1>4. [\A p \in Phones, n \in Phone!SignIns : Phone!FinishTapped(p, n) =>
         \A f \in finishing' \ finishing : f.code = f.verifier]_Phone!vars
  BY DEF Phone!FinishTapped, Phone!_live, Phone!Finishes, Phone!SignIns, Phone!NONE
<1> QED
  BY <1>1, <1>2, <1>3, <1>4, PTL DEF Spec, SignInIsOwn, Phone!SignInIsOwn, Phone!OwnVerifier

-----------------------------------------------------------------------------
(* The brain's releases.                                                    *)

(* What the run is to make live, and what was live before it did, is there; *)
(* nothing is pruned while a link is on its way.                            *)
BrainInv ==
  /\ built \in Nat /\ venvs \subseteq Venvs!Release
  /\ pc_venvs = "stage" => from = 100 /\ built < Max
  /\ pc_venvs \in {"detach", "migrate", "park", "free", "stop", "tools", "aside", "link"}
       \/ (pc_venvs = "retire" /\ run_venvs = "full") => staged_venvs \in venvs
  /\ pc_venvs \in {"aside", "link", "previous"} => from \in venvs \cup {100}
  /\ pc_venvs = "aside" => from = link
  /\ pc_venvs = "verify" => run_venvs # "full"
  /\ pc_venvs \in {"previous", "restart", "verify", "restore", "forget", "prune"}
       \/ (pc_venvs = "retire" /\ run_venvs # "full") => link # 100
  /\ Venvs!InstallIsWhole

LEMMA BrainKeeps ==
  ASSUME Max \in Nat, Max < 100, BrainInv, [Venvs!Next]_Venvs!vars
  PROVE  BrainInv'
<1>. USE DEF BrainInv, Venvs!InstallIsWhole, Venvs!Release, Venvs!Nothing, Venvs!tools, Venvs!brain, Venvs!sip,
             Venvs!flags, Venvs!move, Venvs!Goes, Venvs!Goes2, Venvs!Steady, Venvs!Pruned, Venvs!PruneTools
<1> HIDE DEF Venvs!Pruned
<1>0. \A vs : /\ Venvs!Pruned(vs) \subseteq vs
              /\ \A v \in vs : v \in {link, prev_venvs} => v \in Venvs!Pruned(vs)
  BY DEF Venvs!Pruned
<1>1. CASE Venvs!Only
  BY <1>0, <1>1 DEF Venvs!Only, Venvs!Begins
<1>2. CASE Venvs!Full
  BY <1>0, <1>2 DEF Venvs!Full, Venvs!Begins
<1>3. CASE Venvs!Rollback
  BY <1>0, <1>3 DEF Venvs!Rollback, Venvs!Begins
<1>4. CASE Venvs!Stage
  <2>1. /\ built' = built + 1 /\ staged_venvs' = built + 1 /\ pc_venvs' = "detach"
        /\ venvs' = Venvs!Pruned(venvs) \cup {built + 1} /\ built + 1 \in 0..Max
        /\ from = 100 /\ UNCHANGED <<link, prev_venvs, current_venvs, from>>
    BY <1>4 DEF Venvs!Stage
  <2>2. venvs' \subseteq Venvs!Release /\ staged_venvs' \in venvs'
    BY <1>0, <2>1
  <2>3. /\ IF link' # 100 THEN link' \in venvs' ELSE from' # 100 => 0 \in venvs'
        /\ prev_venvs' \in venvs' \cup {100}
    BY <1>0, <2>1
  <2>4. current_venvs' \in toolsOf' \cup {100}
    BY <1>4 DEF Venvs!Stage
  <2> QED
    BY <2>1, <2>2, <2>3, <2>4
<1>5. CASE Venvs!NotBuilt
  BY <1>0, <1>5 DEF Venvs!NotBuilt, Venvs!Exits
<1>6. CASE Venvs!NothingToDetach
  BY <1>0, <1>6 DEF Venvs!NothingToDetach
<1>7. CASE Venvs!Detach
  BY <1>0, <1>7 DEF Venvs!Detach
<1>8. CASE Venvs!Migrate
  BY <1>0, <1>8 DEF Venvs!Migrate
<1>9. CASE Venvs!NotMigrated
  BY <1>0, <1>9 DEF Venvs!NotMigrated, Venvs!Exits
<1>10. CASE Venvs!Park
  BY <1>0, <1>10 DEF Venvs!Park
<1>11. CASE Venvs!Free
  BY <1>0, <1>11 DEF Venvs!Free
<1>12. CASE Venvs!StopOld
  BY <1>0, <1>12 DEF Venvs!StopOld
<1>13. CASE Venvs!Retire
  BY <1>0, <1>13 DEF Venvs!Retire
<1>14. CASE Venvs!Tools
  BY <1>0, <1>14 DEF Venvs!Tools
<1>15. CASE Venvs!Aside
  BY <1>0, <1>15 DEF Venvs!Aside
<1>16. CASE Venvs!Point
  BY <1>0, <1>16 DEF Venvs!Point
<1>17. CASE Venvs!Previous
  BY <1>0, <1>17 DEF Venvs!Previous
<1>18. CASE Venvs!Restart
  BY <1>0, <1>18 DEF Venvs!Restart
<1>19. CASE Venvs!Verified
  <2>1. /\ pc_venvs = "verify" /\ run_venvs # "full" /\ link # 100
        /\ UNCHANGED <<built, venvs, toolsOf, current_venvs, staged_venvs, from, link, prev_venvs>>
    BY <1>19 DEF Venvs!Verified
  <2>2. pc_venvs' = "rest" \/ (pc_venvs' \in {"retire", "prune"} /\ run_venvs' = run_venvs)
    BY <1>19 DEF Venvs!Verified, Venvs!Exits
  <2> QED
    BY <2>1, <2>2
<1>20. CASE Venvs!Failed
  BY <1>0, <1>20 DEF Venvs!Failed, Venvs!Exits
<1>21. CASE Venvs!Restore
  BY <1>0, <1>21 DEF Venvs!Restore
<1>22. CASE Venvs!Forget
  BY <1>0, <1>22 DEF Venvs!Forget
<1>23. CASE Venvs!Prune
  BY <1>0, <1>23 DEF Venvs!Prune, Venvs!Exits
<1>24. CASE Venvs!Stopped
  BY <1>0, <1>24 DEF Venvs!Stopped, Venvs!Exits
<1>25. CASE Venvs!Boots
  BY <1>0, <1>25 DEF Venvs!Boots
<1>26. CASE Venvs!Rest
  BY <1>0, <1>26 DEF Venvs!Rest, Venvs!vars
<1>27. CASE UNCHANGED Venvs!vars
  BY <1>27 DEF Venvs!vars
<1> QED
  BY <1>1, <1>2, <1>3, <1>4, <1>5, <1>6, <1>7, <1>8, <1>9, <1>10, <1>11, <1>12, <1>13,
     <1>14, <1>15, <1>16, <1>17, <1>18, <1>19, <1>20, <1>21, <1>22, <1>23, <1>24, <1>25,
     <1>26, <1>27 DEF Venvs!Next

(* And so does the brain's installer. *)
LEMMA VenvsAlone == [Next]_vars => [Venvs!Next]_Venvs!vars
BY DEF Next, HeldGoes, LineGoes, PairGoes, DeviceGoes, KeyGoes, PhoneGoes, WifiGoes,
   EngineGoes, VenvsGoes, heldOnly, lineOnly, pairOnly, deviceOnly, keyOnly, phoneOnly,
   wifiOnly, engineOnly, vars, venvsVars, Venvs!vars, Venvs!tools, Venvs!brain, Venvs!sip,
   Venvs!flags, Venvs!move

(* Whatever stopped where, the brain that is live and the way back to it    *)
(* are on the disk, with their tools.                                       *)
THEOREM TheBrainIsThere ==
  ASSUME Max \in Nat, Max < 100, FirstBrain \in Venvs!Release
  PROVE  Spec => []Venvs!InstallIsWhole
<1>1. Init => BrainInv
  BY DEF Init, Venvs!Init, BrainInv, Venvs!InstallIsWhole, Venvs!Release, Venvs!Nothing
<1>2. BrainInv /\ [Next]_vars => BrainInv'
  BY BrainKeeps, VenvsAlone
<1>3. BrainInv => Venvs!InstallIsWhole
  BY DEF BrainInv
<1> QED
  BY <1>1, <1>2, <1>3, PTL DEF Spec

-----------------------------------------------------------------------------
(* How a run of the brain's installer ends.                                 *)

(* What the steps need of the kinds of the state; the run that puts the     *)
(* previous brain back is one of --only.                                    *)
BrainKinds ==
  /\ unit_venvs \in BOOLEAN /\ old_venvs \in BOOLEAN
  /\ was_venvs.sip.unit \in BOOLEAN /\ was_venvs.sip.old \in BOOLEAN
  /\ gateway \in {"tied", "free"}
  /\ was_venvs = [link |-> was_venvs.link, up |-> was_venvs.up, sip |-> was_venvs.sip]
  /\ was_venvs.sip = [unit |-> was_venvs.sip.unit, old |-> was_venvs.sip.old,
                      gateway |-> was_venvs.sip.gateway, dropin |-> was_venvs.sip.dropin]
  /\ ours = [gateway |-> ours.gateway, dropin |-> ours.dropin]
  /\ run_venvs \in {"none", "only", "full", "rollback"} /\ (run_venvs = "none" <=> pc_venvs = "rest")
  /\ back /\ run_venvs # "none" => run_venvs = "only"
  /\ pc_venvs \in {"restore", "forget"} => back

(* Once tools are installed at all, whatever can become live has its own.   *)
OwnTools ==
  /\ link # 100 /\ current_venvs # 100 => link \in toolsOf
  /\ prev_venvs # 100 => prev_venvs \in toolsOf
  /\ pc_venvs \in {"detach", "migrate", "park", "free", "stop", "tools", "aside", "link"}
       \/ (pc_venvs = "retire" /\ run_venvs = "full") => staged_venvs \in toolsOf
  /\ pc_venvs \in {"aside", "link", "previous"} =>
       current_venvs = staged_venvs /\ (from # 100 => from \in toolsOf)

(* What was pointed at is live, with its tools, and from the restart on it  *)
(* runs.                                                                    *)
InPlace ==
  /\ pc_venvs \in {"previous", "restart", "verify", "restore", "forget", "prune"}
       \/ (pc_venvs = "retire" /\ run_venvs # "full")
       => link = staged_venvs /\ current_venvs = staged_venvs
  /\ pc_venvs \in {"verify", "prune"} \/ (pc_venvs = "retire" /\ run_venvs # "full") => up_venvs = link

(* The old SIP brain: none without its unit, detached before the links move,*)
(* out of the way of a run that goes on without putting anything back.      *)
OldOne ==
  /\ ~unit_venvs => ~old_venvs /\ gateway = "free"
  /\ detached => unit_venvs
  /\ run_venvs = "rollback" =>
       ~detached /\ pc_venvs \in {"tools", "aside", "link", "previous", "restart", "verify"}
  /\ pc_venvs \in {"stop", "retire"} => gateway = "free"
  /\ run_venvs = "only" /\ ~back
       /\ pc_venvs \in {"tools", "aside", "link", "previous", "restart", "verify"} => gateway = "free"
  /\ pc_venvs \in {"stage", "detach"} => ~detached /\ ~ours.gateway /\ ~ours.dropin
  /\ pc_venvs \in {"migrate", "park", "free", "stop"} => detached
  /\ run_venvs = "full"
       /\ pc_venvs \in {"tools", "aside", "link", "previous", "restart"} => ~unit_venvs
  /\ pc_venvs = "prune" => ~unit_venvs

(* The phone line is as the run found it, or sip_brain_restore makes it so: *)
(* the run knows of all it has undone, and of nothing else.                 *)
SipSame ==
  /\ (unit_venvs <=> was_venvs.sip.unit) /\ (old_venvs <=> was_venvs.sip.old)
  /\ gateway = was_venvs.sip.gateway /\ dropin = was_venvs.sip.dropin
Undoes ==
  IF detached
  THEN /\ was_venvs.sip.unit /\ (was_venvs.sip.old <=> active_venvs) /\ (old_venvs => active_venvs)
       /\ IF ours.gateway THEN saved /\ was_venvs.sip.gateway = "tied"
                          ELSE was_venvs.sip.gateway = gateway
       /\ IF ours.dropin THEN was_venvs.sip.dropin = "there" ELSE was_venvs.sip.dropin = dropin
       /\ pc_venvs \in {"migrate", "park"} => ~ours.gateway /\ ~ours.dropin
       /\ pc_venvs = "free" => ~ours.gateway
  ELSE SipSame
SipKept ==
  (run_venvs = "only" /\ pc_venvs # "prune")
    \/ pc_venvs \in {"stage", "detach", "migrate", "park", "free", "stop"} => Undoes

(* The link and the brain on it, until the run moves them; and then what it *)
(* goes back to is what it found.                                           *)
AsFound ==
  /\ pc_venvs \in {"stage", "detach", "migrate"} => link = was_venvs.link /\ up_venvs = was_venvs.up
  /\ run_venvs = "only" =>
      /\ was_venvs.link # 100
      /\ ~back =>
          /\ pc_venvs \in {"stage", "detach", "migrate", "park", "free", "stop", "tools"}
                => link = was_venvs.link
          /\ pc_venvs \in {"detach", "migrate", "park", "free", "stop", "tools", "aside", "link", "previous"}
                => staged_venvs # was_venvs.link
          /\ pc_venvs \in {"aside", "link", "previous"} => from = was_venvs.link
          /\ pc_venvs \in {"restart", "verify"} => prev_venvs = was_venvs.link
          /\ pc_venvs \notin {"restore", "forget"}
      /\ back => staged_venvs = was_venvs.link
      /\ pc_venvs # "stage" \/ ~back
Made == \A v \in venvs : v <= built

ToldInv ==
  BrainInv /\ BrainKinds /\ OwnTools /\ InPlace /\ OldOne /\ SipKept /\ AsFound /\ Made

(* sip_brain_restore keeps the kinds, and puts the phone line back.         *)
LEMMA RestoresIs ==
  ASSUME BrainKinds, OldOne, Venvs!Restores
  PROVE  /\ old_venvs' \in BOOLEAN /\ gateway' \in {"tied", "free"}
         /\ ours' = [gateway |-> ours'.gateway, dropin |-> ours'.dropin]
         /\ unit_venvs' = unit_venvs /\ ~detached' /\ (~unit_venvs => ~old_venvs' /\ gateway' = "free")
         /\ Undoes /\ was_venvs' = was_venvs => SipSame'
<1>. USE DEF BrainKinds, OldOne, Undoes, SipSame, Venvs!Restores, Venvs!sip, Venvs!flags, Venvs!NoOurs
<1>1. CASE ~detached
  <2>1. UNCHANGED <<unit_venvs, old_venvs, gateway, dropin, ours, detached>>
    BY <1>1
  <2> QED
    BY <1>1, <2>1
<1>2. CASE detached
  <2>1. /\ gateway' = IF ours.gateway /\ saved THEN "tied" ELSE gateway
        /\ dropin' = IF ours.dropin THEN "there" ELSE dropin
        /\ old_venvs' = IF active_venvs THEN TRUE ELSE old_venvs
        /\ detached' = FALSE /\ ours' = [gateway |-> FALSE, dropin |-> FALSE] /\ unit_venvs' = unit_venvs
    BY <1>2
  <2>2. old_venvs' \in BOOLEAN /\ gateway' \in {"tied", "free"}
    BY <2>1
  <2>3. Undoes /\ was_venvs' = was_venvs => SipSame'
    BY <1>2, <2>1
  <2> QED
    BY <1>2, <2>1, <2>2, <2>3
<1> QED
  BY <1>1, <1>2

(* Every step of the installer keeps it. *)
LEMMA ToldKeeps ==
  ASSUME Max \in Nat, Max < 100, ToldInv, [Venvs!Next]_Venvs!vars
  PROVE  (BrainKinds /\ OwnTools /\ InPlace /\ OldOne /\ SipKept /\ AsFound /\ Made)'
<1>. USE DEF ToldInv, BrainInv, BrainKinds, OwnTools, InPlace, OldOne, SipKept, Undoes, SipSame, AsFound, Made,
             Venvs!InstallIsWhole, Venvs!Release, Venvs!Nothing, Venvs!tools, Venvs!brain, Venvs!sip,
             Venvs!flags, Venvs!move, Venvs!Goes, Venvs!Goes2, Venvs!Steady, Venvs!Pruned, Venvs!PruneTools,
             Venvs!NoOurs, Venvs!Exits, Venvs!Begins, Venvs!Box, Venvs!Sip
<1> HIDE DEF Venvs!Pruned
<1>0. \A vs : /\ Venvs!Pruned(vs) \subseteq vs
              /\ \A v \in vs : v \in {link, prev_venvs} => v \in Venvs!Pruned(vs)
  BY DEF Venvs!Pruned
<1>1. CASE Venvs!Only
  BY <1>0, <1>1 DEF Venvs!Only
<1>2. CASE Venvs!Full
  BY <1>0, <1>2 DEF Venvs!Full
<1>3. CASE Venvs!Rollback
  BY <1>0, <1>3 DEF Venvs!Rollback
<1>4. CASE Venvs!Stage
  BY <1>0, <1>4 DEF Venvs!Stage
<1>5. CASE Venvs!NotBuilt
  BY <1>0, <1>5, RestoresIs DEF Venvs!NotBuilt
<1>6. CASE Venvs!NothingToDetach
  BY <1>0, <1>6 DEF Venvs!NothingToDetach
<1>7. CASE Venvs!Detach
  <2>1. BrainKinds'
    BY <1>0, <1>7 DEF Venvs!Detach
  <2>2. OwnTools'
    BY <1>0, <1>7 DEF Venvs!Detach
  <2>3. InPlace'
    BY <1>0, <1>7 DEF Venvs!Detach
  <2>4. OldOne'
    BY <1>0, <1>7 DEF Venvs!Detach
  <2>5. SipKept'
    <3>1. /\ detached' /\ was_venvs'.sip = [unit |-> unit_venvs, old |-> old_venvs, gateway |-> gateway', dropin |-> dropin']
          /\ ours' = ours /\ (active_venvs' <=> old_venvs) /\ unit_venvs
          /\ old_venvs' = old_venvs /\ pc_venvs' = "migrate"
      BY <1>7 DEF Venvs!Detach
    <3>2. ~ours.gateway /\ ~ours.dropin
      BY <1>7 DEF Venvs!Detach
    <3>3. Undoes'
      BY <3>1, <3>2
    <3> QED
      BY <3>3
  <2>6. AsFound'
    BY <1>0, <1>7 DEF Venvs!Detach
  <2>7. Made'
    BY <1>0, <1>7 DEF Venvs!Detach
  <2> QED
    BY <2>1, <2>2, <2>3, <2>4, <2>5, <2>6, <2>7
<1>8. CASE Venvs!Migrate
  BY <1>0, <1>8 DEF Venvs!Migrate
<1>9. CASE Venvs!NotMigrated
  BY ZenonT(60), <1>0, <1>9, RestoresIs DEF Venvs!NotMigrated
<1>10. CASE Venvs!Park
  <2>1. BrainKinds'
    BY <1>0, <1>10 DEF Venvs!Park
  <2>2. OwnTools'
    BY <1>0, <1>10 DEF Venvs!Park
  <2>3. InPlace'
    BY <1>0, <1>10 DEF Venvs!Park
  <2>4. OldOne'
    BY <1>0, <1>10 DEF Venvs!Park
  <2>5. SipKept'
    <3>1. /\ pc_venvs = "park" /\ pc_venvs' = "free" /\ ours' = [gateway |-> ours.gateway, dropin |-> dropin = "there"]
          /\ dropin' = IF dropin = "there" THEN "pending" ELSE dropin
          /\ UNCHANGED <<detached, was_venvs, active_venvs, old_venvs, unit_venvs, saved, gateway>>
      BY <1>10 DEF Venvs!Park
    <3> QED
      BY <3>1
  <2>6. AsFound'
    BY <1>0, <1>10 DEF Venvs!Park
  <2>7. Made'
    BY <1>0, <1>10 DEF Venvs!Park
  <2> QED
    BY <2>1, <2>2, <2>3, <2>4, <2>5, <2>6, <2>7
<1>11. CASE Venvs!Free
  <2>1. BrainKinds'
    BY <1>0, <1>11 DEF Venvs!Free
  <2>2. OwnTools'
    BY <1>0, <1>11 DEF Venvs!Free
  <2>3. InPlace'
    BY <1>0, <1>11 DEF Venvs!Free
  <2>4. OldOne'
    BY <1>0, <1>11 DEF Venvs!Free
  <2>5. SipKept'
    <3>1. /\ pc_venvs = "free" /\ pc_venvs' = "stop" /\ ours' = [gateway |-> gateway = "tied", dropin |-> ours.dropin]
          /\ (saved' <=> gateway = "tied") /\ gateway' = "free"
          /\ UNCHANGED <<detached, was_venvs, active_venvs, old_venvs, unit_venvs, dropin>>
      BY <1>11 DEF Venvs!Free
    <3> QED
      BY ZenonT(60), <3>1
  <2>6. AsFound'
    BY <1>0, <1>11 DEF Venvs!Free
  <2>7. Made'
    BY <1>0, <1>11 DEF Venvs!Free
  <2> QED
    BY <2>1, <2>2, <2>3, <2>4, <2>5, <2>6, <2>7
<1>12. CASE Venvs!StopOld
  <2>1. BrainKinds'
    BY <1>0, <1>12 DEF Venvs!StopOld
  <2>2. OwnTools'
    BY <1>0, <1>12 DEF Venvs!StopOld
  <2>3. InPlace'
    BY <1>0, <1>12 DEF Venvs!StopOld
  <2>4. OldOne'
    BY <1>0, <1>12 DEF Venvs!StopOld
  <2>5. SipKept'
    <3>1. /\ pc_venvs = "stop" /\ pc_venvs' \in {"retire", "tools"} /\ ~old_venvs'
          /\ UNCHANGED <<detached, was_venvs, active_venvs, unit_venvs, saved, gateway, dropin, ours>>
      BY <1>12 DEF Venvs!StopOld
    <3> QED
      BY <3>1
  <2>6. AsFound'
    BY <1>0, <1>12 DEF Venvs!StopOld
  <2>7. Made'
    BY <1>0, <1>12 DEF Venvs!StopOld
  <2> QED
    BY <2>1, <2>2, <2>3, <2>4, <2>5, <2>6, <2>7
<1>13. CASE Venvs!Retire
  <2>1. BrainKinds'
    BY ZenonT(60), <1>0, <1>13 DEF Venvs!Retire
  <2>2. OwnTools'
    BY <1>0, <1>13 DEF Venvs!Retire
  <2>3. InPlace'
    BY <1>0, <1>13 DEF Venvs!Retire
  <2>4. OldOne'
    BY <1>0, <1>13 DEF Venvs!Retire
  <2>5. SipKept'
    BY <1>0, <1>13 DEF Venvs!Retire
  <2>6. AsFound'
    BY <1>0, <1>13 DEF Venvs!Retire
  <2>7. Made'
    BY <1>0, <1>13 DEF Venvs!Retire
  <2> QED
    BY <2>1, <2>2, <2>3, <2>4, <2>5, <2>6, <2>7
<1>14. CASE Venvs!Tools
  BY <1>0, <1>14 DEF Venvs!Tools
<1>15. CASE Venvs!Aside
  BY <1>0, <1>15 DEF Venvs!Aside
<1>16. CASE Venvs!Point
  BY <1>0, <1>16 DEF Venvs!Point
<1>17. CASE Venvs!Previous
  BY <1>0, <1>17 DEF Venvs!Previous
<1>18. CASE Venvs!Restart
  BY <1>0, <1>18 DEF Venvs!Restart
<1>19. CASE Venvs!Verified
  BY <1>0, <1>19, RestoresIs DEF Venvs!Verified
<1>20. CASE Venvs!Failed
  BY <1>0, <1>20, RestoresIs DEF Venvs!Failed
<1>21. CASE Venvs!Restore
  BY <1>0, <1>21, RestoresIs DEF Venvs!Restore
<1>22. CASE Venvs!Forget
  BY <1>0, <1>22 DEF Venvs!Forget
<1>23. CASE Venvs!Prune
  BY <1>0, <1>23, RestoresIs DEF Venvs!Prune
<1>24. CASE Venvs!Stopped
  BY <1>0, <1>24, RestoresIs DEF Venvs!Stopped
<1>25. CASE Venvs!Boots
  BY <1>0, <1>25 DEF Venvs!Boots
<1>26. CASE Venvs!Rest
  BY <1>0, <1>26 DEF Venvs!Rest, Venvs!vars
<1>27. CASE UNCHANGED Venvs!vars
  BY <1>27 DEF Venvs!vars
<1> QED
  BY <1>1, <1>2, <1>3, <1>4, <1>5, <1>6, <1>7, <1>8, <1>9, <1>10, <1>11, <1>12, <1>13,
     <1>14, <1>15, <1>16, <1>17, <1>18, <1>19, <1>20, <1>21, <1>22, <1>23, <1>24, <1>25,
     <1>26, <1>27 DEF Venvs!Next

(* What BrainAsTold says of the step that ends a run.                       *)
Told ==
  /\ ended_venvs' = "ok" => /\ up_venvs' = link' /\ link' = staged_venvs /\ current_venvs' = link'
                            /\ run_venvs # "rollback" => ~old_venvs' /\ ~unit_venvs' /\ gateway' = "free"
  /\ ended_venvs' = "back" => /\ link' = was_venvs.link /\ up_venvs' = was_venvs.link /\ current_venvs' = link'
                              /\ Venvs!Sip' = was_venvs.sip
  /\ ended_venvs' = "untouched" => Venvs!Box' = was_venvs
  /\ run_venvs # "rollback" /\ ended_venvs' \notin {"stopped", "boot"} /\ old_venvs' /\ up_venvs' \in PhoneIn =>
       was_venvs.sip.old /\ {was_venvs.up, was_venvs.link} \cap PhoneIn # {}

(* Of the ends of a run each is as told. *)
LEMMA ToldAtTheEnd ==
  ASSUME ToldInv, (BrainKinds /\ OldOne)', Venvs!Next, run_venvs # "none", run_venvs' = "none"
  PROVE  Told
<1>. USE DEF ToldInv, BrainInv, BrainKinds, OwnTools, InPlace, OldOne, SipKept, AsFound, Told, Venvs!InstallIsWhole,
             Venvs!Goes, Venvs!Goes2, Venvs!Steady, Venvs!Exits, Venvs!Begins, Venvs!tools, Venvs!brain, Venvs!move
<1>0. ASSUME Venvs!Restores, Undoes, was_venvs' = was_venvs PROVE Venvs!Sip' = was_venvs.sip
  <2>1. SipSame'
    BY <1>0, RestoresIs
  <2>2. /\ Venvs!Sip' = [unit |-> unit_venvs', old |-> old_venvs', gateway |-> gateway', dropin |-> dropin']
        /\ was_venvs.sip = [unit |-> was_venvs.sip.unit, old |-> was_venvs.sip.old,
                            gateway |-> was_venvs.sip.gateway, dropin |-> was_venvs.sip.dropin]
    BY DEF Venvs!Sip
  <2>3. unit_venvs' = was_venvs.sip.unit /\ old_venvs' = was_venvs.sip.old
    BY <1>0, <2>1, Zenon DEF SipSame
  <2> QED
    BY <1>0, <2>1, <2>2, <2>3 DEF SipSame
<1>1. CASE Venvs!NotBuilt \/ Venvs!NotMigrated
  <2>1. /\ pc_venvs \in {"stage", "migrate"} /\ ended_venvs' = "untouched" /\ Venvs!Restores
        /\ UNCHANGED <<was_venvs, link, up_venvs>>
    BY <1>1 DEF Venvs!NotBuilt, Venvs!NotMigrated
  <2>2. Venvs!Sip' = was_venvs.sip
    BY <1>0, <2>1
  <2>3. link = was_venvs.link /\ up_venvs = was_venvs.up
    BY <2>1
  <2>4. Venvs!Box' = was_venvs
    BY <2>1, <2>2, <2>3 DEF Venvs!Box
  <2>5. old_venvs' = was_venvs.sip.old
    BY <2>2 DEF Venvs!Sip
  <2> QED
    BY <2>1, <2>3, <2>4, <2>5
<1>2. CASE Venvs!Verified
  <2>1. /\ pc_venvs = "verify" /\ run_venvs # "full" /\ Venvs!Restores
        /\ UNCHANGED <<was_venvs, link, up_venvs, current_venvs>>
        /\ IF back THEN ended_venvs' = "back" ELSE ended_venvs' = "ok" /\ run_venvs = "rollback"
    BY <1>2 DEF Venvs!Verified
  <2>2. back => Venvs!Sip' = was_venvs.sip
    BY <1>0, <2>1
  <2>3. back => (old_venvs' <=> was_venvs.sip.old)
    BY <2>2 DEF Venvs!Sip
  <2> QED
    BY <2>1, <2>2, <2>3
<1>3. CASE Venvs!Failed
  <2>1. /\ pc_venvs = "verify" /\ ended_venvs' = "died" /\ Venvs!Restores
        /\ UNCHANGED <<was_venvs, link, up_venvs>> /\ ~(run_venvs = "only" /\ ~back /\ prev_venvs \in venvs)
    BY <1>3 DEF Venvs!Failed
  <2>2. run_venvs = "rollback" \/ (run_venvs = "only" /\ back)
    BY <2>1 DEF Venvs!Nothing
  <2>3. back => (old_venvs' <=> was_venvs.sip.old)
    BY <1>0, <2>1, <2>2 DEF Venvs!Sip
  <2> QED
    BY <2>1, <2>2, <2>3
<1>4. CASE Venvs!Prune
  <2>1. /\ pc_venvs = "prune" /\ ended_venvs' = "ok" /\ Venvs!Restores
        /\ UNCHANGED <<link, up_venvs, current_venvs>>
    BY <1>4 DEF Venvs!Prune
  <2>2. ~unit_venvs' /\ ~old_venvs' /\ gateway' = "free"
    BY <2>1, RestoresIs
  <2> QED
    BY <2>1, <2>2
<1>5. CASE Venvs!Stopped \/ Venvs!Boots
  BY <1>5 DEF Venvs!Stopped, Venvs!Boots
<1> QED
  BY <1>1, <1>2, <1>3, <1>4, <1>5 DEF Venvs!Next, Venvs!Only, Venvs!Full, Venvs!Rollback,
     Venvs!Stage,
     Venvs!NothingToDetach, Venvs!Detach, Venvs!Migrate, Venvs!Park, Venvs!Free, Venvs!StopOld, Venvs!Retire,
     Venvs!Tools, Venvs!Aside, Venvs!Point, Venvs!Previous, Venvs!Restart, Venvs!Restore, Venvs!Forget, Venvs!Rest, Venvs!vars

(* A run of the brain's installer ends as it says: well, with what it made  *)
(* live running and the old SIP brain gone; rolled back, or with nothing    *)
(* swapped, with the box as the run found it.                               *)
THEOREM TheBrainIsAsTold ==
  ASSUME Max \in Nat, Max < 100, FirstBrain \in Venvs!Release, WithOld \in BOOLEAN
  PROVE  Spec => Venvs!BrainAsTold
<1>1. Init => ToldInv
  <2>1. Init => BrainInv
    BY DEF Init, Venvs!Init, BrainInv, Venvs!InstallIsWhole, Venvs!Release, Venvs!Nothing
  <2>2. Init => BrainKinds /\ OwnTools /\ InPlace /\ OldOne /\ SipKept /\ AsFound /\ Made
    BY DEF Init, Venvs!Init, BrainKinds, OwnTools, InPlace, OldOne, SipKept, AsFound,
       Made, Venvs!Release,
           Venvs!Nothing, Venvs!Box, Venvs!Sip, Venvs!NoOurs
  <2> QED
    BY <2>1, <2>2 DEF ToldInv
<1>2. ToldInv /\ [Next]_vars => ToldInv'
  BY ToldKeeps, BrainKeeps, VenvsAlone DEF ToldInv
<1>3. ToldInv /\ ToldInv' /\ [Next]_vars => [run_venvs # "none" /\ run_venvs' = "none" => Told]_Venvs!vars
  BY ToldAtTheEnd, VenvsAlone DEF ToldInv
<1> QED
  BY <1>1, <1>2, <1>3, PTL DEF Spec, Venvs!BrainAsTold, Told

-----------------------------------------------------------------------------
(* The pairing.                                                             *)

(* A pairing has its codes from the count, its own first one among them; an *)
(* end is given to one that is over, and no tap of it is left that could    *)
(* still hand out.                                                          *)
Taps == {"none", "queued", "mints", "minted", "failed", "made", "past", "gone"}

PairInv ==
  /\ issued \in 0..MaxCodes /\ session \in 0..issued /\ current \in 0..MaxCodes
  /\ pairing \in [Pair!Codes -> 0..MaxCodes] /\ result \in [Pair!Codes -> Pair!Results]
  /\ tap \in [Pair!Codes -> Taps] /\ page \in [Pair!Codes -> {"none", "handoff", "expired", "failed"}]
  /\ \A k \in Pair!Codes : pairing[k] # 0 => k <= issued
  /\ creating => session = 0 /\ issued < MaxCodes
  /\ session # 0 => current \in Pair!Codes /\ pairing[current] = session
  /\ \A k \in Pair!Codes : result[k] # "none" => k <= issued /\ k # session
  /\ \A k \in Pair!Codes : tap[k] \in Pair!Unminted /\ k \notin stopped => session # 0 /\ pairing[k] = session
  /\ Pair!NothingWasHandedOut

LEMMA PairEnds ==
  ASSUME MaxCodes \in Nat, PairInv, NEW r \in Pair!Results, Pair!End(r),
         r \in {"expired", "locked", "failed"} => session \notin made,
         UNCHANGED <<issued, pairing, current, made>>, creating' => issued < MaxCodes,
         tap' \in [Pair!Codes -> Taps], \A k \in Pair!Codes : tap'[k] \in Pair!Unminted => tap[k] \in Pair!Unminted,
         page' \in [Pair!Codes -> {"none", "handoff", "expired", "failed"}]
  PROVE  PairInv'
<1>. USE DEF PairInv, Taps, Pair!NothingWasHandedOut, Pair!Codes, Pair!Results, Pair!Unminted, Pair!Mine
<1>1. /\ session' = 0 /\ result' = [result EXCEPT ![session] = r]
      /\ stopped' = stopped \cup {k \in Pair!Codes : pairing[k] = session /\ session # 0 /\ tap[k] \in Pair!Unminted}
  BY DEF Pair!End, Pair!StopMints
<1>2. \A k \in Pair!Codes : result'[k] # "none" => k <= issued
  BY <1>1
<1>3. \A k \in Pair!Codes : tap[k] \in Pair!Unminted => k \in stopped'
  BY <1>1
<1>4. Pair!NothingWasHandedOut'
  BY <1>1
<1>5. \A k \in Pair!Codes : tap'[k] \in Pair!Unminted => k \in stopped'
  BY <1>3
<1>6. result' \in [Pair!Codes -> Pair!Results] /\ pairing' \in [Pair!Codes -> 0..MaxCodes]
  BY <1>1
<1>7. UNCHANGED <<issued, pairing, current, made>> /\ session' = 0
  BY <1>1
<1>8. \A k \in Pair!Codes : result'[k] # "none" => k <= issued' /\ k # session'
  BY <1>2, <1>7
<1> QED
  BY <1>4, <1>5, <1>6, <1>7, <1>8

LEMMA PairKeeps ==
  ASSUME MaxCodes \in Nat, PairInv, [Pair!Next]_Pair!vars
  PROVE  PairInv'
<1>. USE DEF PairInv, Taps, Pair!NothingWasHandedOut, Pair!Codes, Pair!Results, Pair!Unminted, Pair!Mine, Pair!code_usable,
             Pair!live_claim, Pair!minting, Pair!watching, Pair!codeVars, Pair!tapVars,
             Pair!endVars, Pair!watchVars
<1>1. CASE Pair!StartAgain
  BY <1>1 DEF Pair!StartAgain, Pair!FreshCode
<1>2. CASE Pair!StartEnds
  BY SMTT(30), <1>2 DEF Pair!StartEnds, Pair!End, Pair!StopMints, Pair!over
<1>3. CASE Pair!StartFirst
  BY <1>3 DEF Pair!StartFirst
<1>4. CASE Pair!Started
  <2>1. /\ creating /\ creating' = FALSE /\ UNCHANGED <<tap, page, stopped, made, result>>
    BY <1>4 DEF Pair!Started
  <2>2. CASE /\ issued' = issued + 1 /\ current' = issued + 1 /\ session' = issued + 1
             /\ pairing' = [pairing EXCEPT ![issued + 1] = issued + 1]
    <3>1. issued + 1 \in Pair!Codes /\ \A k \in Pair!Codes : tap[k] \in Pair!Unminted => k \in stopped
      BY <2>1
    <3> QED
      BY <2>1, <2>2, <3>1
  <2>3. CASE UNCHANGED <<issued, current, session, pairing>>
    BY <2>1, <2>3
  <2> QED
    BY <1>4, <2>2, <2>3 DEF Pair!Started, Pair!FreshCode
<1>5. CASE Pair!Cancel
  BY <1>5, PairEnds DEF Pair!Cancel
<1>6. CASE Pair!Withdraw
  <2>1. CASE Pair!End("cancelled")
    BY <1>6, <2>1, PairEnds DEF Pair!Withdraw
  <2>2. CASE Pair!StopMints /\ UNCHANGED Pair!endVars
    BY <1>6, <2>2 DEF Pair!Withdraw, Pair!StopMints
  <2> QED
    BY <1>6, <2>1, <2>2 DEF Pair!Withdraw
<1>7. ASSUME NEW k \in Pair!Codes, Pair!Redeem(k) PROVE PairInv'
  BY <1>7 DEF Pair!Redeem, Pair!find
<1>8. ASSUME NEW k \in Pair!Codes, Pair!MintStarts(k) PROVE PairInv'
  BY <1>8 DEF Pair!MintStarts
<1>9. ASSUME NEW k \in Pair!Codes, Pair!MintEnds(k) PROVE PairInv'
  BY <1>9 DEF Pair!MintEnds
<1>10. ASSUME NEW k \in Pair!Codes, Pair!HandedOut(k) PROVE PairInv'
  BY <1>10 DEF Pair!HandedOut
<1>11. ASSUME NEW k \in Pair!Codes, Pair!Refused(k) PROVE PairInv'
  BY <1>11 DEF Pair!Refused
<1>12. ASSUME NEW k \in Pair!Codes, Pair!MintFailed(k) PROVE PairInv'
  <2>1. /\ tap' = [tap EXCEPT ![k] = "gone"] /\ page' = [page EXCEPT ![k] = "failed"]
        /\ UNCHANGED <<issued, pairing, current, made, creating>>
    BY <1>12 DEF Pair!MintFailed
  <2>2. /\ tap' \in [Pair!Codes -> Taps] /\ page' \in [Pair!Codes -> {"none", "handoff", "expired", "failed"}]
        /\ \A j \in Pair!Codes : tap'[j] \in Pair!Unminted => tap[j] \in Pair!Unminted
    BY <2>1
  <2>3. CASE Pair!End("failed") /\ session \notin made
    BY <2>1, <2>2, <2>3, PairEnds
  <2>4. CASE UNCHANGED <<stopped, Pair!endVars>>
    BY <2>1, <2>2, <2>4
  <2> QED
    BY <1>12, <2>3, <2>4 DEF Pair!MintFailed, Pair!LeavesNothing
<1>13. ASSUME NEW k \in Pair!Codes, Pair!WatchRunsOut(k) PROVE PairInv'
  BY <1>13 DEF Pair!WatchRunsOut
<1>14. CASE Pair!WrongCode
  BY <1>14 DEF Pair!WrongCode
<1>15. CASE Pair!CodeRunsOut
  BY <1>15 DEF Pair!CodeRunsOut
<1>16. CASE Pair!DevicePairs
  BY <1>16 DEF Pair!DevicePairs
<1>17. CASE Pair!WaitBegins
  BY <1>17 DEF Pair!WaitBegins
<1>18. CASE Pair!PollStarts
  BY <1>18 DEF Pair!PollStarts
<1>19. CASE Pair!PollEnds
  BY SMTT(30), <1>19 DEF Pair!PollEnds, Pair!End, Pair!StopMints
<1>20. CASE Pair!WaitEnds
  BY <1>20, PairEnds DEF Pair!WaitEnds, Pair!over
<1>21. CASE Pair!WaitCancelled
  BY <1>21, PairEnds DEF Pair!WaitCancelled
<1>22. CASE Pair!Done \/ UNCHANGED Pair!vars
  BY SMTT(30), <1>22 DEF Pair!Done, Pair!vars
<1> QED
  BY <1>1, <1>2, <1>3, <1>4, <1>5, <1>6, <1>7, <1>8, <1>9, <1>10, <1>11, <1>12, <1>13,
     <1>14, <1>15, <1>16, <1>17, <1>18, <1>19, <1>20, <1>21, <1>22 DEF Pair!Next

HandoffIs(k) == result[pairing[k]] = "none" /\ result'[pairing[k]] = "none"
NoneLeft(k) == \A j \in Pair!Codes : pairing[j] = k => tap'[j] \notin {"queued", "mints", "minted", "made"}

(* A step gives the pairing that goes on its end, and no other. *)
LEMMA PairSteps ==
  ASSUME MaxCodes \in Nat, PairInv, [Pair!Next]_Pair!vars
  PROVE  /\ \A k \in Pair!Codes : page'[k] = "handoff" /\ page[k] # "handoff" => HandoffIs(k)
         /\ \A k \in Pair!Codes : result[k] = "none" /\ result'[k] \in {"opened", "expired", "locked", "failed"}
                                    => NoneLeft(k)
<1>. USE DEF PairInv, Taps, HandoffIs, NoneLeft, Pair!Codes, Pair!Results, Pair!Unminted, Pair!Mine, Pair!code_usable,
             Pair!live_claim, Pair!minting, Pair!watching, Pair!codeVars, Pair!tapVars,
             Pair!endVars, Pair!watchVars
<1>1. CASE Pair!StartEnds
  BY <1>1 DEF Pair!StartEnds, Pair!End, Pair!StopMints, Pair!over
<1>2. CASE Pair!Cancel \/ Pair!Withdraw
  BY SMTT(30), <1>2 DEF Pair!Cancel, Pair!Withdraw, Pair!End, Pair!StopMints
<1>3. ASSUME NEW k \in Pair!Codes, Pair!HandedOut(k)
      PROVE  /\ \A j \in Pair!Codes : page'[j] = "handoff" /\ page[j] # "handoff" => HandoffIs(j)
             /\ result' = result
  BY <1>3 DEF Pair!HandedOut
<1>4. ASSUME NEW k \in Pair!Codes, Pair!MintFailed(k)
      PROVE  /\ \A j \in Pair!Codes : page'[j] = "handoff" => page[j] = "handoff"
             /\ \A i \in Pair!Codes : result[i] = "none" /\ result'[i] # "none" => NoneLeft(i)
  BY <1>4 DEF Pair!MintFailed, Pair!LeavesNothing, Pair!End, Pair!StopMints
<1>5. ASSUME NEW k \in Pair!Codes, Pair!Refused(k)
      PROVE  result' = result /\ \A j \in Pair!Codes : page'[j] = "handoff" => page[j] = "handoff"
  BY <1>5 DEF Pair!Refused
<1>6. ASSUME NEW k \in Pair!Codes,
             Pair!Redeem(k) \/ Pair!MintStarts(k) \/ Pair!MintEnds(k) \/ Pair!WatchRunsOut(k)
      PROVE  UNCHANGED <<page, result>>
  BY <1>6 DEF Pair!Redeem, Pair!MintStarts, Pair!MintEnds, Pair!WatchRunsOut
<1>7. CASE Pair!StartAgain \/ Pair!StartFirst \/ Pair!Started \/ Pair!WrongCode \/ Pair!CodeRunsOut
           \/ Pair!DevicePairs \/ Pair!WaitBegins \/ Pair!PollStarts \/ Pair!Done \/ UNCHANGED Pair!vars
  BY <1>7 DEF Pair!StartAgain, Pair!StartFirst, Pair!Started, Pair!WrongCode,
     Pair!CodeRunsOut,
     Pair!DevicePairs, Pair!WaitBegins, Pair!PollStarts, Pair!Done, Pair!vars
<1>8. CASE Pair!PollEnds \/ Pair!WaitCancelled
  BY ZenonT(60), <1>8 DEF Pair!PollEnds, Pair!WaitCancelled, Pair!End, Pair!StopMints
<1>9. CASE Pair!WaitEnds
  BY <1>9 DEF Pair!WaitEnds, Pair!End, Pair!StopMints, Pair!over
<1> QED
  BY <1>1, <1>2, <1>3, <1>4, <1>5, <1>6, <1>7, <1>8, <1>9 DEF Pair!Next

(* The pairing goes its own way. *)
LEMMA PairAlone == [Next]_vars => [Pair!Next]_Pair!vars
BY DEF Next, HeldGoes, LineGoes, PairGoes, DeviceGoes, KeyGoes, PhoneGoes, WifiGoes,
   EngineGoes, VenvsGoes, heldOnly, lineOnly, deviceOnly, keyOnly, phoneOnly, wifiOnly,
   engineOnly, venvsOnly, vars, pairVars, Pair!vars

(* A phone gets a handoff only of a pairing that goes on, a pairing whose   *)
(* phone may still connect is watched to its end, and one said to have come *)
(* to nothing has handed out no handoff.                                    *)
THEOREM PairingGoesToItsEnd ==
  ASSUME MaxCodes \in Nat
  PROVE  Spec => PairingToItsEnd
<1>1. Init => PairInv
  BY DEF Init, Pair!Init, PairInv, Taps, Pair!Codes, Pair!Results, Pair!Unminted,
     Pair!NothingWasHandedOut
<1>2. PairInv /\ [Next]_vars => PairInv'
  BY PairKeeps, PairAlone
<1>3. PairInv => Pair!NothingWasHandedOut
  BY DEF PairInv
<1>4. PairInv /\ [Next]_vars =>
        [\A k \in Pair!Codes : page'[k] = "handoff" /\ page[k] # "handoff" =>
            result[pairing[k]] = "none" /\ result'[pairing[k]] = "none"]_Pair!vars
  BY PairSteps, PairAlone DEF HandoffIs
<1>5. PairInv /\ [Next]_vars =>
        [\A k \in Pair!Codes : result[k] = "none" /\ result'[k] \in {"opened", "expired", "locked", "failed"} =>
            \A j \in Pair!Codes : pairing[j] = k => tap'[j] \notin {"queued", "mints", "minted", "made"}]_Pair!vars
  BY PairSteps, PairAlone DEF NoneLeft
<1> QED
  BY <1>1, <1>2, <1>3, <1>4, <1>5, PTL
     DEF Spec, PairingToItsEnd, Pair!HandoffsAreOfThePairing, Pair!WatchedToTheEnd

-----------------------------------------------------------------------------
(* The code on the screen.                                                  *)

(* A code that can be used is on the screen and its pairing followed, or it *)
(* is one nobody was shown and a request is still out; a code up with no    *)
(* one to follow it has the newest request to come.                         *)
DeviceInv ==
  /\ gen \in Nat /\ codes \in Nat /\ last \in Nat /\ asking \subseteq 1..gen /\ unshown \subseteq 1..codes
  /\ offer \in 0..codes /\ code \in 0..codes /\ watcher \in 0..codes /\ pairing_device \in 0..codes
  /\ offer \notin unshown /\ (asking = {} => unshown = {})
  /\ usable => code # 0 /\ pairing_device # 0
  /\ usable => \/ code \in unshown
               \/ offer = code /\ screen = "code" /\ last # 0 /\ watcher = pairing_device
  /\ pairing_device # 0 /\ watcher = pairing_device => ending = "none"
  /\ watcher = 0 => offer = 0
  /\ closed_device => screen = "none" /\ watcher = 0
  /\ offer # 0 \/ screen \in {"code", "finish"} => \/ gen \in asking
                                                   \/ asking = {} /\ watcher # 0

LEMMA DeviceKeeps ==
  ASSUME DeviceInv, [Device!Next]_Device!vars
  PROVE  DeviceInv'
<1>. USE DEF DeviceInv, Device!pairingVars
<1>1. CASE Device!Start
  <2>1. /\ ~closed_device /\ ~closed_device' /\ gen' = gen + 1
        /\ UNCHANGED <<last, unshown, watcher, codes, code>>
    BY <1>1 DEF Device!Start
  <2>2. CASE asking' = asking \cup {gen + 1} /\ screen' = (IF screen = "none" THEN "held" ELSE screen)
             /\ UNCHANGED <<offer, pairing_device, ending>> /\ (usable' <=> usable)
    BY <2>1, <2>2
  <2>3. CASE Device!_withdraw /\ asking' = asking
    <3>1. offer' = 0 /\ screen' = "none"
      BY <2>3 DEF Device!_withdraw
    <3>2. /\ usable' => usable /\ ~(offer # 0 /\ offer = code) /\ pairing_device' = pairing_device /\ ending' = ending
          /\ pairing_device' \in {0, pairing_device}
          /\ pairing_device' # 0 => ending' = ending
      BY <2>3 DEF Device!_withdraw, Device!Withdrawn, Device!confirming, Device!Ends
    <3> QED
      BY <2>1, <2>3, <3>1, <3>2
  <2> QED
    BY <1>1, <2>2, <2>3 DEF Device!Start
<1>2. ASSUME NEW g \in asking, Device!StartFails(g) PROVE DeviceInv'
  <2>1. /\ \A h \in asking : g <= h
        /\ asking' = asking \ {g} /\ unshown' = (IF asking = {g} THEN {} ELSE unshown)
        /\ screen' = (IF g = gen /\ offer = 0 /\ watcher = 0 THEN "none" ELSE screen)
        /\ UNCHANGED <<gen, offer, last, watcher, code, codes>>
    BY <1>2 DEF Device!StartFails, Device!InTurn, Device!Leaves, Device!LastOut
  <2>2. closed_device' <=> closed_device
    BY <1>2 DEF Device!StartFails
  <2>3. /\ usable' => usable /\ ~(asking = {g} /\ code \in unshown) /\ pairing_device' = pairing_device
        /\ pairing_device' \in {0, pairing_device}
        /\ pairing_device' # 0 => ending' = ending
    BY <1>2 DEF Device!StartFails, Device!LastOut, Device!Withdrawn, Device!confirming,
       Device!Ends
  <2>4. g = gen => asking = {g}
    <3>1. g = gen => \A h \in asking : h = g
      BY <2>1
    <3> QED
      BY <3>1
  <2>5. asking' = {} => asking = {g}
    BY <2>1
  <2>7. gen' \in asking' \/ (asking' = {} /\ watcher' # 0) \/ ~(offer' # 0 \/ screen' \in {"code", "finish"})
    BY <2>1, <2>4, <2>5
  <2>8. usable' => \/ code' \in unshown'
                   \/ offer' = code' /\ screen' = "code" /\ last' # 0 /\ watcher' = pairing_device'
    BY <2>1, <2>3
  <2>9. offer' \notin unshown' /\ unshown' \subseteq 1..codes' /\ (asking' = {} => unshown' = {})
    BY <2>1, <2>5
  <2>10. /\ offer' \in 0..codes' /\ code' \in 0..codes' /\ watcher' \in 0..codes'
         /\ pairing_device' \in 0..codes' /\ asking' \subseteq 1..gen'
    BY <2>1, <2>3
  <2>11. /\ usable' => code' # 0 /\ pairing_device' # 0
         /\ pairing_device' # 0 /\ watcher' = pairing_device' => ending' = "none"
    BY <2>1, <2>3
  <2>12. (watcher' = 0 => offer' = 0) /\ (closed_device' => screen' = "none" /\ watcher' = 0)
    BY <2>1, <2>2
  <2> QED
    BY <2>1, <2>7, <2>8, <2>9, <2>10, <2>11, <2>12
<1>3. ASSUME NEW g \in asking, Device!StartReturns(g) PROVE DeviceInv'
  <2>1. /\ \A h \in asking : g <= h
        /\ codes' = codes + 1 /\ code' = codes + 1 /\ gen' = gen /\ asking' = asking \ {g}
    BY <1>3 DEF Device!StartReturns, Device!InTurn, Device!Leaves
  <2>2. closed_device' <=> closed_device
    BY <1>3 DEF Device!StartReturns
  <2>3. g = gen => asking = {g}
    <3>1. g = gen => \A h \in asking : h = g
      BY <2>1
    <3> QED
      BY <3>1
  <2> DEFINE again == pairing_device # 0 /\ (usable \/ claim # "none")
             of == IF again THEN pairing_device ELSE codes + 1
  <2>4. CASE /\ ~(g = gen /\ ~closed_device)
             /\ unshown' = (IF asking = {g} THEN {} ELSE IF closed_device THEN unshown ELSE unshown \cup {codes + 1})
             /\ usable' <=> ~(closed_device \/ asking = {g})
             /\ pairing_device' \in {0, of} /\ (usable' => pairing_device' = of)
             /\ ending' = IF watcher # 0 /\ watcher = pairing_device /\ pairing_device' # pairing_device
                          THEN "other" ELSE ending
             /\ UNCHANGED <<offer, last, watcher, screen>>
    <3>1. asking' = {} => asking = {g}
      BY <2>1
    <3>2. gen' \in asking' \/ (asking' = {} /\ watcher' # 0) \/ ~(offer' # 0 \/ screen' \in {"code", "finish"})
      BY <2>1, <2>2, <2>3, <2>4, <3>1
    <3>3. usable' => code' \in unshown' /\ code' # 0 /\ pairing_device' # 0
      BY <2>1, <2>2, <2>3, <2>4
    <3>4. unshown' \subseteq 1..codes' /\ offer' \notin unshown'
      <4>1. offer' = offer /\ (unshown' = {} \/ unshown' = unshown \/ unshown' = unshown \cup {codes + 1})
        BY <2>4
      <4>2. offer \in 0..codes /\ offer \notin unshown /\ unshown \subseteq 1..codes /\ codes \in Nat
        BY DEF DeviceInv
      <4>3. codes' = codes + 1
        BY <2>1
      <4> HIDE DEF DeviceInv
      <4>4. unshown' \subseteq 1..codes'
        <5>1. unshown \subseteq 1..codes' /\ {codes + 1} \subseteq 1..codes'
          BY <4>2, <4>3
        <5> QED
          BY <4>1, <5>1
      <4>5. offer \notin unshown'
        BY <4>1, <4>2
      <4> QED
        BY <4>1, <4>4, <4>5
    <3>6. asking' = {} => unshown' = {}
      BY <2>1, <2>4, <3>1
    <3>7. /\ offer' \in 0..codes' /\ code' \in 0..codes' /\ watcher' \in 0..codes'
          /\ pairing_device' \in 0..codes' /\ asking' \subseteq 1..gen' /\ last' = last
          /\ watcher' = 0 => offer' = 0
      BY <2>1, <2>4
    <3>8. closed_device' => screen' = "none" /\ watcher' = 0
      BY <2>2, <2>4
    <3>5. pairing_device' # 0 /\ watcher' = pairing_device' => ending' = "none"
      BY <2>1, <2>4
    <3>9. gen' \in Nat /\ codes' \in Nat
      BY <2>1
    <3> HIDE DEF of, again
    <3> QED
      BY <2>1, <3>2, <3>3, <3>4, <3>5, <3>6, <3>7, <3>8, <3>9
  <2>5. CASE /\ g = gen /\ ~closed_device
             /\ unshown' = (IF asking = {g} THEN {} ELSE unshown)
             /\ offer' = codes + 1 /\ last' = codes + 1 /\ screen' = "code"
             /\ watcher' = of /\ ending' = (IF watcher = of THEN ending ELSE "none")
             /\ usable' /\ pairing_device' = of
    BY <2>1, <2>2, <2>3, <2>5
  <2>6. CASE /\ g = gen /\ ~closed_device
             /\ unshown' = (IF asking = {g} THEN {} ELSE unshown)
             /\ offer' = 0 /\ screen' = "none" /\ ~usable' /\ pairing_device' \in {0, of}
             /\ pairing_device' # 0 => ending' = ending /\ pairing_device # 0
             /\ UNCHANGED <<last, watcher>>
    BY <2>1, <2>2, <2>3, <2>6
  <2> QED
    BY <1>3, <2>4, <2>5, <2>6 DEF Device!StartReturns, Device!wanted, Device!Leaves,
       Device!LastOut
<1>4. CASE Device!Cancel
  BY <1>4 DEF Device!Cancel, Device!_withdraw, Device!Withdrawn, Device!confirming,
     Device!Ends
<1>5. CASE Device!Close
  BY <1>5 DEF Device!Close
<1>6. CASE /\ UNCHANGED <<gen, codes, asking, unshown, offer, code, watcher, last, pairing_device, ending>>
           /\ screen' = screen /\ (usable' => usable) /\ (closed_device' => closed_device)
           /\ closed_device' <=> closed_device
  BY <1>6
<1>7. CASE Device!PairingEnds
  BY <1>7 DEF Device!PairingEnds, Device!Ends
<1>8. CASE Device!Spent
  <2>1. /\ (offer = code /\ code # 0 /\ screen' = "finish") \/ screen' = screen
        /\ ~usable /\ UNCHANGED <<gen, codes, asking, unshown, offer, code, watcher, last, pairing_device, ending>>
    BY <1>8 DEF Device!Spent
  <2>2. (usable' <=> usable) /\ (closed_device' <=> closed_device)
    BY <1>8, Zenon DEF Device!Spent, Device!pairingVars
  <2> QED
    BY <2>1, <2>2
<1>9. CASE Device!WatcherHears
  <2>1. (usable' <=> usable) /\ (closed_device' <=> closed_device)
    BY <1>9, Zenon DEF Device!WatcherHears
  <2>2. /\ watcher' = 0 /\ offer' = 0 /\ ending' = "none" /\ ending # "none" /\ watcher # 0
        /\ screen' \in {"paired", "none"} \/ (screen' = screen /\ asking # {})
        /\ UNCHANGED <<gen, codes, asking, unshown, code, last, pairing_device>>
    BY <1>9 DEF Device!WatcherHears
  <2>3. usable' => code' \in unshown'
    BY <2>1, <2>2
  <2>4. offer' # 0 \/ screen' \in {"code", "finish"} => gen' \in asking'
    BY <2>2
  <2>5. closed_device' => screen' = "none" /\ watcher' = 0
    BY <2>1, <2>2
  <2> QED
    BY <2>1, <2>2, <2>3, <2>4, <2>5
<1>10. CASE Device!PairedGoes
  BY <1>10 DEF Device!PairedGoes
<1>11. CASE Device!PhoneTaps \/ Device!Handed \/ Device!RunsOut
  BY <1>6, <1>11 DEF Device!PhoneTaps, Device!Handed, Device!RunsOut
<1>12. CASE Device!Done \/ UNCHANGED Device!vars
  <2>1. UNCHANGED Device!vars
    BY <1>12 DEF Device!Done
  <2>2. (usable' <=> usable) /\ (closed_device' <=> closed_device)
    BY <2>1, Zenon DEF Device!vars
  <2> QED
    BY <1>6, <2>1, <2>2 DEF Device!vars
<1> QED
  BY <1>1, <1>2, <1>3, <1>4, <1>5, <1>7, <1>8, <1>9, <1>10, <1>11, <1>12 DEF Device!Next

OnlyTheNewest ==
  \A g \in asking : asking' = asking \ {g} /\ screen' = "code" /\ shown' # shown => g = gen

LEMMA StopStopsIt == Device!Next => OnlyTheNewest
<1>. USE DEF OnlyTheNewest, Device!pairingVars
<1>1. ASSUME NEW g \in asking, Device!StartReturns(g), shown' # shown
      PROVE  g = gen /\ asking' = asking \ {g}
  BY <1>1 DEF Device!StartReturns, Device!wanted, Device!Leaves
<1>2. ASSUME NEW g \in asking, Device!StartFails(g) PROVE shown' = shown
  BY <1>2 DEF Device!StartFails
<1>3. CASE Device!Start \/ Device!Cancel \/ Device!Close \/ Device!PhoneTaps \/ Device!Handed
           \/ Device!RunsOut \/ Device!PairingEnds \/ Device!Spent \/ Device!WatcherHears
           \/ Device!PairedGoes \/ Device!Done
  <2>1. shown' = shown
    BY <1>3 DEF Device!Start, Device!Cancel, Device!Close, Device!PhoneTaps, Device!Handed,
       Device!RunsOut, Device!PairingEnds, Device!Spent, Device!WatcherHears, Device!PairedGoes,
       Device!Done, Device!vars
  <2> QED
    BY <2>1
<1> QED
  BY <1>1, <1>2, <1>3 DEF Device!Next

LEMMA DeviceAlone == [Next]_vars => [Device!Next]_Device!vars
BY DEF Next, HeldGoes, LineGoes, PairGoes, DeviceGoes, KeyGoes, PhoneGoes, WifiGoes,
   EngineGoes, VenvsGoes, heldOnly, lineOnly, pairOnly, keyOnly, phoneOnly, wifiOnly,
   engineOnly, venvsOnly, vars, deviceVars, Device!vars

(* No code can be used that is not on the screen or on its way there,       *)
(* nothing of a pairing stays there unfollowed, and what the user stopped   *)
(* does not come up again.                                                  *)
THEOREM TheScreenIsTheUsers == Spec => ScreenIsTheUsers
<1>1. Init => DeviceInv
  BY DEF Init, Device!Init, DeviceInv
<1>2. DeviceInv /\ [Next]_vars => DeviceInv'
  BY DeviceKeeps, DeviceAlone
<1>3. DeviceInv => Device!CodeIsOnScreen /\ Device!ScreenIsFollowed
  BY DEF DeviceInv, Device!CodeIsOnScreen, Device!ScreenIsFollowed
<1>4. [Next]_vars =>
        [\A g \in asking : asking' = asking \ {g} /\ screen' = "code" /\ shown' # shown => g = gen]_Device!vars
  BY StopStopsIt, DeviceAlone DEF OnlyTheNewest
<1> QED
  BY <1>1, <1>2, <1>3, <1>4, PTL DEF Spec, ScreenIsTheUsers, Device!StopStops

-----------------------------------------------------------------------------
(* The engine's files.                                                      *)

(* A copy laid over files: what engine_restore makes of them.               *)
Laid(c, files) == [f \in 1..Last |-> IF c.files[f] # 0 THEN c.files[f] ELSE files[f]]
Has(c) == c.files[1] # 0
AllLaid(c) == \A f \in 1..Last : c.files[f] = 0

(* Of the copies of S in C the newest complete one makes the files whole;   *)
(* and so are the files, where no rollback was stopped among its renames.   *)
SoundOver(S, C, files) ==
  \A n \in S : Has(C[n]) /\ (\A m \in S : Has(C[m]) => m <= n) => Engine!IsWhole(Laid(C[n], files))
Sound(files, S, C, a) == Engine!IsWhole(files) /\ (a = "none" => SoundOver(S, C, files))

(* With copy n laid back over them and gone, the files are sound.           *)
Stays(n, C, files, a) == n \in DOMAIN C /\ Sound(Laid(C[n], files), DOMAIN C \ {n}, C, a)
Latest(n, C) == \A m \in DOMAIN C \ {n} : m < n
Bounded(C) == \E n \in Nat : \A m \in DOMAIN C : m <= n

LEMMA NewestThere ==
  ASSUME NEW D, D \subseteq Nat, D # {}, NEW N \in Nat, \A m \in D : m <= N
  PROVE  \E n \in D : \A m \in D : m <= n
<1>. DEFINE U == {u \in Nat : \A m \in D : m <= u}
<1>1. IsWellFoundedOn(OpToRel(<, Nat), Nat)
  BY NatLessThanWellFounded
<1>2. U \subseteq Nat /\ U # {}
  OBVIOUS
<1>3. PICK u \in U : \A v \in U : ~ (<<v, u>> \in OpToRel(<, Nat))
  <2> HIDE DEF U
  <2> QED
    BY <1>1, <1>2, WFMin, Zenon
<1>4. \A v \in U : ~ (v < u)
  BY <1>2, <1>3 DEF OpToRel
<1>5. u \in D
  <2>1. SUFFICES ASSUME u \notin D PROVE FALSE
    OBVIOUS
  <2>2. \A m \in D : m <= u - 1
    BY <2>1
  <2>3. u - 1 \in Nat
    <3>1. PICK d \in D : d <= u - 1
      BY <2>2
    <3>2. d \in Nat /\ u \in Nat
      BY <1>2
    <3> QED
      BY <3>1, <3>2
  <2> QED
    BY <1>4, <2>2, <2>3
<1> QED
  BY <1>5

(* Copies that are as they were are as sound as they were. *)
LEMMA SoundAsBefore ==
  ASSUME NEW S, NEW C, NEW D, NEW files, NEW a, \A n \in S : D[n] = C[n], Sound(files, S, C, a)
  PROVE  Sound(files, S, D, a)
BY DEF Sound, SoundOver

LEMMA LaidSame ==
  ASSUME NEW c, NEW files \in [1..Last -> Nat], \A f \in 1..Last : c.files[f] \in {0, files[f]}
  PROVE  Laid(c, files) = files
BY DEF Laid

(* A copy whose latest is laid over, and the one before it. *)
LEMMA PrunedKeeps ==
  ASSUME NEW C, NEW files, NEW a, NEW D, DOMAIN C \subseteq Nat, Bounded(C),
         DOMAIN D \subseteq DOMAIN C, \A n \in DOMAIN D : D[n] = C[n], NEW k,
         \A n \in DOMAIN C \ {k} : Has(C[n]) /\ (\A m \in DOMAIN C \ {k} : Has(C[m]) => m <= n) => n \in DOMAIN D,
         Sound(files, DOMAIN C \ {k}, C, a)
  PROVE  Sound(files, DOMAIN D \ {k}, D, a)
<1>1. SUFFICES ASSUME a = "none", NEW n \in DOMAIN D \ {k}, Has(D[n]),
                      \A m \in DOMAIN D \ {k} : Has(D[m]) => m <= n
               PROVE  Engine!IsWhole(Laid(D[n], files))
  BY DEF Sound, SoundOver
<1>. DEFINE W == {m \in DOMAIN C \ {k} : Has(C[m])}
<1>2. n \in W /\ W \subseteq Nat /\ \E b \in Nat : \A m \in W : m <= b
  BY <1>1 DEF Bounded
<1>3. PICK w \in W : \A m \in W : m <= w
  <2> HIDE DEF W
  <2> QED
    BY <1>2, NewestThere
<1>4. w \in DOMAIN D /\ w <= n
  BY <1>1, <1>3
<1>5. \A m \in DOMAIN C \ {k} : Has(C[m]) => m <= n
  BY <1>2, <1>3, <1>4
<1> QED
  BY <1>1, <1>5 DEF Sound, SoundOver

-----------------------------------------------------------------------------
(* Where the run is.                                                        *)
AtRest == pc_engine \in {"fetch", "keep", "mark", "render", "restart", "check", "back", "again"}

SwapKinds ==
  /\ live \in [1..Last -> Nat] /\ staged \in [1..Last -> Nat]
  /\ todo \subseteq 1..Last /\ changed \subseteq 1..Last
  /\ DOMAIN copies \subseteq Nat \ {0} /\ Bounded(copies)
  /\ \A n \in DOMAIN copies : /\ copies[n] = [files |-> copies[n].files, unit |-> copies[n].unit]
                             /\ copies[n].files \in [1..Last -> Nat]
  /\ kept \in Nat
  /\ pc_engine \in {"rest", "recover", "recovering", "fetch", "keep", "mark", "move", "aborting", "render",
                     "restart", "check", "back", "backing", "again", "restoring"}
  /\ run = "none" <=> pc_engine = "rest"
SwapTypes == SwapKinds /\ astray \in {"none", "copy"}

(* What the run has fetched of its release, and which files it replaces.    *)
FetchedSoFar ==
  run # "rollback" /\ pc_engine \in {"fetch", "keep", "mark"} =>
    /\ want \in DOMAIN Content
    /\ \A f \in 1..Last \ todo : IF f \in changed THEN staged[f] = Content[want][f]
                                                  ELSE live[f] = Content[want][f]
    /\ IF pc_engine = "fetch" THEN changed \cap todo = {} ELSE todo = {}
KeptAside ==
  pc_engine = "mark" =>
    /\ kept \in DOMAIN copies /\ Latest(kept, copies)
    /\ \A f \in 1..Last : copies[kept].files[f] \in {0, live[f]}
    /\ \A f \in 1..Last :
          (f \in Models => IF run = "rollback" THEN copies[target_engine].files[f] # 0 ELSE f \in changed)
             => copies[kept].files[f] = live[f]
ToRollBack ==
  run = "rollback" /\ pc_engine \in {"keep", "mark"} =>
    /\ astray = "none" /\ target_engine \in DOMAIN copies /\ Has(copies[target_engine])
    /\ \A m \in DOMAIN copies : Has(copies[m]) /\ (pc_engine = "mark" => m # kept) => m <= target_engine
    /\ pc_engine = "mark" => target_engine # kept

(* The staged files are renamed in: the copy kept is the way back.          *)
Moving ==
  pc_engine = "move" =>
    /\ want \in DOMAIN Content /\ todo \subseteq changed
    /\ mark.there /\ mark.kept = kept /\ Stays(kept, copies, live, astray)
    /\ Has(copies[kept]) /\ Latest(kept, copies)
    /\ \A f \in changed : copies[kept].files[f] # 0
    /\ \A f \in 1..Last : IF f \in todo THEN staged[f] = Content[want][f] ELSE live[f] = Content[want][f]
WayBackKept ==
  /\ pc_engine \in {"render", "restart", "back"} /\ run # "rollback" /\ kept # 0
        => Stays(kept, copies, live, astray)
  /\ pc_engine \in {"aborting", "recovering", "backing"} =>
        /\ Stays(target_engine, copies, live, astray)
        /\ \A f \in 1..Last \ todo : copies[target_engine].files[f] = 0
  /\ pc_engine \in {"aborting", "recovering"} => mark.there /\ mark.kept = target_engine
  /\ pc_engine = "backing" /\ Has(copies[target_engine]) => Sound(live, DOMAIN copies, copies, astray)
  /\ pc_engine \in {"rest", "recover"} /\ mark.there =>
        Stays(mark.kept, copies, live, astray) /\ (Has(copies[mark.kept]) \/ AllLaid(copies[mark.kept]))
  /\ pc_engine \in {"recover", "recovering"} =>
        changed = {} /\ (run # "rollback" => want \in DOMAIN Content)
  /\ pc_engine \in {"recover", "recovering", "fetch"} => kept = 0
  /\ pc_engine = "back" => run # "rollback"

(* A rollback's own keeping stands behind what it puts back.                *)
Restoring ==
  pc_engine = "restoring" =>
    /\ run = "rollback" /\ astray = "none" /\ mark.there /\ mark.kept = kept
    /\ {kept, target_engine} \subseteq DOMAIN copies /\ target_engine # kept
    /\ Latest(kept, copies) /\ Has(copies[kept])
    /\ Engine!IsWhole(Laid(copies[kept], live)) /\ Engine!IsWhole(Laid(copies[target_engine], live))
    /\ \A f \in 1..Last : copies[target_engine].files[f] # 0 => copies[kept].files[f] # 0
    /\ \A f \in 1..Last \ todo : copies[target_engine].files[f] = 0
    /\ Has(copies[target_engine]) => SoundOver(DOMAIN copies \ {kept}, copies, Laid(copies[kept], live))

SwapInv ==
  /\ SwapTypes /\ FetchedSoFar /\ KeptAside /\ ToRollBack /\ Moving /\ WayBackKept /\ Restoring
  /\ AtRest => ~mark.there
  /\ pc_engine = "backing" => ~mark.there
  /\ (AtRest /\ pc_engine # "mark") \/ (pc_engine \in {"rest", "recover"} /\ ~mark.there)
        => Sound(live, DOMAIN copies, copies, astray)
  /\ pc_engine = "mark" => Sound(live, DOMAIN copies \ {kept}, copies, astray)

EngineInv == astray # "live" => SwapInv

(* The files' order puts the binary first, and a model is none; a release has *)
(* every file.                                                              *)
EngineReleases ==
  /\ Last \in Nat \ {0} /\ Models \subseteq 2..Last /\ 1 \in DOMAIN Content
  /\ \A r \in DOMAIN Content : Content[r] \in [1..Last -> Nat \ {0}]

LEMMA NewestIs ==
  ASSUME SwapKinds, Engine!Whole # {}
  PROVE  /\ Engine!Newest \in DOMAIN copies /\ Has(copies[Engine!Newest])
         /\ \A m \in DOMAIN copies : Has(copies[m]) => m <= Engine!Newest
<1>1. /\ Engine!Whole = {n \in DOMAIN copies : Has(copies[n])} /\ Engine!Whole \subseteq Nat
      /\ \E b \in Nat : \A m \in Engine!Whole : m <= b
  BY DEF SwapKinds, SwapTypes, Bounded, Engine!Whole, Engine!Complete, Has, Engine!Binary,
     Engine!NoFile
<1>2. \E n \in Engine!Whole : \A m \in Engine!Whole : m <= n
  BY <1>1, NewestThere
<1>3. Engine!Newest \in Engine!Whole /\ \A m \in Engine!Whole : m <= Engine!Newest
  BY <1>2, Zenon DEF Engine!Newest
<1> QED
  BY <1>1, <1>3

LEMMA FirstIs ==
  ASSUME Last \in Nat, NEW fs \in SUBSET (1..Last), fs # {}
  PROVE  Engine!First(fs) \in fs /\ \A g \in fs : Engine!First(fs) <= g
<1>. DEFINE neg == {Last - f : f \in fs}
<1>1. \A f \in fs : f \in Nat /\ f <= Last /\ Last - f \in Nat /\ Last - f <= Last
  OBVIOUS
<1>2. neg \subseteq Nat /\ neg # {} /\ \A m \in neg : m <= Last
  BY <1>1
<1>3. PICK n \in neg : \A m \in neg : m <= n
  <2> HIDE DEF neg
  <2> QED
    BY <1>2, NewestThere
<1>4. PICK f \in fs : n = Last - f
  BY <1>3
<1>5. \A g \in fs : f <= g
  <2>1. TAKE g \in fs
  <2>2. Last - g <= n
    BY <1>3
  <2> QED
    BY <1>1, <1>4, <2>2
<1> QED
  BY <1>5, Zenon DEF Engine!First

(* A copy that is all laid back, and gone. *)
LEMMA BackIsSound ==
  ASSUME SwapTypes, NEW n \in DOMAIN copies, Stays(n, copies, live, astray),
         \A f \in 1..Last : copies[n].files[f] = 0
  PROVE  /\ Sound(live, DOMAIN Engine!Without(n), Engine!Without(n), astray)
         /\ DOMAIN Engine!Without(n) = DOMAIN copies \ {n} /\ Bounded(Engine!Without(n))
         /\ \A m \in DOMAIN Engine!Without(n) : Engine!Without(n)[m] = copies[m]
<1>1. /\ DOMAIN Engine!Without(n) = DOMAIN copies \ {n}
      /\ \A m \in DOMAIN Engine!Without(n) : Engine!Without(n)[m] = copies[m]
  BY DEF Engine!Without, Engine!Restrict
<1>2. Laid(copies[n], live) = live
  BY LaidSame DEF SwapKinds, SwapTypes
<1>3. Sound(live, DOMAIN copies \ {n}, copies, astray)
  BY <1>2 DEF Stays
<1> QED
  BY <1>1, <1>3, SoundAsBefore DEF SwapKinds, SwapTypes, Bounded

(* One all laid back, and still there: its renames were the last. *)
LEMMA LaidIsSound ==
  ASSUME SwapTypes, EngineReleases, NEW n \in DOMAIN copies, Stays(n, copies, live, astray), AllLaid(copies[n])
  PROVE  Sound(live, DOMAIN copies, copies, astray)
<1>1. Laid(copies[n], live) = live
  BY LaidSame DEF SwapKinds, SwapTypes, AllLaid
<1>2. Sound(live, DOMAIN copies \ {n}, copies, astray)
  BY <1>1 DEF Stays
<1>3. ~Has(copies[n])
  BY DEF Has, AllLaid, EngineReleases
<1> QED
  BY <1>2, <1>3 DEF Sound, SoundOver

LEMMA FreshIs ==
  ASSUME SwapKinds
  PROVE  Engine!Fresh \in Nat \ {0} /\ \A m \in DOMAIN copies : m < Engine!Fresh
<1>. DEFINE new == {m + 1 : m \in DOMAIN copies} \cup {1}
<1>1. \E n \in new : \A m \in DOMAIN copies : m < n
  <2>1. CASE DOMAIN copies = {}
    BY <2>1
  <2>2. CASE DOMAIN copies # {}
    <3>1. PICK n \in DOMAIN copies : \A m \in DOMAIN copies : m <= n
      BY <2>2, NewestThere DEF SwapKinds, SwapTypes, Bounded
    <3>2. n + 1 \in new /\ \A m \in DOMAIN copies : m < n + 1
      BY <3>1 DEF SwapKinds, SwapTypes
    <3> QED
      BY <3>2
  <2> QED
    BY <2>1, <2>2
<1>2. Engine!Fresh \in new /\ \A m \in DOMAIN copies : m < Engine!Fresh
  BY <1>1, Zenon DEF Engine!Fresh
<1>3. \A m \in new : m \in Nat \ {0}
  BY DEF SwapKinds, SwapTypes
<1> QED
  BY <1>2, <1>3

(* Pruning leaves the newest complete copies. *)
LEMMA PrunedIs ==
  ASSUME SwapKinds
  PROVE  /\ DOMAIN Engine!Pruned \subseteq DOMAIN copies
         /\ \A n \in DOMAIN Engine!Pruned : Engine!Pruned[n] = copies[n]
         /\ kept \in DOMAIN copies => kept \in DOMAIN Engine!Pruned
         /\ \A n \in DOMAIN copies, k \in Nat :
               Has(copies[n]) /\ (\A m \in DOMAIN copies \ {k} : Has(copies[m]) => m <= n) => n \in DOMAIN Engine!Pruned
<1>. DEFINE stay == {n \in DOMAIN copies : n = kept \/ (n \in Engine!Whole /\ Engine!Cardinality(Engine!Newer(n)) < Engine!Keep)}
<1>1. DOMAIN Engine!Pruned = stay /\ \A n \in stay : Engine!Pruned[n] = copies[n]
  <2>1. Engine!Pruned = Engine!Restrict(copies, stay)
    BY DEF Engine!Pruned
  <2> HIDE DEF stay
  <2> QED
    BY <2>1 DEF Engine!Restrict
<1>2. ASSUME NEW n \in DOMAIN copies, NEW k \in Nat, Has(copies[n]),
             \A m \in DOMAIN copies \ {k} : Has(copies[m]) => m <= n
      PROVE  n \in stay
  <2>1. n \in Engine!Whole
    BY <1>2 DEF Engine!Whole, Engine!Complete, Has, Engine!Binary, Engine!NoFile
  <2>2. Engine!Newer(n) = {} \/ Engine!Newer(n) = {k}
    BY <1>2 DEF Engine!Newer, Engine!Whole, Engine!Complete, Has, Engine!Binary,
       Engine!NoFile, SwapKinds, SwapTypes
  <2>3. Engine!Cardinality(Engine!Newer(n)) = Cardinality(Engine!Newer(n))
    BY DEF Engine!Cardinality, Cardinality
  <2>4. Engine!Cardinality(Engine!Newer(n)) < Engine!Keep
    <3>1. Cardinality({}) = 0 /\ Cardinality({k}) = 1
      BY FS_EmptySet, FS_Singleton
    <3> QED
      BY <2>2, <2>3, <3>1 DEF Engine!Keep
  <2> QED
    BY <2>1, <2>4
<1> QED
  BY <1>1, <1>2

(* The engine's copy just kept: nothing is lost by laying it back. *)
LEMMA MarkReady ==
  ASSUME EngineReleases, SwapInv, pc_engine = "mark"
  PROVE  /\ \A f \in 1..Last : live[f] # 0
         /\ Laid(copies[kept], live) = live /\ Has(copies[kept])
         /\ Stays(kept, copies, live, astray) /\ Sound(live, DOMAIN copies, copies, astray)
<1>. USE DEF SwapInv
<1>1. /\ kept \in DOMAIN copies /\ Latest(kept, copies) /\ Sound(live, DOMAIN copies \ {kept}, copies, astray)
      /\ \A f \in 1..Last : copies[kept].files[f] \in {0, live[f]}
      /\ \A f \in 1..Last : f \notin Models => copies[kept].files[f] = live[f]
  BY DEF KeptAside
<1>2. live \in [1..Last -> Nat] /\ DOMAIN copies \subseteq Nat
  BY DEF SwapKinds, SwapTypes
<1>3. \A f \in 1..Last : live[f] # 0
  BY <1>1 DEF Sound, Engine!IsWhole, Engine!Releases, EngineReleases
<1>4. Laid(copies[kept], live) = live
  BY <1>1, <1>2, LaidSame
<1>5. Has(copies[kept])
  BY <1>1, <1>3 DEF Has, EngineReleases
<1>6. Stays(kept, copies, live, astray)
  BY <1>1, <1>4 DEF Stays
<1>7. \A n \in DOMAIN copies : (\A m \in DOMAIN copies : Has(copies[m]) => m <= n) => n = kept
  BY <1>1, <1>2, <1>5 DEF Latest
<1>8. Sound(live, DOMAIN copies, copies, astray)
  BY <1>1, <1>4, <1>7 DEF Sound, SoundOver
<1> QED
  BY <1>3, <1>4, <1>5, <1>6, <1>8

LEMMA OneGone ==
  ASSUME NEW files \in [1..Last -> Nat], NEW f \in 1..Last, NEW now, now = [files EXCEPT ![f] = 0]
  PROVE  now[f] = 0 /\ \A g \in 1..Last : g # f => now[g] = files[g]
OBVIOUS

(* One rename back: the copy's file is the live one, and gone from the copy. *)
LEMMA OneBack ==
  ASSUME EngineReleases, SwapKinds, target_engine \in DOMAIN copies, Engine!RestoreFile
  PROVE  \E f \in todo :
           /\ pc_engine \in {"recovering", "aborting", "backing", "restoring"}
           /\ f = Engine!First(todo) /\ f \in 1..Last /\ todo' = todo \ {f}
           /\ UNCHANGED <<run, want, was, unit, env_engine, staged, mark, pc_engine, changed, kept,
                          target_engine, before, added, astray>>
           /\ DOMAIN copies' = DOMAIN copies
           /\ \A n \in DOMAIN copies : n # target_engine => copies'[n] = copies[n]
           /\ copies'[target_engine] = [files |-> [copies[target_engine].files EXCEPT ![f] = 0],
                                        unit |-> copies[target_engine].unit]
           /\ live' = [live EXCEPT ![f] = IF copies[target_engine].files[f] # 0
                                          THEN copies[target_engine].files[f] ELSE live[f]]
           /\ Laid(copies'[target_engine], live') = Laid(copies[target_engine], live)
           /\ live' \in [1..Last -> Nat] /\ copies'[target_engine].files \in [1..Last -> Nat]
           /\ \A g \in 1..Last \ todo : copies[target_engine].files[g] = 0 => copies'[target_engine].files[g] = 0
           /\ copies'[target_engine].files[f] = 0
<1>. USE DEF SwapKinds, Engine!diskVars, Engine!runVars, Engine!count, Engine!KeepRun, Engine!NoFile, Engine!File
<1>1. PICK f \in todo : f = Engine!First(todo)
  BY FirstIs DEF Engine!RestoreFile, EngineReleases
<1> DEFINE T == target_engine
<1>2. /\ pc_engine \in {"recovering", "aborting", "backing", "restoring"}
      /\ todo' = todo \ {f}
      /\ UNCHANGED <<run, want, was, unit, env_engine, staged, mark, pc_engine, changed, kept,
                     target_engine, before, added, astray>>
  BY <1>1 DEF Engine!RestoreFile, Engine!PuttingBack
<1>4. /\ live \in [1..Last -> Nat] /\ f \in 1..Last /\ copies[T].files \in [1..Last -> Nat]
      /\ copies[T] = [files |-> copies[T].files, unit |-> copies[T].unit]
  OBVIOUS
<1>5. /\ DOMAIN copies' = DOMAIN copies /\ \A n \in DOMAIN copies : n # T => copies'[n] = copies[n]
      /\ copies'[T] = [files |-> [copies[T].files EXCEPT ![f] = 0], unit |-> copies[T].unit]
      /\ live' = [live EXCEPT ![f] = IF copies[T].files[f] # 0 THEN copies[T].files[f] ELSE live[f]]
  <2>1. CASE copies[T].files[f] = 0
    <3>1. UNCHANGED <<live, copies>>
      BY <1>1, <2>1 DEF Engine!RestoreFile
    <3>2. [copies[T].files EXCEPT ![f] = 0] = copies[T].files /\ [live EXCEPT ![f] = live[f]] = live
      BY <1>4, <2>1
    <3> QED
      BY <1>4, <2>1, <3>1, <3>2
  <2>2. CASE copies[T].files[f] # 0
    <3>1. /\ live' = [live EXCEPT ![f] = copies[T].files[f]]
          /\ copies' = [copies EXCEPT ![T].files[f] = 0]
      BY <1>1, <2>2 DEF Engine!RestoreFile
    <3> QED
      BY <1>4, <2>2, <3>1
  <2> QED
    BY <2>1, <2>2
<1>6. Laid(copies'[T], live') = Laid(copies[T], live)
  BY <1>4, <1>5 DEF Laid
<1>7. copies'[T].files = [copies[T].files EXCEPT ![f] = 0] /\ live' \in [1..Last -> Nat]
  <2>1. copies'[T].files = [copies[T].files EXCEPT ![f] = 0]
    BY <1>5
  <2>2. live' \in [1..Last -> Nat]
    BY <1>4, <1>5
  <2> QED
    BY <2>1, <2>2
<1>8. copies'[T].files \in [1..Last -> Nat]
  BY <1>4, <1>7
<1>9. /\ \A g \in 1..Last \ todo : copies[T].files[g] = 0 => copies'[T].files[g] = 0
      /\ copies'[T].files[f] = 0
  BY <1>4, <1>7
<1> QED
  BY <1>1, <1>2, <1>4, <1>5, <1>6, <1>7, <1>8, <1>9

(* Whatever the installer does to the engine, its state is of these kinds.  *)
LEMMA KindsKeep ==
  ASSUME EngineReleases, SwapKinds, [Engine!Next]_Engine!vars,
         pc_engine \in {"recovering", "aborting", "backing", "restoring"} => target_engine \in DOMAIN copies,
         pc_engine = "fetch" /\ run # "rollback" => want \in DOMAIN Content
  PROVE  SwapKinds'
<1>. USE DEF SwapKinds, Engine!diskVars, Engine!runVars, Engine!count, Engine!KeepRun, Engine!Goes,
             Engine!Ends, Engine!NoFile, Engine!NoFiles, Engine!File
<1>0. /\ \A n : DOMAIN Engine!Without(n) = DOMAIN copies \ {n}
      /\ \A n : \A m \in DOMAIN Engine!Without(n) : Engine!Without(n)[m] = copies[m]
  BY DEF Engine!Without, Engine!Restrict
<1>1. ASSUME DOMAIN copies' \subseteq DOMAIN copies, \A m \in DOMAIN copies' : copies'[m] = copies[m]
      PROVE  /\ DOMAIN copies' \subseteq Nat \ {0} /\ Bounded(copies')
             /\ \A n \in DOMAIN copies' : /\ copies'[n] = [files |-> copies'[n].files, unit |-> copies'[n].unit]
                                         /\ copies'[n].files \in [1..Last -> Nat]
  BY <1>1 DEF Bounded
<1>2. ASSUME NEW r \in DOMAIN Content, Engine!Full(r) \/ Engine!Only(r) PROVE SwapKinds'
  <2>1. /\ run = "none" /\ run' \in {"full", "only"} /\ pc_engine' = "recover" /\ changed' = {} /\ kept' = 0
        /\ UNCHANGED <<live, staged, copies, todo>>
    BY <1>2 DEF Engine!Full, Engine!Only, Engine!Begins
  <2> QED
    BY <2>1
<1>3. CASE Engine!Rollback
  BY <1>3 DEF Engine!Rollback, Engine!Begins
<1>4. CASE Engine!Recover
  BY <1>4 DEF Engine!Recover
<1>5. CASE Engine!RestoreFile
  <2>1. PICK f \in todo :
           /\ todo' = todo \ {f} /\ DOMAIN copies' = DOMAIN copies
           /\ UNCHANGED <<run, staged, pc_engine, changed, kept>>
           /\ \A n \in DOMAIN copies : n # target_engine => copies'[n] = copies[n]
           /\ copies'[target_engine] = [files |-> [copies[target_engine].files EXCEPT ![f] = 0],
                                        unit |-> copies[target_engine].unit]
           /\ live' \in [1..Last -> Nat] /\ copies'[target_engine].files \in [1..Last -> Nat]
    BY <1>5, OneBack DEF Engine!RestoreFile, Engine!PuttingBack
  <2>2. copies'[target_engine] = [files |-> copies'[target_engine].files, unit |-> copies'[target_engine].unit]
    BY <2>1
  <2>3. \A n \in DOMAIN copies' : /\ copies'[n] = [files |-> copies'[n].files, unit |-> copies'[n].unit]
                                 /\ copies'[n].files \in [1..Last -> Nat]
    BY <2>1, <2>2
  <2>4. Bounded(copies')
    BY <2>1 DEF Bounded
  <2> QED
    BY <2>1, <2>3, <2>4
<1>6. CASE Engine!RestoreFails
  BY <1>6 DEF Engine!RestoreFails, Engine!PuttingBack
<1>7. CASE Engine!Recovered \/ Engine!Aborted \/ Engine!RolledBack \/ Engine!PutBack
  <2>1. /\ copies' = Engine!Without(target_engine) /\ UNCHANGED <<live, staged, changed, kept>>
        /\ \/ run # "none" /\ run' = run /\ pc_engine' \in {"fetch", "restart", "again"} /\ todo' \in {todo, 1..Last}
           \/ run' = "none" /\ pc_engine' = "rest" /\ todo' = {}
    BY <1>7 DEF Engine!Recovered, Engine!Aborted, Engine!RolledBack, Engine!PutBack, Engine!Restored
  <2> QED
    BY <1>0, <1>1, <2>1
<1>8. CASE Engine!Fetch
  <2>1. PICK f \in todo : f = Engine!First(todo)
    BY <1>8, FirstIs DEF Engine!Fetch, EngineReleases
  <2>2. /\ pc_engine = "fetch" /\ run # "rollback" /\ todo' = todo \ {f}
        /\ IF live[f] = Content[want][f] THEN staged' = [staged EXCEPT ![f] = 0] /\ changed' = changed
           ELSE staged' = [staged EXCEPT ![f] = Content[want][f]] /\ changed' = changed \cup {f}
        /\ UNCHANGED <<run, live, copies, pc_engine, kept>>
    BY <1>8, <2>1 DEF Engine!Fetch
  <2>3. f \in 1..Last /\ Content[want][f] \in Nat
    BY ZenonT(60), <2>1, <2>2 DEF EngineReleases
  <2>4. [staged EXCEPT ![f] = 0] \in [1..Last -> Nat] /\ [staged EXCEPT ![f] = Content[want][f]] \in [1..Last -> Nat]
    BY <2>3
  <2>5. staged' \in [1..Last -> Nat] /\ changed' \subseteq 1..Last /\ todo' \subseteq 1..Last
    BY ZenonT(60), <2>2, <2>3, <2>4
  <2> QED
    BY <2>2, <2>5
<1>9. CASE Engine!Missing
  BY <1>9 DEF Engine!Missing
<1>10. CASE Engine!Fetched
  BY <1>10 DEF Engine!Fetched
<1>11. CASE Engine!KeepLive
  <2>1. /\ pc_engine = "keep" /\ kept' = Engine!Fresh /\ pc_engine' = "mark"
        /\ copies' = [n \in DOMAIN copies \cup {kept'} |-> IF n = kept' THEN Engine!Kept ELSE copies[n]]
        /\ UNCHANGED <<run, live, staged, todo, changed>>
    BY <1>11 DEF Engine!KeepLive
  <2>2. kept' \in Nat \ {0} /\ \A m \in DOMAIN copies : m < kept'
    BY <2>1, FreshIs
  <2>3. /\ Engine!Kept = [files |-> Engine!Kept.files, unit |-> Engine!Kept.unit]
        /\ Engine!Kept.files \in [1..Last -> Nat]
    BY DEF Engine!Kept
  <2> QED
    BY <2>1, <2>2, <2>3 DEF Bounded
<1>12. CASE Engine!CannotKeep
  BY <1>12 DEF Engine!CannotKeep
<1>13. CASE Engine!Mark
  BY <1>13 DEF Engine!Mark
<1>14. CASE Engine!Move
  <2>1. PICK f \in todo : f = Engine!First(todo)
    BY <1>14, FirstIs DEF Engine!Move, EngineReleases
  <2>2. /\ pc_engine = "move" /\ live' = [live EXCEPT ![f] = staged[f]] /\ staged' = [staged EXCEPT ![f] = 0]
        /\ todo' = todo \ {f} /\ f \in 1..Last
        /\ UNCHANGED <<run, copies, pc_engine, changed, kept>>
    BY <1>14, <2>1 DEF Engine!Move
  <2>3. live' \in [1..Last -> Nat] /\ staged' \in [1..Last -> Nat]
    BY <2>2
  <2> QED
    BY <2>2, <2>3
<1>15. CASE Engine!Abort
  BY <1>15 DEF Engine!Abort
<1>16. CASE Engine!Moved
  BY <1>1, <1>16, PrunedIs DEF Engine!Moved
<1>17. CASE Engine!Render
  BY <1>17 DEF Engine!Render
<1>18. CASE Engine!Back
  BY <1>18 DEF Engine!Back
<1>19. CASE Engine!Again
  BY <1>19 DEF Engine!Again
<1>20. ASSUME NEW b \in BOOLEAN, Engine!Restart(b) PROVE SwapKinds'
  <2>1. /\ pc_engine = "restart" /\ UNCHANGED <<live, staged, changed, kept>>
        /\ copies' \in {copies, Engine!Pruned}
        /\ \/ run' = "none" /\ pc_engine' = "rest" /\ todo' = {}
           \/ pc_engine' = "back" /\ UNCHANGED <<run, todo>>
    BY <1>20 DEF Engine!Restart
  <2> QED
    BY <1>1, <2>1, PrunedIs
<1>21. ASSUME NEW b \in BOOLEAN, Engine!Check(b) PROVE SwapKinds'
  BY <1>21 DEF Engine!Check
<1>22. ASSUME NEW b \in BOOLEAN, Engine!Stopped(b) PROVE SwapKinds'
  BY <1>22 DEF Engine!Stopped
<1>23. CASE Engine!Rest \/ UNCHANGED Engine!vars
  BY <1>23 DEF Engine!Rest, Engine!vars
<1> QED
  BY <1>2, <1>3, <1>4, <1>5, <1>6, <1>7, <1>8, <1>9, <1>10, <1>11, <1>12, <1>13, <1>14, <1>15, <1>16,
     <1>17, <1>18, <1>19, <1>20, <1>21, <1>22, <1>23 DEF Engine!Next, Engine!Releases

LEMMA SwapKeeps ==
  ASSUME EngineReleases, SwapInv, Engine!Next, astray' # "live"
  PROVE  SwapInv'
<1>. USE DEF SwapInv, SwapKinds, SwapTypes, FetchedSoFar, KeptAside, ToRollBack, Moving, WayBackKept, Restoring, AtRest,
             Engine!diskVars, Engine!runVars, Engine!count, Engine!KeepRun, Engine!Goes, Engine!Ends,
             Engine!NoMark, Engine!NoFile, Engine!NoFiles, Engine!File
<1>0. SwapKinds'
  BY KindsKeep DEF Stays
<1>1. ASSUME NEW r \in DOMAIN Content, Engine!Full(r) \/ Engine!Only(r) PROVE SwapInv'
  <2>1. /\ run = "none" /\ run' \in {"full", "only"} /\ pc_engine' = "recover" /\ want' = r
        /\ changed' = {} /\ kept' = 0
        /\ UNCHANGED <<live, staged, copies, mark, todo, astray>>
    BY <1>1 DEF Engine!Full, Engine!Only, Engine!Begins
  <2> QED
    BY <2>1
<1>2. CASE Engine!Rollback
  <2>1. /\ run = "none" /\ run' = "rollback" /\ changed' = {} /\ kept' = 0
        /\ UNCHANGED <<live, staged, copies, mark, todo>>
    BY <1>2 DEF Engine!Rollback, Engine!Begins
  <2>2. CASE mark.there
    <3>1. pc_engine' = "recover" /\ UNCHANGED astray
      BY <1>2, <2>2 DEF Engine!Rollback
    <3> QED
      BY <2>1, <2>2, <3>1
  <2>3. CASE ~mark.there
    <3>1. /\ pc_engine' = "keep" /\ target_engine' = Engine!Newest /\ Engine!Whole # {} /\ astray = "none" /\ astray' = "none"
      BY <1>2, <2>3 DEF Engine!Rollback
    <3>2. /\ Engine!Newest \in DOMAIN copies /\ Has(copies[Engine!Newest])
          /\ \A m \in DOMAIN copies : Has(copies[m]) => m <= Engine!Newest
      BY <3>1, NewestIs
    <3> QED
      BY <2>1, <2>3, <3>1, <3>2
  <2> QED
    BY <2>2, <2>3
<1>3. CASE Engine!Recover
  <2>1. pc_engine = "recover" /\ UNCHANGED <<run, want, live, staged, copies, changed, kept, astray>> /\ todo' = 1..Last
    BY <1>3 DEF Engine!Recover
  <2>2. CASE mark.there /\ Has(copies[mark.kept])
    <3>1. mark.kept \in DOMAIN copies /\ Has(copies[mark.kept]) /\ Stays(mark.kept, copies, live, astray)
      BY <2>1, <2>2 DEF Stays
    <3>2. pc_engine' = "recovering" /\ target_engine' = mark.kept /\ mark' = mark
      BY <1>3, <2>2, <3>1 DEF Engine!Recover, Engine!IsCopy, Engine!Complete, Has,
         Engine!Binary
    <3>3. Stays(target_engine', copies', live', astray')
      BY <2>1, <3>1, <3>2
    <3>4. WayBackKept'
      BY <2>1, <2>2, <3>2, <3>3
    <3>5. SwapTypes'
      BY <1>0, <2>1
    <3> QED
      BY <2>1, <3>2, <3>4, <3>5
  <2>3. CASE ~(mark.there /\ Has(copies[mark.kept]))
    <3>1. pc_engine' = "fetch" /\ mark' = Engine!NoMark
      BY <1>3, <2>3 DEF Engine!Recover, Engine!Complete, Has, Engine!Binary
    <3>2. Sound(live, DOMAIN copies, copies, astray)
      BY <2>1, <2>3, LaidIsSound DEF Stays
    <3> QED
      BY <2>1, <2>3, <3>1, <3>2
  <2> QED
    BY <2>2, <2>3
<1>4. CASE Engine!RestoreFile
  <2> DEFINE T == target_engine
  <2>3. T \in DOMAIN copies
    BY <1>4 DEF Stays, Engine!RestoreFile, Engine!PuttingBack
  <2>1. PICK f \in todo :
           /\ pc_engine \in {"recovering", "aborting", "backing", "restoring"}
           /\ f = Engine!First(todo) /\ f \in 1..Last /\ todo' = todo \ {f}
           /\ UNCHANGED <<run, want, staged, mark, pc_engine, changed, kept, target_engine, astray>>
           /\ DOMAIN copies' = DOMAIN copies
           /\ \A n \in DOMAIN copies : n # T => copies'[n] = copies[n]
           /\ copies'[T] = [files |-> [copies[T].files EXCEPT ![f] = 0], unit |-> copies[T].unit]
           /\ live' = [live EXCEPT ![f] = IF copies[T].files[f] # 0 THEN copies[T].files[f] ELSE live[f]]
           /\ Laid(copies'[T], live') = Laid(copies[T], live)
    BY <1>4, <2>3, OneBack
  <2>2. /\ pc_engine \in {"recovering", "aborting", "backing", "restoring"}
        /\ todo' = todo \ {f}
        /\ UNCHANGED <<run, want, staged, mark, pc_engine, changed, kept, target_engine, astray>>
    BY <2>1
  <2>4. /\ live \in [1..Last -> Nat] /\ f \in 1..Last /\ copies[T].files \in [1..Last -> Nat]
        /\ copies[T] = [files |-> copies[T].files, unit |-> copies[T].unit]
    BY <2>1, <2>3
  <2>5. /\ DOMAIN copies' = DOMAIN copies /\ \A n \in DOMAIN copies : n # T => copies'[n] = copies[n]
        /\ copies'[T] = [files |-> [copies[T].files EXCEPT ![f] = 0], unit |-> copies[T].unit]
        /\ live' = [live EXCEPT ![f] = IF copies[T].files[f] # 0 THEN copies[T].files[f] ELSE live[f]]
    BY <2>1
  <2>6. Laid(copies'[T], live') = Laid(copies[T], live)
    BY <2>1
  <2>7. Stays(T, copies, live, astray) => Stays(T, copies', live', astray')
    BY <2>2, <2>5, <2>6, SoundAsBefore DEF Stays
  <2>8. SwapTypes'
    BY <1>0, <2>2
  <2>9. \A g \in 1..Last \ todo' : copies[T].files[g] # 0 => g = f \/ g \in 1..Last \ todo
    BY <2>2
  <2>10. \A g \in 1..Last \ todo' : copies'[T].files[g] = 0
    <3>1. copies'[T].files = [copies[T].files EXCEPT ![f] = 0]
      BY <2>5
    <3>2. TAKE g \in 1..Last \ todo'
    <3>3. g = f \/ (g # f /\ copies[T].files[g] = 0)
      BY <2>2, <2>9
    <3>4. g \in 1..Last /\ f \in 1..Last /\ copies[T].files \in [1..Last -> Nat]
      BY <2>4
    <3>. HIDE DEF SwapInv
    <3> QED
      BY <3>1, <3>3, <3>4, OneGone
  <2>12. ~Has(copies'[T])
    <3>1. 1 \in todo => f = 1
      <4>1. 1 \in todo => f <= 1
        BY <2>1, FirstIs DEF EngineReleases
      <4> QED
        BY <2>4, <4>1
    <3>2. 1 \in 1..Last \ todo'
      BY <2>2, <3>1 DEF EngineReleases
    <3> QED
      BY <2>10, <3>2 DEF Has
  <2>11. Restoring'
    <3>1. SUFFICES ASSUME pc_engine = "restoring" PROVE Restoring'
      BY <2>2
    <3>2. copies'[kept] = copies[kept] /\ kept \in DOMAIN copies
      BY <2>5, <3>1
    <3>3. Laid(copies'[kept], live') = Laid(copies[kept], live)
      BY <2>4, <2>5, <3>1, <3>2 DEF Laid
    <3>5. Latest(kept, copies')
      BY <2>5, <3>1 DEF Latest
    <3> QED
      BY <2>2, <2>4, <2>5, <2>6, <2>10, <2>12, <3>1, <3>2, <3>3, <3>5
  <2> QED
    BY <2>2, <2>7, <2>8, <2>10, <2>11, <2>12
<1>5. CASE Engine!RestoreFails
  <2>1. /\ pc_engine \in {"recovering", "aborting", "backing", "restoring"} /\ todo # {}
        /\ run' = "none" /\ pc_engine' = "rest" /\ todo' = {}
        /\ UNCHANGED <<live, staged, copies, mark, want, changed, kept, target_engine>>
    BY <1>5 DEF Engine!RestoreFails, Engine!PuttingBack
  <2>2. Engine!Strays
    BY <1>5 DEF Engine!RestoreFails
  <2>3. CASE pc_engine = "restoring"
    <3>1. astray' = IF ~Has(copies[target_engine]) THEN "copy" ELSE "none"
      BY <2>2, <2>3 DEF Engine!Strays, Engine!Begun, Engine!PuttingBack, Engine!Complete, Has, Engine!Binary
    <3> QED
      BY <2>1, <2>3, <3>1 DEF Stays, Sound
  <2>4. CASE pc_engine # "restoring"
    <3>1. Has(copies[target_engine]) /\ astray' = astray
      BY <2>1, <2>2, <2>4 DEF Engine!Strays, Engine!Begun, Engine!PuttingBack, Engine!Complete, Has, Engine!Binary
    <3> QED
      BY <2>1, <2>4, <3>1
  <2> QED
    BY <2>3, <2>4
<1>6. CASE Engine!Recovered
  <2>1. /\ pc_engine = "recovering" /\ todo = {} /\ mark' = Engine!NoMark /\ pc_engine' = "fetch" /\ todo' = 1..Last
        /\ copies' = Engine!Without(target_engine)
        /\ UNCHANGED <<run, want, live, staged, changed, kept, target_engine, astray>>
    BY <1>6 DEF Engine!Recovered, Engine!Restored
  <2>2. \A f \in 1..Last : copies[target_engine].files[f] = 0
    BY <2>1
  <2>3. /\ Sound(live', DOMAIN copies', copies', astray') /\ DOMAIN copies' \subseteq DOMAIN copies
        /\ Bounded(copies') /\ \A m \in DOMAIN copies' : copies'[m] = copies[m]
    BY <2>1, <2>2, BackIsSound DEF Stays
  <2> QED
    BY <2>1, <2>3
<1>7. CASE Engine!Aborted
  <2>1. /\ pc_engine = "aborting" /\ todo = {} /\ mark' = Engine!NoMark /\ pc_engine' = "rest" /\ todo' = {}
        /\ run' = "none" /\ copies' = Engine!Without(target_engine)
        /\ UNCHANGED <<want, live, staged, changed, kept, target_engine, astray>>
    BY <1>7 DEF Engine!Aborted, Engine!Restored
  <2>2. \A f \in 1..Last : copies[target_engine].files[f] = 0
    BY <2>1
  <2>3. /\ Sound(live', DOMAIN copies', copies', astray') /\ DOMAIN copies' \subseteq DOMAIN copies
        /\ Bounded(copies') /\ \A m \in DOMAIN copies' : copies'[m] = copies[m]
    BY <2>1, <2>2, BackIsSound DEF Stays
  <2> QED
    BY <2>1, <2>3
<1>8. CASE Engine!RolledBack
  <2> DEFINE T == target_engine
  <2>1. /\ pc_engine = "restoring" /\ todo = {} /\ mark' = Engine!NoMark /\ pc_engine' = "restart" /\ todo' = {}
        /\ copies' = Engine!Without(T)
        /\ UNCHANGED <<run, want, live, staged, changed, kept, target_engine, astray>>
    BY <1>8 DEF Engine!RolledBack, Engine!Restored
  <2>2. /\ DOMAIN copies' = DOMAIN copies \ {T} /\ \A m \in DOMAIN copies' : copies'[m] = copies[m]
    BY <2>1 DEF Engine!Without, Engine!Restrict
  <2>3. Engine!IsWhole(live)
    BY <2>1, LaidSame
  <2>4. \A n \in DOMAIN copies' : (\A m \in DOMAIN copies' : Has(copies'[m]) => m <= n) => n = kept
    BY <2>1, <2>2 DEF Latest
  <2>5. Sound(live', DOMAIN copies', copies', astray')
    BY <2>1, <2>2, <2>3, <2>4 DEF Sound, SoundOver
  <2>6. SwapTypes'
    BY <2>1, <2>2 DEF Bounded
  <2> QED
    BY <2>1, <2>5, <2>6
<1>9. CASE Engine!PutBack
  <2>1. /\ pc_engine = "backing" /\ todo = {} /\ mark' = mark /\ pc_engine' = "again" /\ todo' = {}
        /\ copies' = Engine!Without(target_engine)
        /\ UNCHANGED <<run, want, live, staged, changed, kept, target_engine, astray>>
    BY <1>9 DEF Engine!PutBack, Engine!Restored
  <2>2. \A f \in 1..Last : copies[target_engine].files[f] = 0
    BY <2>1
  <2>3. /\ Sound(live', DOMAIN copies', copies', astray') /\ DOMAIN copies' \subseteq DOMAIN copies
        /\ Bounded(copies') /\ \A m \in DOMAIN copies' : copies'[m] = copies[m]
    BY <2>1, <2>2, BackIsSound DEF Stays
  <2> QED
    BY <2>1, <2>3
<1>10. CASE Engine!Fetch
  <2>1. PICK f \in todo : f = Engine!First(todo)
    BY <1>10, FirstIs DEF Engine!Fetch, EngineReleases
  <2>2. /\ pc_engine = "fetch" /\ run # "rollback" /\ todo' = todo \ {f}
        /\ IF live[f] = Content[want][f] THEN staged' = [staged EXCEPT ![f] = 0] /\ changed' = changed
           ELSE staged' = [staged EXCEPT ![f] = Content[want][f]] /\ changed' = changed \cup {f}
        /\ UNCHANGED <<run, want, live, copies, mark, pc_engine, kept, target_engine, astray>>
    BY <1>10, <2>1 DEF Engine!Fetch
  <2>3. f \in 1..Last /\ f \notin changed /\ Content[want][f] \in Nat
    BY ZenonT(60), <2>1, <2>2 DEF EngineReleases
  <2>4. staged' \in [1..Last -> Nat] /\ changed' \subseteq 1..Last /\ todo' \subseteq 1..Last
    <3>1. [staged EXCEPT ![f] = 0] \in [1..Last -> Nat] /\ [staged EXCEPT ![f] = Content[want][f]] \in [1..Last -> Nat]
      BY <2>3
    <3> QED
      BY ZenonT(60), <2>2, <2>3, <3>1
  <2>5. \A g \in 1..Last \ todo' : IF g \in changed' THEN staged'[g] = Content[want][g]
                                                   ELSE live[g] = Content[want][g]
    <3>1. CASE live[f] = Content[want][f]
      BY ZenonT(60), <2>2, <2>3, <3>1
    <3>2. CASE live[f] # Content[want][f]
      <4>1. staged' = [staged EXCEPT ![f] = Content[want][f]] /\ changed' = changed \cup {f}
        BY <2>2, <3>2
      <4>2. staged'[f] = Content[want][f] /\ \A g \in 1..Last : g # f => staged'[g] = staged[g]
        BY <2>3, <4>1
      <4> QED
        BY <2>2, <4>1, <4>2
    <3> QED
      BY <3>1, <3>2
  <2>6. changed' \cap todo' = {}
    BY <2>2
  <2> QED
    BY <2>2, <2>4, <2>5, <2>6
<1>11. CASE Engine!Missing
  BY <1>11 DEF Engine!Missing
<1>12. CASE Engine!Fetched
  <2>1. /\ pc_engine = "fetch" /\ todo' = {} /\ pc_engine' \in {"restart", "render", "keep"}
        /\ pc_engine' = "keep" => run # "rollback" /\ todo = {} /\ staged' = staged
        /\ pc_engine' = "restart" => run = "rollback"
        /\ staged' \in {staged, Engine!NoFiles}
        /\ UNCHANGED <<run, want, live, copies, mark, changed, kept, target_engine, astray>>
    BY <1>12 DEF Engine!Fetched
  <2>2. staged' \in [1..Last -> Nat]
    BY <2>1
  <2>3. FetchedSoFar'
    BY <2>1
  <2>4. kept' = 0 /\ ~mark'.there /\ Sound(live', DOMAIN copies', copies', astray')
    BY <2>1
  <2>5. SwapTypes'
    BY <2>1, <2>2
  <2> QED
    BY <2>1, <2>3, <2>4, <2>5
<1>13. CASE Engine!KeepLive
  <2>1. /\ pc_engine = "keep" /\ kept' = Engine!Fresh /\ pc_engine' = "mark"
        /\ copies' = [n \in DOMAIN copies \cup {kept'} |-> IF n = kept' THEN Engine!Kept ELSE copies[n]]
        /\ UNCHANGED <<run, want, live, staged, mark, todo, changed, target_engine, astray>>
    BY <1>13 DEF Engine!KeepLive
  <2>2. kept' \in Nat \ {0} /\ \A m \in DOMAIN copies : m < kept'
    BY <2>1, FreshIs
  <2>3. /\ DOMAIN copies' = DOMAIN copies \cup {kept'} /\ DOMAIN copies' \ {kept'} = DOMAIN copies
        /\ \A n \in DOMAIN copies : copies'[n] = copies[n]
        /\ copies'[kept'] = Engine!Kept
    <3>1. kept' \notin DOMAIN copies
      BY <2>2
    <3> QED
      BY <2>1, <3>1
  <2>4. /\ Engine!Kept = [files |-> Engine!Kept.files, unit |-> Engine!Kept.unit]
        /\ Engine!Kept.files \in [1..Last -> Nat]
        /\ \A f \in 1..Last : Engine!Kept.files[f] \in {0, live[f]}
        /\ \A f \in 1..Last : (f \in Models => f \in Engine!Replacing) => Engine!Kept.files[f] = live[f]
    BY DEF Engine!Kept
  <2>5. SwapTypes'
    BY <2>1, <2>2, <2>3, <2>4 DEF Bounded
  <2>6. Sound(live', DOMAIN copies' \ {kept'}, copies', astray')
    BY <2>1, <2>3, SoundAsBefore
  <2>7. Latest(kept', copies')
    BY <2>2, <2>3 DEF Latest
  <2>8. ToRollBack'
    BY <2>1, <2>2, <2>3
  <2>9. KeptAside'
    BY <2>1, <2>3, <2>4, <2>7 DEF Engine!Replacing
  <2> QED
    BY <2>1, <2>5, <2>6, <2>8, <2>9
<1>14. CASE Engine!CannotKeep
  BY <1>14 DEF Engine!CannotKeep
<1>15. CASE Engine!Mark
  <2>1. /\ pc_engine = "mark"
        /\ UNCHANGED <<run, want, live, staged, copies, changed, kept, target_engine, astray>>
    BY <1>15 DEF Engine!Mark
  <2>2. kept # 0 /\ kept \in DOMAIN copies /\ Latest(kept, copies)
    BY <2>1
  <2>3. /\ \A f \in 1..Last : live[f] # 0
        /\ Laid(copies[kept], live) = live /\ Has(copies[kept]) /\ Stays(kept, copies, live, astray)
    BY <2>1, MarkReady
  <2>4. CASE run = "rollback"
    <3>1. mark'.there /\ mark'.kept = kept /\ pc_engine' = "restoring" /\ todo' = 1..Last
      BY <1>15, <2>2, <2>4 DEF Engine!Mark
    <3>2. /\ SoundOver(DOMAIN copies \ {kept}, copies, live) /\ Engine!IsWhole(live)
          /\ Engine!IsWhole(Laid(copies[target_engine], live))
      BY <2>1, <2>4 DEF Sound, SoundOver
    <3>3. \A f \in 1..Last : copies[target_engine].files[f] # 0 => copies[kept].files[f] # 0
      BY <2>1, <2>3, <2>4
    <3> QED
      BY <2>1, <2>2, <2>3, <2>4, <3>1, <3>2, <3>3
  <2>5. CASE run # "rollback"
    <3>1. mark'.there /\ mark'.kept = kept /\ pc_engine' = "move" /\ todo' = changed
      BY <1>15, <2>5 DEF Engine!Mark
    <3>2. \A f \in changed : copies[kept].files[f] # 0
      BY <2>1, <2>3, <2>5
    <3> QED
      BY <2>1, <2>2, <2>3, <2>5, <3>1, <3>2
  <2> QED
    BY <2>4, <2>5
<1>16. CASE Engine!Move
  <2>1. PICK f \in todo : f = Engine!First(todo)
    BY <1>16, FirstIs DEF Engine!Move, EngineReleases
  <2>2. /\ pc_engine = "move" /\ live' = [live EXCEPT ![f] = staged[f]] /\ staged' = [staged EXCEPT ![f] = 0]
        /\ todo' = todo \ {f}
        /\ UNCHANGED <<run, want, copies, mark, pc_engine, changed, kept, target_engine, astray>>
    BY <1>16, <2>1 DEF Engine!Move
  <2>3. f \in changed /\ f \in 1..Last /\ copies[kept].files[f] # 0
    BY <2>2
  <2>4. Laid(copies[kept], live') = Laid(copies[kept], live)
    BY <2>2, <2>3 DEF Laid
  <2>5. Stays(kept, copies, live', astray)
    BY <2>2, <2>4 DEF Stays
  <2>6. live' \in [1..Last -> Nat] /\ staged' \in [1..Last -> Nat]
    BY <2>2, <2>3
  <2>7. \A g \in 1..Last : IF g \in todo' THEN staged'[g] = Content[want][g] ELSE live'[g] = Content[want][g]
    BY <2>2, <2>3
  <2> QED
    BY <2>2, <2>5, <2>6, <2>7
<1>17. CASE Engine!Abort
  BY <1>17 DEF Engine!Abort
<1>18. CASE Engine!Moved
  <2>1. /\ pc_engine = "move" /\ todo = {} /\ mark' = Engine!NoMark /\ staged' = Engine!NoFiles
        /\ copies' = Engine!Pruned /\ pc_engine' = "render"
        /\ UNCHANGED <<run, want, live, todo, changed, kept, target_engine, astray>>
    BY <1>18 DEF Engine!Moved
  <2>2. /\ kept \in DOMAIN copies' /\ DOMAIN copies' \subseteq DOMAIN copies
        /\ \A n \in DOMAIN copies' : copies'[n] = copies[n]
    BY <2>1, PrunedIs DEF Stays
  <2>3. Engine!IsWhole(live)
    <3>1. live = Content[want] /\ want \in DOMAIN Content
      BY <2>1 DEF EngineReleases
    <3> QED
      BY <3>1 DEF Engine!IsWhole, Engine!Releases
  <2>4. \A n \in DOMAIN copies' : (\A m \in DOMAIN copies' : Has(copies'[m]) => m <= n) => n = kept
    BY <2>1, <2>2 DEF Latest
  <2>5. Sound(live, DOMAIN copies', copies', astray)
    BY <2>1, <2>2, <2>3, <2>4 DEF Sound, SoundOver, Stays
  <2>6. Stays(kept, copies', live, astray)
    <3>1. Sound(Laid(copies[kept], live), DOMAIN copies \ {kept}, copies, astray)
      BY <2>1 DEF Stays
    <3>2. Sound(Laid(copies[kept], live), DOMAIN copies' \ {kept}, copies', astray)
      BY <2>1, <2>2, <3>1, PrunedIs, PrunedKeeps
    <3> QED
      BY <2>2, <3>2 DEF Stays
  <2>7. SwapTypes'
    BY <2>1, <2>2 DEF Bounded
  <2> QED
    BY <2>1, <2>5, <2>6, <2>7
<1>19. CASE Engine!Render
  BY <1>19 DEF Engine!Render
<1>20. CASE Engine!Back
  <2>1. /\ pc_engine = "back" /\ UNCHANGED <<live, staged, copies, mark, want, changed, kept, astray>>
        /\ \/ kept # 0 /\ pc_engine' = "backing" /\ target_engine' = kept /\ todo' = 1..Last /\ run' = run
           \/ pc_engine' = "again" /\ UNCHANGED <<run, todo, target_engine>>
           \/ pc_engine' = "rest" /\ run' = "none" /\ todo' = {} /\ target_engine' = target_engine
    BY <1>20 DEF Engine!Back
  <2> QED
    BY <2>1
<1>22. ASSUME NEW b \in BOOLEAN, Engine!Restart(b) PROVE SwapInv'
  <2>1. pc_engine = "restart" /\ UNCHANGED <<live, staged, mark, want, changed, kept, astray>>
    BY <1>22 DEF Engine!Restart
  <2>2. CASE /\ copies' = copies /\ target_engine' = target_engine
             /\ \/ run' = "none" /\ pc_engine' = "rest" /\ todo' = {}
                \/ run # "rollback" /\ pc_engine' = "back" /\ UNCHANGED <<run, todo>>
    BY <2>1, <2>2
  <2>3. CASE /\ copies' = Engine!Pruned /\ target_engine' = target_engine
             /\ run' = "none" /\ pc_engine' = "rest" /\ todo' = {}
    <3>1. /\ DOMAIN copies' \subseteq DOMAIN copies /\ \A n \in DOMAIN copies' : copies'[n] = copies[n]
          /\ DOMAIN copies \ {0} = DOMAIN copies /\ DOMAIN copies' \ {0} = DOMAIN copies'
      BY <2>3, PrunedIs
    <3>2. Sound(live, DOMAIN copies', copies', astray)
      <4>1. \A n \in DOMAIN copies \ {0} :
              Has(copies[n]) /\ (\A m \in DOMAIN copies \ {0} : Has(copies[m]) => m <= n) => n \in DOMAIN copies'
        BY <2>3, <3>1, PrunedIs
      <4>2. Sound(live, DOMAIN copies \ {0}, copies, astray) /\ DOMAIN copies \subseteq Nat /\ Bounded(copies)
        BY <2>1, <3>1
      <4>3. Sound(live, DOMAIN copies' \ {0}, copies', astray)
        BY <3>1, <4>1, <4>2, PrunedKeeps
      <4> QED
        BY <3>1, <4>3
    <3>3. SwapTypes'
      BY <2>1, <2>3, <3>1 DEF Bounded
    <3> QED
      BY <2>1, <2>3, <3>2, <3>3
  <2> QED
    BY <1>22, <2>2, <2>3 DEF Engine!Restart
<1>23. ASSUME NEW b \in BOOLEAN, Engine!Check(b) PROVE SwapInv'
  BY SMTT(30), <1>23 DEF Engine!Check
<1>24. ASSUME NEW b \in BOOLEAN, Engine!Stopped(b) PROVE SwapInv'
  <2>1. /\ run # "none" /\ run' = "none" /\ pc_engine' = "rest" /\ todo' = {}
        /\ UNCHANGED <<live, staged, copies, mark, want, changed, kept, target_engine>>
    BY <1>24 DEF Engine!Stopped
  <2>6. astray' = IF pc_engine = "restoring" /\ astray = "none" /\ ~Has(copies[target_engine]) THEN "copy" ELSE astray
    BY <1>24 DEF Engine!Stopped, Engine!Strays, Engine!Begun, Engine!PuttingBack, Engine!Complete, Has,
       Engine!Binary
  <2>2. CASE pc_engine = "restoring"
    BY <2>1, <2>2, <2>6 DEF Stays, Sound
  <2>3. CASE pc_engine = "mark"
    BY <2>1, <2>3, <2>6, MarkReady
  <2>4. CASE pc_engine = "move"
    BY <2>1, <2>4, <2>6
  <2>7. CASE pc_engine \in {"recovering", "aborting", "backing"}
    <3>1. astray' = astray /\ target_engine \in DOMAIN copies
      BY <2>6, <2>7 DEF Stays
    <3>2. Has(copies[target_engine]) \/ todo = {}
      BY <1>24, <2>7 DEF Engine!Stopped, Engine!Strays, Engine!Begun, Engine!PuttingBack, Engine!Complete, Has,
         Engine!Binary
    <3>3. Has(copies[target_engine]) \/ AllLaid(copies[target_engine])
      BY <2>7, <3>2 DEF AllLaid
    <3>4. pc_engine = "backing" => Sound(live, DOMAIN copies, copies, astray)
      BY <2>7, <3>1, <3>3, LaidIsSound
    <3> QED
      BY <2>1, <2>7, <3>1, <3>3, <3>4
  <2>5. CASE pc_engine \notin {"restoring", "mark", "move", "recovering", "aborting", "backing"}
    BY <2>1, <2>5, <2>6
  <2> QED
    BY <2>2, <2>3, <2>4, <2>5, <2>7
<1>25. CASE Engine!Rest
  BY <1>25 DEF Engine!Rest, Engine!vars
<1>26. CASE Engine!Again
  BY <1>26 DEF Engine!Again
<1> QED
  BY <1>1, <1>2, <1>3, <1>4, <1>5, <1>6, <1>7, <1>8, <1>9, <1>10, <1>11, <1>12, <1>13,
     <1>14, <1>15,
     <1>16, <1>17, <1>18, <1>19, <1>20, <1>26, <1>22, <1>23, <1>24, <1>25 DEF Engine!Next, Engine!Releases

(* Strays and a rollback over a stray leave no way back to a sound one. *)
LEMMA EngineKeeps ==
  ASSUME EngineReleases, EngineInv, [Engine!Next]_Engine!vars
  PROVE  EngineInv'
<1>1. CASE UNCHANGED Engine!vars
  <2>1. /\ UNCHANGED <<live, staged, copies, mark, run, pc_engine, todo, want, changed, kept, target_engine, astray>>
    BY <1>1 DEF Engine!vars, Engine!diskVars, Engine!runVars, Engine!count
  <2> QED
    BY <2>1 DEF EngineInv, SwapInv, SwapKinds, SwapTypes, FetchedSoFar, KeptAside,
       ToRollBack,
       Moving, WayBackKept,
       Restoring, AtRest
<1>2. CASE Engine!Next
  <2>1. astray = "live" => astray' = "live"
    BY <1>2 DEF Engine!Next, Engine!Full, Engine!Only, Engine!Rollback, Engine!Recover,
       Engine!RestoreFile,
       Engine!RestoreFails, Engine!Recovered, Engine!Aborted, Engine!RolledBack, Engine!PutBack,
       Engine!Restored, Engine!Fetch, Engine!Missing, Engine!Fetched, Engine!KeepLive, Engine!CannotKeep,
       Engine!Mark, Engine!Move, Engine!Abort, Engine!Moved, Engine!Render, Engine!Back, Engine!Again,
       Engine!Restart, Engine!Check, Engine!Stopped, Engine!Rest, Engine!Strays, Engine!Begun,
       Engine!PuttingBack, Engine!Begins, Engine!count, Engine!vars
  <2> QED
    BY <1>2, <2>1, SwapKeeps DEF EngineInv
<1> QED
  BY <1>1, <1>2

LEMMA EngineAlone == [Next]_vars => [Engine!Next]_Engine!vars
BY DEF Next, HeldGoes, LineGoes, PairGoes, DeviceGoes, KeyGoes, PhoneGoes, WifiGoes,
   EngineGoes, VenvsGoes, heldOnly, lineOnly, pairOnly, deviceOnly, keyOnly, phoneOnly,
   wifiOnly, venvsOnly, vars, engineVars, Engine!vars, Engine!diskVars, Engine!runVars, Engine!count

(* A box a first full run set up is sound. *)
LEMMA EngineStarts ==
  ASSUME EngineReleases
  PROVE  Init => EngineInv
<1>1. SUFFICES ASSUME Init PROVE EngineInv
  OBVIOUS
<1>2. /\ live = Content[1] /\ staged = Engine!NoFiles /\ DOMAIN copies = {} /\ mark = Engine!NoMark
      /\ run = "none" /\ pc_engine = "rest" /\ todo = {} /\ changed = {} /\ kept = 0 /\ astray = "none"
  BY <1>1 DEF Init, Engine!Init
<1>3. SwapTypes
  BY <1>2 DEF SwapKinds, SwapTypes, Bounded, EngineReleases, Engine!NoFiles, Engine!File,
     Engine!NoFile
<1>4. Sound(live, DOMAIN copies, copies, astray)
  BY <1>2 DEF Sound, SoundOver, Engine!IsWhole, Engine!Releases, EngineReleases
<1> QED
  BY <1>2, <1>3, <1>4 DEF EngineInv, SwapInv, FetchedSoFar, KeptAside, ToRollBack,
     Moving, WayBackKept,
     Restoring, AtRest, Engine!NoMark

(* Once no marker stands the live engine is one release's, and the newest   *)
(* kept one put over it would be too; unless a run was stopped, or a rename *)
(* refused, among the renames that put an engine back.                      *)
THEOREM TheEngineIsWhole ==
  ASSUME EngineReleases
  PROVE  Spec => []Engine!InstallIsWhole
<1>1. Init => EngineInv
  BY EngineStarts
<1>2. EngineInv /\ [Next]_vars => EngineInv'
  BY EngineKeeps, EngineAlone
<1>3. EngineInv => Engine!InstallIsWhole
  <2>1. SUFFICES ASSUME SwapInv, Engine!Calm
                 PROVE  /\ Engine!IsWhole(live)
                        /\ astray = "none" /\ Engine!Whole # {} => Engine!IsWhole(Engine!Over(Engine!Newest))
    BY DEF EngineInv, Engine!InstallIsWhole
  <2>2. Sound(live, DOMAIN copies, copies, astray)
    BY <2>1 DEF SwapInv, SwapKinds, SwapTypes, Engine!Calm
  <2>3. ASSUME astray = "none", Engine!Whole # {} PROVE Engine!IsWhole(Engine!Over(Engine!Newest))
    <3>1. Engine!IsWhole(Laid(copies[Engine!Newest], live))
      BY <2>1, <2>2, <2>3, NewestIs DEF Sound, SoundOver, SwapInv, SwapTypes
    <3> QED
      BY <3>1 DEF Laid, Engine!Over, Engine!File, Engine!NoFile
  <2> QED
    BY <2>2, <2>3 DEF Sound
<1> QED
  BY <1>1, <1>2, <1>3, PTL DEF Spec

-----------------------------------------------------------------------------
(* How a run of the engine's installer ends.                                *)

(* The same file by file. *)
LEMMA SameFiles ==
  ASSUME NEW files \in [1..Last -> Nat], NEW fs \in [1..Last -> Nat \ {0}],
         \A f \in 1..Last : files[f] = fs[f]
  PROVE  files = fs
<1>1. files = [f \in 1..Last |-> files[f]] /\ fs = [f \in 1..Last |-> fs[f]]
  BY SMTT(30)
<1> QED
  BY <1>1, Zenon

(* The engine's run, by where it is: what it was begun with, and the box as *)
(* it found it.  Only an --only run checks, or puts back.                   *)
RunKinds ==
  /\ run \in {"none", "full", "only", "rollback"} /\ (run = "none" <=> pc_engine = "rest")
  /\ env_engine \in BOOLEAN /\ was.env \in BOOLEAN
  /\ was = [live |-> was.live, unit |-> was.unit, env |-> was.env]
  /\ unit # 0 /\ was.unit # 0 /\ (\A f \in 1..Last : live[f] # 0)
  /\ run \in {"full", "only"} => want \in DOMAIN Content
  /\ run = "rollback" =>
       pc_engine \in {"recover", "recovering", "fetch", "keep", "mark", "restoring", "restart"}
  /\ pc_engine \in {"check", "back", "backing", "again"} => run = "only"
  /\ pc_engine = "restoring" => run = "rollback"
  /\ before = was.unit \/ run = "none"

(* Until the swap begins, and after it is undone, files and unit are as     *)
(* found; the copy put back is the one the marker names, with the unit that *)
(* was live beside it.                                                      *)
Found ==
  /\ pc_engine \in {"recover", "fetch", "keep", "mark", "again"} => live = was.live
  /\ pc_engine \in {"recover", "recovering", "fetch", "keep", "mark", "move", "aborting", "again"}
       => unit = was.unit
  /\ pc_engine \in {"aborting", "backing", "recovering", "restoring"} => target_engine \in DOMAIN copies
  /\ pc_engine \in {"keep", "mark"} /\ run = "rollback" => target_engine \in DOMAIN copies
  /\ pc_engine \in {"aborting", "backing"} => target_engine = kept
  /\ pc_engine \in {"aborting", "backing", "recovering"} =>
       \A f \in 1..Last \ todo : copies[target_engine].files[f] = 0
  /\ pc_engine = "recovering" => copies[target_engine].unit = unit
  /\ pc_engine \in {"recover", "recovering", "fetch"} => kept = 0 /\ (pc_engine # "fetch" => changed = {})
  /\ mark.there /\ pc_engine \in {"rest", "recover", "recovering", "move", "aborting", "restoring"}
       /\ mark.kept \in DOMAIN copies => copies[mark.kept].unit = unit
  /\ pc_engine \in {"fetch", "keep", "mark", "render", "restart", "check", "back", "again", "backing"}
       => ~mark.there
  /\ pc_engine \in {"restoring", "move", "aborting"} => mark.kept = kept /\ kept # 0

(* The copy this run kept is the way back to the box as found; where it     *)
(* kept none, it has moved no file.                                         *)
KeptWell ==
  /\ pc_engine \in {"mark", "move", "aborting", "backing", "restoring"} => kept \in DOMAIN copies
  /\ pc_engine \in {"mark", "move", "aborting", "backing"} =>
       copies[kept].unit = was.unit /\ Laid(copies[kept], live) = was.live
  /\ pc_engine \in {"mark", "move"} /\ run # "rollback" => \A f \in changed : copies[kept].files[f] # 0
  /\ pc_engine = "mark" => copies[kept].unit = unit
  /\ pc_engine \in {"render", "restart", "back"} /\ run # "rollback" =>
       IF kept # 0 THEN kept \in DOMAIN copies /\ copies[kept].unit = was.unit
                        /\ Laid(copies[kept], live) = was.live
       ELSE live = was.live

(* The release is swapped in file by file, and then it is what is live.     *)
SwappedIn ==
  /\ pc_engine = "move" =>
       /\ todo \subseteq changed
       /\ \A f \in 1..Last : IF f \in todo THEN staged[f] = Content[want][f]
                             ELSE live[f] = Content[want][f]
  /\ pc_engine \in {"render", "restart", "check"} /\ run # "rollback" => live = Content[want]
  /\ pc_engine \in {"restart", "check"} /\ run # "rollback" => unit = want

(* The keys of engine.env: added by this run if they were not there.        *)
NewKeys ==
  run = "only" =>
    /\ pc_engine \in {"recover", "recovering", "fetch"} => (env_engine <=> was.env) /\ ~added
    /\ pc_engine \in {"keep", "mark", "move", "aborting", "render", "restart", "check", "back", "backing"}
         => env_engine /\ (added <=> ~was.env)
    /\ pc_engine = "again" => (env_engine <=> was.env)

RunInv == SwapKinds /\ RunKinds /\ Found /\ KeptWell /\ FetchedSoFar /\ SwappedIn /\ NewKeys

(* Every step of the engine's installer keeps it. *)
LEMMA RunKeeps ==
  ASSUME EngineReleases, 0 \notin DOMAIN Content, RunInv, [Engine!Next]_Engine!vars
  PROVE  RunInv'
<1>0. SwapKinds'
  BY KindsKeep DEF RunInv, RunKinds, Found
<1>. SUFFICES (RunKinds /\ Found /\ KeptWell /\ FetchedSoFar /\ SwappedIn /\ NewKeys)'
  BY <1>0 DEF RunInv
<1>. USE DEF RunInv, SwapKinds, RunKinds, Found, KeptWell, FetchedSoFar, SwappedIn, NewKeys,
             Engine!diskVars, Engine!runVars, Engine!count, Engine!KeepRun, Engine!Goes, Engine!Ends,
             Engine!NoMark, Engine!NoFile, Engine!NoFiles, Engine!File
<1>. DEFINE Good == RunKinds /\ Found /\ KeptWell /\ FetchedSoFar /\ SwappedIn /\ NewKeys
<1>1. ASSUME NEW r \in DOMAIN Content, Engine!Full(r) \/ Engine!Only(r) PROVE Good'
  <2>1. /\ run = "none" /\ run' \in {"full", "only"} /\ pc_engine' = "recover" /\ want' = r
        /\ was' = [live |-> live, unit |-> unit, env |-> env_engine]
        /\ changed' = {} /\ kept' = 0 /\ ~added' /\ before' = unit
        /\ UNCHANGED <<live, unit, env_engine, staged, copies, mark, todo>>
    BY <1>1 DEF Engine!Full, Engine!Only, Engine!Begins
  <2> QED
    BY <2>1
<1>2. CASE Engine!Rollback
  <2>1. /\ run = "none" /\ run' = "rollback" /\ changed' = {} /\ kept' = 0 /\ ~added' /\ before' = unit
        /\ was' = [live |-> live, unit |-> unit, env |-> env_engine]
        /\ UNCHANGED <<live, unit, env_engine, staged, copies, mark, todo>>
    BY <1>2 DEF Engine!Rollback, Engine!Begins
  <2>2. \/ mark.there /\ pc_engine' = "recover"
        \/ ~mark.there /\ pc_engine' = "keep" /\ target_engine' \in DOMAIN copies
    BY <1>2, NewestIs DEF Engine!Rollback
  <2> QED
    BY <2>1, <2>2
<1>3. CASE Engine!Recover
  <2>1. /\ pc_engine = "recover" /\ todo' = 1..Last
        /\ UNCHANGED <<run, want, was, live, unit, env_engine, staged, copies, changed, kept, before, added>>
    BY <1>3 DEF Engine!Recover
  <2>2. \/ mark.there /\ mark.kept \in DOMAIN copies /\ pc_engine' = "recovering" /\ target_engine' = mark.kept
           /\ mark' = mark
        \/ pc_engine' = "fetch" /\ mark' = Engine!NoMark
    BY <1>3 DEF Engine!Recover, Engine!IsCopy
  <2> QED
    BY <2>1, <2>2
<1>4. CASE Engine!RestoreFile
  <2>1. target_engine \in DOMAIN copies
    BY <1>4 DEF Engine!RestoreFile, Engine!PuttingBack
  <2>2. PICK f \in todo :
           /\ pc_engine \in {"recovering", "aborting", "backing", "restoring"}
           /\ f \in 1..Last /\ todo' = todo \ {f}
           /\ UNCHANGED <<run, want, was, unit, env_engine, staged, mark, pc_engine, changed, kept,
                          target_engine, before, added>>
           /\ DOMAIN copies' = DOMAIN copies
           /\ \A n \in DOMAIN copies : n # target_engine => copies'[n] = copies[n]
           /\ copies'[target_engine] = [files |-> [copies[target_engine].files EXCEPT ![f] = 0],
                                        unit |-> copies[target_engine].unit]
           /\ live' = [live EXCEPT ![f] = IF copies[target_engine].files[f] # 0
                                          THEN copies[target_engine].files[f] ELSE live[f]]
           /\ Laid(copies'[target_engine], live') = Laid(copies[target_engine], live)
           /\ \A g \in 1..Last \ todo : copies[target_engine].files[g] = 0 => copies'[target_engine].files[g] = 0
           /\ copies'[target_engine].files[f] = 0
    BY <1>4, <2>1, OneBack
  <2>3. \A n \in DOMAIN copies : copies'[n].unit = copies[n].unit
    BY <2>2
  <2>4. \A g \in 1..Last : live'[g] # 0
    BY <2>2
  <2>5. pc_engine # "restoring" => \A g \in 1..Last \ todo' : copies'[target_engine].files[g] = 0
    BY <2>2
  <2>6. RunKinds'
    BY <2>2, <2>4
  <2>7. Found'
    BY <2>1, <2>2, <2>3, <2>5
  <2>8. KeptWell'
    BY ZenonT(60), <2>1, <2>2, <2>3
  <2>9. (FetchedSoFar /\ SwappedIn /\ NewKeys)'
    BY <2>2
  <2> QED
    BY <2>6, <2>7, <2>8, <2>9
<1>5. CASE Engine!RestoreFails
  <2>1. /\ pc_engine \in {"recovering", "aborting", "backing", "restoring"}
        /\ run' = "none" /\ pc_engine' = "rest" /\ todo' = {}
        /\ UNCHANGED <<want, was, live, unit, env_engine, staged, copies, mark, changed, kept, target_engine, before, added>>
    BY <1>5 DEF Engine!RestoreFails, Engine!PuttingBack
  <2> QED
    BY <2>1
<1>6. CASE Engine!Recovered
  <2>0. /\ pc_engine = "recovering" /\ target_engine \in DOMAIN copies
        /\ unit' = IF copies[target_engine].unit # 0 THEN copies[target_engine].unit ELSE unit
        /\ was' = [live |-> live, unit |-> unit', env |-> env_engine]
    BY <1>6 DEF Engine!Recovered, Engine!Restored
  <2>1. /\ unit' = unit /\ mark' = Engine!NoMark /\ pc_engine' = "fetch" /\ todo' = 1..Last
        /\ UNCHANGED <<run, want, live, env_engine, staged, changed, kept, target_engine, before, added>>
    BY <1>6, <2>0 DEF Engine!Recovered, Engine!Restored
  <2> QED
    BY <2>0, <2>1
<1>7. CASE Engine!Aborted
  <2>1. /\ pc_engine = "aborting" /\ unit' = unit /\ mark' = Engine!NoMark /\ run' = "none" /\ pc_engine' = "rest" /\ todo' = {}
        /\ UNCHANGED <<want, was, live, env_engine, staged, changed, kept, target_engine, before, added>>
    BY <1>7 DEF Engine!Aborted, Engine!Restored
  <2> QED
    BY <2>1
<1>8. CASE Engine!RolledBack
  <2>1. /\ pc_engine = "restoring" /\ unit' # 0 /\ mark' = Engine!NoMark /\ pc_engine' = "restart" /\ todo' = {}
        /\ UNCHANGED <<run, want, was, live, env_engine, staged, changed, kept, target_engine, before, added>>
    BY <1>8 DEF Engine!RolledBack, Engine!Restored
  <2> QED
    BY <2>1
<1>9. CASE Engine!PutBack
  <2>1. /\ pc_engine = "backing" /\ todo = {} /\ unit' = was.unit /\ pc_engine' = "again"
        /\ UNCHANGED <<run, want, was, live, mark, todo, staged, changed, kept, target_engine, before, added>>
    BY <1>9 DEF Engine!PutBack, Engine!Restored
  <2>2. live = was.live
    <3>1. \A f \in 1..Last : copies[kept].files[f] = 0
      BY <2>1
    <3>2. Laid(copies[kept], live) = live
      BY <3>1, LaidSame
    <3> QED
      BY <2>1, <3>2
  <2>3. env_engine' = (env_engine /\ ~added)
    BY <1>9 DEF Engine!PutBack, Engine!EnvPutBack
  <2>4. run = "only"
    BY <2>1
  <2>5. env_engine' \in BOOLEAN /\ (env_engine' <=> was.env)
    BY <2>1, <2>3, <2>4
  <2> QED
    BY <2>1, <2>2, <2>4, <2>5
<1>10. CASE Engine!Fetch
  <2>1. PICK f \in todo : f = Engine!First(todo)
    BY <1>10, FirstIs DEF Engine!Fetch, EngineReleases
  <2>2. /\ pc_engine = "fetch" /\ run # "rollback" /\ todo' = todo \ {f}
        /\ IF live[f] = Content[want][f] THEN staged' = [staged EXCEPT ![f] = 0] /\ changed' = changed
           ELSE staged' = [staged EXCEPT ![f] = Content[want][f]] /\ changed' = changed \cup {f}
        /\ UNCHANGED <<run, want, was, live, unit, env_engine, copies, mark, pc_engine, kept, target_engine, before, added>>
    BY <1>10, <2>1 DEF Engine!Fetch
  <2>3. f \in 1..Last /\ f \notin changed
    BY <2>1, <2>2
  <2>4. \A g \in 1..Last \ todo' : IF g \in changed' THEN staged'[g] = Content[want][g]
                                                   ELSE live[g] = Content[want][g]
    <3>1. CASE live[f] = Content[want][f]
      BY ZenonT(60), <2>2, <2>3, <3>1
    <3>2. CASE live[f] # Content[want][f]
      <4>1. staged' = [staged EXCEPT ![f] = Content[want][f]] /\ changed' = changed \cup {f}
        BY <2>2, <3>2
      <4>2. staged'[f] = Content[want][f] /\ \A g \in 1..Last : g # f => staged'[g] = staged[g]
        BY <2>3, <4>1
      <4> QED
        BY <2>2, <4>1, <4>2
    <3> QED
      BY <3>1, <3>2
  <2>5. changed' \cap todo' = {}
    BY <2>2
  <2>6. FetchedSoFar'
    BY <2>2, <2>4, <2>5
  <2>7. RunKinds' /\ Found' /\ KeptWell' /\ SwappedIn' /\ NewKeys'
    BY <2>2
  <2> QED
    BY <2>6, <2>7
<1>11. CASE Engine!Missing
  BY <1>11 DEF Engine!Missing
<1>12. CASE Engine!Fetched
  <2>1. /\ pc_engine = "fetch" /\ todo' = {}
        /\ UNCHANGED <<run, want, was, live, unit, copies, mark, changed, kept, target_engine, before>>
    BY <1>12 DEF Engine!Fetched
  <2>2. CASE run = "rollback"
    <3>1. pc_engine' = "restart" /\ UNCHANGED <<env_engine, added>>
      BY <1>12, <2>2 DEF Engine!Fetched
    <3> QED
      BY <2>1, <2>2, <3>1
  <2>3. CASE run # "rollback"
    <3>1. /\ todo = {} /\ run \in {"full", "only"} /\ kept = 0
          /\ pc_engine' = IF changed = {} THEN "render" ELSE "keep"
          /\ changed # {} => staged' = staged
      BY <1>12, <2>1, <2>3 DEF Engine!Fetched
    <3>2. IF run = "only" THEN env_engine' = TRUE /\ added' = ~env_engine ELSE UNCHANGED <<env_engine, added>>
      BY <1>12, <2>3 DEF Engine!Fetched, Engine!EnvAddMissing, Engine!WriteEnv
    <3>3. changed = {} => live = Content[want]
      <4>1. SUFFICES ASSUME changed = {} PROVE live = Content[want]
        OBVIOUS
      <4>2. live \in [1..Last -> Nat] /\ Content[want] \in [1..Last -> Nat \ {0}]
        BY <3>1 DEF EngineReleases
      <4>3. \A f \in 1..Last : live[f] = Content[want][f]
        BY <2>1, <3>1, <4>1
      <4> QED
        BY <4>2, <4>3, SameFiles
    <3>4. NewKeys' /\ env_engine' \in BOOLEAN
      BY <2>1, <3>1, <3>2
    <3>5. FetchedSoFar' /\ SwappedIn'
      BY <2>1, <3>1, <3>3
    <3>6. Found' /\ KeptWell'
      BY <2>1, <3>1
    <3>7. RunKinds'
      BY <2>1, <3>1, <3>4
    <3> QED
      BY <3>4, <3>5, <3>6, <3>7
  <2> QED
    BY <2>2, <2>3
<1>13. CASE Engine!KeepLive
  <2>1. /\ pc_engine = "keep" /\ kept' = Engine!Fresh /\ pc_engine' = "mark"
        /\ copies' = [n \in DOMAIN copies \cup {kept'} |-> IF n = kept' THEN Engine!Kept ELSE copies[n]]
        /\ UNCHANGED <<run, want, was, live, unit, env_engine, staged, mark, todo, changed, target_engine, before, added>>
    BY <1>13 DEF Engine!KeepLive
  <2>2. kept' \in Nat \ {0} /\ \A m \in DOMAIN copies : m < kept'
    BY <2>1, FreshIs
  <2>3. kept' \in DOMAIN copies' /\ copies'[kept'] = Engine!Kept /\ DOMAIN copies \subseteq DOMAIN copies'
    BY <2>1
  <2>4. /\ \A f \in 1..Last : Engine!Kept.files[f] \in {0, live[f]}
        /\ run # "rollback" => \A f \in changed : Engine!Kept.files[f] = live[f]
        /\ Engine!Kept.unit = unit
    BY DEF Engine!Kept, Engine!Replacing
  <2>5. Laid(Engine!Kept, live) = live
    BY <2>4, LaidSame
  <2>6. KeptWell'
    BY <2>1, <2>3, <2>4, <2>5
  <2>7. Found'
    BY <2>1, <2>3
  <2>8. RunKinds' /\ FetchedSoFar' /\ SwappedIn' /\ NewKeys'
    BY <2>1
  <2> QED
    BY <2>6, <2>7, <2>8
<1>14. CASE Engine!CannotKeep
  BY <1>14 DEF Engine!CannotKeep
<1>15. CASE Engine!Mark
  <2>1. /\ pc_engine = "mark" /\ kept \in DOMAIN copies /\ kept # 0
        /\ mark' = [kept |-> kept, there |-> TRUE]
        /\ \/ run = "rollback" /\ pc_engine' = "restoring" /\ todo' = 1..Last
           \/ run # "rollback" /\ pc_engine' = "move" /\ todo' = changed
        /\ UNCHANGED <<run, want, was, live, unit, env_engine, staged, copies, changed, kept, target_engine, before, added>>
    BY <1>15 DEF Engine!Mark
  <2> QED
    BY <2>1
<1>16. CASE Engine!Move
  <2>1. PICK f \in todo : f = Engine!First(todo)
    BY <1>16, FirstIs DEF Engine!Move, EngineReleases
  <2>2. /\ pc_engine = "move" /\ live' = [live EXCEPT ![f] = staged[f]] /\ staged' = [staged EXCEPT ![f] = 0]
        /\ todo' = todo \ {f} /\ f \in changed /\ f \in 1..Last
        /\ UNCHANGED <<run, want, was, unit, env_engine, copies, mark, pc_engine, changed, kept, target_engine, before, added>>
    BY <1>16, <2>1 DEF Engine!Move
  <2>3. run \in {"full", "only"} /\ copies[kept].files[f] # 0 /\ Content[want][f] # 0
    BY <2>2 DEF EngineReleases
  <2>4. Laid(copies[kept], live') = Laid(copies[kept], live)
    BY <2>2, <2>3 DEF Laid
  <2>5. SwappedIn'
    BY <2>2
  <2>6. \A g \in 1..Last : live'[g] # 0
    BY <2>2, <2>3
  <2>7. KeptWell'
    BY <2>2, <2>4
  <2>8. RunKinds'
    BY <2>2, <2>6
  <2>9. Found' /\ FetchedSoFar' /\ NewKeys'
    BY <2>2
  <2> QED
    BY <2>5, <2>7, <2>8, <2>9
<1>17. CASE Engine!Abort
  <2>1. /\ pc_engine = "move" /\ kept # 0 /\ pc_engine' = "aborting" /\ target_engine' = kept /\ todo' = 1..Last
        /\ UNCHANGED <<run, want, was, live, unit, env_engine, staged, copies, mark, changed, kept, before, added>>
    BY <1>17 DEF Engine!Abort
  <2> QED
    BY <2>1
<1>18. CASE Engine!Moved
  <2>1. /\ pc_engine = "move" /\ todo = {} /\ mark' = Engine!NoMark
        /\ copies' = Engine!Pruned /\ pc_engine' = "render"
        /\ UNCHANGED <<run, want, was, live, unit, env_engine, todo, changed, kept, target_engine, before, added>>
    BY <1>18 DEF Engine!Moved
  <2>2. kept \in DOMAIN copies' /\ copies'[kept] = copies[kept]
    BY <2>1, PrunedIs
  <2>3. live = Content[want]
    <3>1. live \in [1..Last -> Nat] /\ Content[want] \in [1..Last -> Nat \ {0}]
      BY <2>1 DEF EngineReleases
    <3>2. \A f \in 1..Last : live[f] = Content[want][f]
      BY <2>1
    <3> QED
      BY <3>1, <3>2, SameFiles
  <2> QED
    BY <2>1, <2>2, <2>3
<1>19. CASE Engine!Render
  <2>1. /\ pc_engine = "render" /\ unit' = want /\ env_engine' = TRUE
        /\ pc_engine' = "restart" \/ (run = "only" /\ pc_engine' = "check")
        /\ UNCHANGED <<run, want, was, live, staged, copies, mark, todo, changed, kept, target_engine, before, added>>
    BY <1>19 DEF Engine!Render, Engine!RenderUnit, Engine!WriteEnv
  <2>2. run \in {"full", "only"} /\ want # 0
    BY <2>1
  <2> QED
    BY <2>1, <2>2
<1>20. CASE Engine!Back
  <2>1. /\ pc_engine = "back" /\ run = "only"
        /\ UNCHANGED <<want, was, live, staged, copies, mark, changed, kept, before>>
    BY <1>20 DEF Engine!Back
  <2>2. CASE kept # 0
    <3>1. /\ pc_engine' = "backing" /\ target_engine' = kept /\ todo' = 1..Last
          /\ UNCHANGED <<run, unit, env_engine, added>>
      BY <1>20, <2>2 DEF Engine!Back
    <3> QED
      BY <2>1, <2>2, <3>1
  <2>3. CASE kept = 0
    <3>1. /\ unit' = before /\ env_engine' = (env_engine /\ ~added) /\ added' = added
          /\ \/ pc_engine' = "again" /\ UNCHANGED <<run, todo>>
             \/ run' = "none" /\ pc_engine' = "rest"
      BY <1>20, <2>3 DEF Engine!Back, Engine!EnvPutBack
    <3>2. env_engine' \in BOOLEAN /\ (env_engine' <=> was.env) /\ live = was.live /\ unit' = was.unit
      BY <2>1, <2>3, <3>1
    <3>3. ~mark'.there
      BY <2>1
    <3> QED
      BY <2>1, <2>3, <3>1, <3>2, <3>3
  <2> QED
    BY <2>2, <2>3
<1>21. CASE Engine!Again
  BY <1>21 DEF Engine!Again
<1>22. ASSUME NEW b \in BOOLEAN, Engine!Restart(b) PROVE Good'
  <2>1. /\ pc_engine = "restart"
        /\ \/ run' = "none" /\ pc_engine' = "rest"
           \/ run = "only" /\ pc_engine' = "back" /\ UNCHANGED <<run, todo, copies, target_engine>>
        /\ UNCHANGED <<want, was, live, unit, env_engine, staged, mark, changed, kept, before, added>>
    BY <1>22 DEF Engine!Restart
  <2> QED
    BY <2>1
<1>23. ASSUME NEW b \in BOOLEAN, Engine!Check(b) PROVE Good'
  BY <1>23 DEF Engine!Check
<1>24. ASSUME NEW b \in BOOLEAN, Engine!Stopped(b) PROVE Good'
  <2>1. /\ run' = "none" /\ pc_engine' = "rest" /\ todo' = {}
        /\ UNCHANGED <<want, was, live, unit, env_engine, staged, copies, mark, changed, kept, target_engine, before, added>>
    BY <1>24 DEF Engine!Stopped
  <2> QED
    BY <2>1
<1>25. CASE Engine!Rest \/ UNCHANGED Engine!vars
  <2>1. UNCHANGED <<live, unit, env_engine, staged, copies, mark, run, pc_engine, todo, want, changed, kept,
                    target_engine, before, added, was>>
    BY <1>25 DEF Engine!Rest, Engine!vars
  <2> QED
    BY <2>1
<1> QED
  BY <1>1, <1>2, <1>3, <1>4, <1>5, <1>6, <1>7, <1>8, <1>9, <1>10, <1>11, <1>12, <1>13, <1>14, <1>15,
     <1>16, <1>17, <1>18, <1>19, <1>20, <1>21, <1>22, <1>23, <1>24, <1>25 DEF Engine!Next, Engine!Releases

(* What AsTold says of the step that ends a run, but for a rollback's files.*)
ToldOfEngine ==
  /\ ended' = "ok" => /\ pc_engine # "check" => up' = [files |-> live', unit |-> unit']
                      /\ run # "rollback" => live' = Content[want] /\ unit' = want
                      /\ run = "rollback" => pc_engine = "restart" /\ live' = live
  /\ ended' = "back" => [live |-> live', unit |-> unit', env |-> env_engine'] = was
  /\ ended' \in {"aborted", "untouched"} => live' = was.live /\ unit' = was.unit

(* Each of the steps that end a run. *)
LEMMA EngineAtTheEnd ==
  ASSUME EngineReleases, RunInv, Engine!Next, run # "none", run' = "none"
  PROVE  ToldOfEngine
<1>. USE DEF RunInv, SwapKinds, RunKinds, Found, KeptWell, SwappedIn, NewKeys, ToldOfEngine,
             Engine!diskVars, Engine!runVars, Engine!count, Engine!KeepRun, Engine!Goes, Engine!Ends
<1>1. CASE Engine!RestoreFails \/ Engine!Abort
  BY <1>1 DEF Engine!RestoreFails, Engine!Abort
<1>2. CASE Engine!Aborted
  <2>1. /\ pc_engine = "aborting" /\ todo = {} /\ ended' = "aborted" /\ UNCHANGED live
        /\ unit' = was.unit
    BY <1>2 DEF Engine!Aborted, Engine!Restored
  <2>2. \A f \in 1..Last : copies[kept].files[f] = 0
    BY <2>1
  <2>3. Laid(copies[kept], live) = live
    BY <2>2, LaidSame
  <2> QED
    BY <2>1, <2>3
<1>3. CASE Engine!Missing \/ Engine!CannotKeep
  BY <1>3 DEF Engine!Missing, Engine!CannotKeep
<1>4. ASSUME NEW b \in BOOLEAN, Engine!Restart(b) PROVE ToldOfEngine
  <2>1. pc_engine = "restart" /\ UNCHANGED <<live, unit>> /\ up' = [files |-> live, unit |-> unit]
    BY <1>4 DEF Engine!Restart, Engine!Started
  <2>2. ended' \in {"ok", "died"}
    BY <1>4 DEF Engine!Restart
  <2> QED
    BY <2>1, <2>2
<1>5. ASSUME NEW b \in BOOLEAN, Engine!Check(b) PROVE ToldOfEngine
  <2>1. pc_engine = "check" /\ run = "only" /\ UNCHANGED <<live, unit>> /\ ended' \in {"ok", "died"}
    BY <1>5 DEF Engine!Check
  <2> QED
    BY <2>1
<1>6. CASE Engine!Back
  BY <1>6 DEF Engine!Back
<1>7. CASE Engine!Again
  <2>1. pc_engine = "again" /\ run = "only" /\ ended' = "back" /\ UNCHANGED <<live, unit, env_engine>>
    BY <1>7 DEF Engine!Again
  <2>2. env_engine = was.env
    <3>1. env_engine \in BOOLEAN /\ was.env \in BOOLEAN /\ (env_engine <=> was.env)
      BY <2>1
    <3>. HIDE DEF RunInv, ToldOfEngine
    <3> QED
      BY <3>1
  <2> QED
    BY <2>1, <2>2
<1>8. ASSUME NEW b \in BOOLEAN, Engine!Stopped(b) PROVE ToldOfEngine
  BY <1>8 DEF Engine!Stopped
<1> QED
  BY <1>1, <1>2, <1>3, <1>4, <1>5, <1>6, <1>7, <1>8 DEF Engine!Next, Engine!Full, Engine!Only, Engine!Begins,
     Engine!Rollback, Engine!Recover, Engine!RestoreFile, Engine!Recovered, Engine!RolledBack, Engine!PutBack,
     Engine!Fetch, Engine!Fetched, Engine!KeepLive, Engine!Mark, Engine!Move, Engine!Moved, Engine!Render, Engine!Rest,
     Engine!vars

(* A run of the engine's installer ends as it says: well, with what it made *)
(* live, whole and running; with everything put back, files, unit and keys; *)
(* or with nothing swapped.                                                 *)
THEOREM TheEngineIsAsTold ==
  ASSUME EngineReleases, 0 \notin DOMAIN Content
  PROVE  Spec => Engine!AsTold
<1>1. Init => EngineInv /\ RunInv
  <2>1. SUFFICES ASSUME Init PROVE RunInv
    BY EngineStarts
  <2>2. /\ live = Content[1] /\ unit = 1 /\ env_engine = FALSE /\ mark = Engine!NoMark
        /\ run = "none" /\ pc_engine = "rest" /\ todo = {} /\ changed = {} /\ kept = 0
        /\ was = [live |-> live, unit |-> unit, env |-> env_engine]
    BY <2>1 DEF Init, Engine!Init
  <2>3. SwapKinds
    BY <2>1, <2>2, EngineStarts DEF EngineInv, SwapInv, SwapTypes, Init, Engine!Init
  <2>4. Content[1] \in [1..Last -> Nat \ {0}]
    BY DEF EngineReleases
  <2>5. RunKinds
    <3>1. was.env = FALSE /\ was.unit = 1 /\ was.live = live /\ \A f \in 1..Last : live[f] # 0
      BY <2>2, <2>4
    <3>2. env_engine \in BOOLEAN /\ was.env \in BOOLEAN
      BY <2>2, <3>1
    <3>3. was = [live |-> was.live, unit |-> was.unit, env |-> was.env]
      BY <2>2, <3>1
    <3> HIDE DEF Init
    <3> QED
      BY ONLY <2>2, <3>1, <3>2, <3>3 DEF RunKinds
  <2>6. Found /\ KeptWell /\ FetchedSoFar /\ SwappedIn /\ NewKeys
    BY <2>2 DEF Found, KeptWell, FetchedSoFar, SwappedIn, NewKeys, Engine!NoMark
  <2> QED
    BY <2>3, <2>5, <2>6 DEF RunInv
<1>2. EngineInv /\ RunInv /\ [Next]_vars => (EngineInv /\ RunInv)'
  BY EngineKeeps, RunKeeps, EngineAlone
<1>3. ASSUME EngineInv, RunInv, EngineInv', [Next]_vars
      PROVE  [run # "none" /\ run' = "none" =>
                /\ ended' = "ok" => /\ pc_engine # "check" => up' = [files |-> live', unit |-> unit']
                                    /\ astray # "live" => Engine!IsWhole(live')
                                    /\ run # "rollback" => live' = Content[want] /\ unit' = want
                /\ ended' = "back" => Engine!Now' = was
                /\ ended' \in {"aborted", "untouched"} => live' = was.live /\ unit' = was.unit]_Engine!vars
  <2>1. SUFFICES ASSUME Engine!Next, run # "none", run' = "none"
                 PROVE  /\ ended' = "ok" => /\ pc_engine # "check" => up' = [files |-> live', unit |-> unit']
                                            /\ astray # "live" => Engine!IsWhole(live')
                                            /\ run # "rollback" => live' = Content[want] /\ unit' = want
                        /\ ended' = "back" => Engine!Now' = was
                        /\ ended' \in {"aborted", "untouched"} => live' = was.live /\ unit' = was.unit
    BY <1>3, EngineAlone
  <2>2. ToldOfEngine
    BY <1>3, <2>1, EngineAtTheEnd
  <2>3. ASSUME ended' = "ok", astray # "live" PROVE Engine!IsWhole(live')
    <3>1. CASE run = "rollback"
      <4>1. Engine!IsWhole(live)
        BY <1>3, <2>2, <2>3, <3>1 DEF ToldOfEngine, EngineInv, SwapInv, AtRest, Sound
      <4> QED
        BY <2>2, <2>3, <3>1, <4>1 DEF ToldOfEngine
    <3>2. CASE run # "rollback"
      <4>1. live' = Content[want] /\ want \in DOMAIN Content
        BY <1>3, <2>1, <2>2, <2>3, <3>2 DEF ToldOfEngine, RunInv, RunKinds
      <4> QED
        BY <4>1 DEF Engine!IsWhole, Engine!Releases
    <3> QED
      BY <3>1, <3>2
  <2> QED
    BY <2>2, <2>3 DEF ToldOfEngine, Engine!Now
<1> QED
  BY <1>1, <1>2, <1>3, PTL DEF Spec, Engine!AsTold

-----------------------------------------------------------------------------
(* The engine's files are one release's once no marker stands, and with the *)
(* newest kept engine put back too, wherever a run was stopped but among    *)
(* the renames that put an engine back; the brain that is live and the way  *)
(* back to it are on the disk wherever a run was stopped.                   *)
THEOREM TheInstallIsWhole ==
  ASSUME EngineReleases, Max \in Nat, Max < 100, FirstBrain \in Venvs!Release
  PROVE  Spec => []InstallIsWhole
<1>1. Spec => []Engine!InstallIsWhole
  BY TheEngineIsWhole
<1>2. Spec => []Venvs!InstallIsWhole
  BY TheBrainIsThere
<1> QED
  BY <1>1, <1>2, PTL DEF InstallIsWhole

(* A run of either installer ends as it says.  The numbers of the engine's  *)
(* releases begin with one: 0 is no release.                                *)
THEOREM TheInstallerIsAsTold ==
  ASSUME EngineReleases, 0 \notin DOMAIN Content,
         Max \in Nat, Max < 100, FirstBrain \in Venvs!Release, WithOld \in BOOLEAN
  PROVE  Spec => InstallerAsTold
<1>1. Spec => Engine!AsTold
  BY TheEngineIsAsTold
<1>2. Spec => Venvs!BrainAsTold
  BY TheBrainIsAsTold
<1> QED
  BY <1>1, <1>2 DEF InstallerAsTold


-----------------------------------------------------------------------------
(* The key that the brain and OpenClaw share, for any number of keys, saves *)
(* and crashes, while saves keep apart.                                     *)

AtIt == {"tells", "ok", "warn", "no", "half", "backok", "backwarn", "backno", "took"}
Reverting == {"utells", "uok", "uwarn", "uno"}

KeyType ==
  /\ file \in Keys /\ procenv \in Key!KeyOrNone /\ env \in Key!KeyOrNone
  /\ lock \in Savers \cup {None} /\ newest \in Savers \cup {None}
  /\ gen_key \in Nat /\ gen0 \in [Savers -> Nat]
  /\ pc \in [Savers -> {"off"} \cup Key!Running \cup Key!Answers]
  /\ key \in [Savers -> Key!KeyOrNone] /\ prev \in [Savers -> Key!KeyOrNone]
  /\ prev_file \in [Savers -> Key!KeyOrNone]
  /\ \A p \in Savers :
       /\ pc[p] # "off" => key[p] \in Keys
       /\ pc[p] \in AtIt \cup Reverting \cup {"env", "undo"} => prev[p] \in Keys /\ prev_file[p] \in Keys

(* A key OpenClaw is known to have, it has; its gateway runs on it, or will. *)
(* A restart under way for it has been asked for.                           *)
Known ==
  ~mismatched =>
    /\ sha # None => oc = sha
    /\ sha = None => gw_key = oc
    /\ gw_key = oc \/ restart \/ gw_restarts
    /\ owed # None /\ owed = sha => gw_key = oc \/ gw_restarts

(* So it is between saves, and of a save of that very key.                  *)
KnownInv == saving = {} \/ (sha # None /\ saving = {sha}) => Known

(* A save that holds the lock has the file and the marker; what the CLI has *)
(* told OpenClaw, it has.                                                   *)
HolderInv ==
  \A p \in Savers :
    /\ pc[p] \in AtIt \cup Reverting <=> lock = p
    /\ pc[p] \in AtIt => /\ saving = {key[p]} /\ file = key[p]
                         /\ newest # None => prev_file[p] = key[newest]
    /\ pc[p] \in Reverting => saving = {prev[p]} /\ newest \in {p, None}
    /\ pc[p] \in {"tells", "no", "took", "utells"} => Known
    /\ pc[p] \in {"ok", "warn"} => oc = key[p]
    /\ pc[p] \in {"backok", "backwarn", "uok", "uwarn"} => oc = prev[p]
    /\ pc[p] \in {"ok", "backok", "uok"} => gw_key = oc
    /\ pc[p] \in {"backok", "backwarn"} => mismatched \/ sha = prev[p]

(* Nothing goes through between a save and the taking back of it.           *)
NewestInv ==
  /\ newest # None => pc[newest] # "off"
  /\ lock = None /\ saving = {} /\ newest # None => file = key[newest]
  /\ \A p \in Savers : pc[p] \in {"env", "undo"} =>
       /\ gen0[p] <= gen_key /\ (gen_key = gen0[p] => newest \in {p, None})
       /\ lock = None => saving = {}

(* What a look has seen is so until it is written, or it is thrown away.    *)
LookInv == looking = "same" => saving = {} /\ ~mismatched /\ sha = None /\ oc = Key!current_key

IInv == KeyType /\ KnownInv /\ HolderInv /\ NewestInv /\ LookInv

-----------------------------------------------------------------------------
(* Each step keeps it. *)

LEMMA AskedKeeps ==
  ASSUME Apart, None \notin Keys, None \notin Savers, IInv, NEW p \in Savers, Key!Asked(p)
  PROVE  IInv'
<1>1. KeyType'
  BY DEF Key!Asked, IInv, KeyType, Key!Running, Key!Answers, AtIt, Reverting, Key!KeyOrNone, Key!Go, Key!envVars,
     Key!agentVars, Key!stateVars, Key!boxVars
<1>2. KnownInv'
  BY DEF Key!Asked, IInv, KeyType, KnownInv, HolderInv, NewestInv, LookInv, Known, AtIt,
     Reverting, Key!KeyOrNone, Key!Go, Key!envVars, Key!agentVars, Key!stateVars, Key!boxVars
<1>3. HolderInv'
  BY DEF Key!Asked, IInv, KeyType, KnownInv, HolderInv, NewestInv, LookInv, Known, AtIt,
     Reverting, Key!KeyOrNone, Key!Go, Key!envVars, Key!agentVars, Key!stateVars, Key!boxVars
<1>4. NewestInv'
  BY DEF Key!Asked, IInv, KeyType, HolderInv, NewestInv, AtIt, Reverting, Key!KeyOrNone, Key!Go,
     Key!envVars, Key!agentVars, Key!stateVars, Key!boxVars
<1>5. LookInv'
  BY DEF Key!Asked, IInv, LookInv, Key!current_key, Key!Go, Key!envVars, Key!agentVars, Key!stateVars, Key!boxVars
<1> QED
  BY <1>1, <1>2, <1>3, <1>4, <1>5 DEF IInv

LEMMA CheckedKeeps ==
  ASSUME Apart, None \notin Keys, None \notin Savers, IInv, NEW p \in Savers, Key!Checked(p)
  PROVE  IInv'
<1>1. KeyType'
  BY DEF Key!Checked, IInv, KeyType, Key!Running, Key!Answers, AtIt, Reverting, Key!KeyOrNone, Key!Go, Key!envVars,
     Key!agentVars, Key!stateVars, Key!boxVars, Key!readVars
<1>2. KnownInv'
  BY DEF Key!Checked, IInv, KeyType, KnownInv, HolderInv, NewestInv, LookInv, Known, AtIt,
     Reverting, Key!KeyOrNone, Key!Go, Key!envVars, Key!agentVars, Key!stateVars, Key!boxVars, Key!readVars
<1>3. HolderInv'
  BY DEF Key!Checked, IInv, KeyType, KnownInv, HolderInv, NewestInv, LookInv, Known, AtIt,
     Reverting, Key!KeyOrNone, Key!Go, Key!envVars, Key!agentVars, Key!stateVars, Key!boxVars, Key!readVars
<1>4. NewestInv'
  BY DEF Key!Checked, IInv, KeyType, HolderInv, NewestInv, AtIt, Reverting, Key!KeyOrNone, Key!Go,
     Key!envVars, Key!agentVars, Key!stateVars, Key!boxVars, Key!readVars
<1>5. LookInv'
  BY DEF Key!Checked, IInv, LookInv, Key!current_key, Key!Go, Key!envVars, Key!agentVars, Key!stateVars, Key!boxVars,
     Key!readVars
<1> QED
  BY <1>1, <1>2, <1>3, <1>4, <1>5 DEF IInv

LEMMA BusyKeeps ==
  ASSUME Apart, None \notin Keys, None \notin Savers, IInv, NEW p \in Savers, Key!Busy(p)
  PROVE  IInv'
<1>1. KeyType'
  BY DEF Key!Busy, IInv, KeyType, Key!Running, Key!Answers, AtIt, Reverting, Key!KeyOrNone, Key!Go, Key!envVars,
     Key!agentVars, Key!stateVars, Key!boxVars, Key!readVars
<1>2. KnownInv'
  BY DEF Key!Busy, IInv, KeyType, KnownInv, HolderInv, NewestInv, LookInv, Known, AtIt,
     Reverting, Key!KeyOrNone, Key!Go, Key!envVars, Key!agentVars, Key!stateVars, Key!boxVars, Key!readVars
<1>3. HolderInv'
  BY DEF Key!Busy, IInv, KeyType, KnownInv, HolderInv, NewestInv, LookInv, Known, AtIt,
     Reverting, Key!KeyOrNone, Key!Go, Key!envVars, Key!agentVars, Key!stateVars, Key!boxVars, Key!readVars
<1>4. NewestInv'
  BY DEF Key!Busy, IInv, KeyType, HolderInv, NewestInv, AtIt, Reverting, Key!KeyOrNone, Key!Go, Key!envVars,
     Key!agentVars, Key!stateVars, Key!boxVars, Key!readVars
<1>5. LookInv'
  BY DEF Key!Busy, IInv, LookInv, Key!current_key, Key!Go, Key!envVars, Key!agentVars, Key!stateVars, Key!boxVars,
     Key!readVars
<1> QED
  BY <1>1, <1>2, <1>3, <1>4, <1>5 DEF IInv

LEMMA LockedKeeps ==
  ASSUME Apart, None \notin Keys, None \notin Savers, IInv, NEW p \in Savers, Key!Locked(p)
  PROVE  IInv'
<1>1. KeyType'
  BY DEF Key!Locked, IInv, KeyType, Key!Running, Key!Answers, AtIt, Reverting, Key!KeyOrNone, Key!Go,
     Key!current_key, Key!Thrown, Key!envVars, Key!agentVars, Key!boxVars
<1>2. KnownInv'
  BY DEF Key!Locked, IInv, KeyType, KnownInv, HolderInv, NewestInv, LookInv, Known, AtIt,
     Reverting, Key!KeyOrNone, Key!Go, Key!current_key, Key!Thrown, Key!envVars, Key!agentVars, Key!boxVars
<1>3. HolderInv'
  BY DEF Key!Locked, IInv, KeyType, KnownInv, HolderInv, NewestInv, LookInv, Known, AtIt,
     Reverting, Key!KeyOrNone, Key!Go, Key!current_key, Key!Thrown, Key!envVars, Key!agentVars, Key!boxVars
<1>4. NewestInv'
  BY DEF Key!Locked, IInv, KeyType, HolderInv, NewestInv, AtIt, Reverting, Key!KeyOrNone, Key!Go,
     Key!current_key, Key!Thrown, Key!envVars, Key!agentVars, Key!boxVars
<1>5. LookInv'
  BY DEF Key!Locked, IInv, KeyType, HolderInv, NewestInv, LookInv, AtIt, Reverting, Key!KeyOrNone,
     Key!Go, Key!current_key, Key!Thrown, Key!envVars, Key!agentVars, Key!boxVars
<1> QED
  BY <1>1, <1>2, <1>3, <1>4, <1>5 DEF IInv

LEMMA TellsKeeps ==
  ASSUME Apart, None \notin Keys, None \notin Savers, IInv, NEW p \in Savers, Key!Tells(p)
  PROVE  IInv'
<1>1. KeyType'
  BY DEF Key!Tells, IInv, KeyType, Key!Running, Key!Answers, AtIt, Reverting, Key!KeyOrNone, Key!Runs, Key!Go,
     Key!agentVars, Key!Paste, Key!envVars, Key!stateVars, Key!boxVars, Key!readVars
<1>2. KnownInv'
  BY SMTT(30) DEF Key!Tells, IInv, KeyType, KnownInv, HolderInv, Known, AtIt, Reverting, Key!KeyOrNone, Key!Runs,
     Key!Go, Key!agentVars, Key!Paste, Key!envVars, Key!stateVars, Key!boxVars, Key!readVars
<1>3. HolderInv'
  BY DEF Key!Tells, IInv, KeyType, KnownInv, HolderInv, NewestInv, LookInv, Known, AtIt,
     Reverting, Key!KeyOrNone, Key!Runs, Key!Go, Key!agentVars, Key!Paste, Key!envVars, Key!stateVars, Key!boxVars, Key!readVars
<1>4. NewestInv'
  BY DEF Key!Tells, IInv, KeyType, HolderInv, NewestInv, AtIt, Reverting, Key!KeyOrNone, Key!Runs, Key!Go,
     Key!agentVars, Key!Paste, Key!envVars, Key!stateVars, Key!boxVars, Key!readVars
<1>5. LookInv'
  BY DEF Key!Tells, IInv, LookInv, HolderInv, AtIt, Reverting, Key!current_key, Key!Runs, Key!Go, Key!agentVars,
     Key!Paste, Key!envVars, Key!stateVars, Key!boxVars, Key!readVars
<1> QED
  BY <1>1, <1>2, <1>3, <1>4, <1>5 DEF IInv

LEMMA TakenByAgentKeeps ==
  ASSUME Apart, None \notin Keys, None \notin Savers, IInv, NEW p \in Savers, Key!TakenByAgent(p)
  PROVE  IInv'
<1>1. KeyType'
  BY DEF Key!TakenByAgent, IInv, KeyType, Key!Running, Key!Answers, AtIt, Reverting, Key!KeyOrNone, Key!Go,
     Key!Took, Key!Thrown, Key!envVars, Key!agentVars, Key!boxVars, Key!readVars
<1>2. KnownInv'
  BY DEF Key!TakenByAgent, IInv, KeyType, KnownInv, HolderInv, NewestInv, LookInv, Known,
     AtIt, Reverting, Key!KeyOrNone, Key!Go, Key!Took, Key!Thrown, Key!envVars, Key!agentVars, Key!boxVars, Key!readVars
<1>3. HolderInv'
  BY ZenonT(60) DEF Key!TakenByAgent, IInv, KeyType, KnownInv, HolderInv, NewestInv, LookInv, Known,
     AtIt, Reverting, Key!KeyOrNone, Key!Go, Key!Took, Key!Thrown, Key!envVars, Key!agentVars, Key!boxVars, Key!readVars
<1>4. NewestInv'
  BY DEF Key!TakenByAgent, IInv, KeyType, HolderInv, NewestInv, AtIt, Reverting, Key!KeyOrNone, Key!Go,
     Key!Took, Key!Thrown, Key!envVars, Key!agentVars, Key!boxVars, Key!readVars
<1>5. LookInv'
  BY DEF Key!TakenByAgent, IInv, KeyType, HolderInv, NewestInv, LookInv, AtIt, Reverting,
     Key!KeyOrNone, Key!Go, Key!Took, Key!Thrown, Key!envVars, Key!agentVars, Key!boxVars, Key!readVars
<1> QED
  BY <1>1, <1>2, <1>3, <1>4, <1>5 DEF IInv

LEMMA SavedKeeps ==
  ASSUME Apart, None \notin Keys, None \notin Savers, IInv, NEW p \in Savers, Key!Saved(p)
  PROVE  IInv'
<1>1. KeyType'
  BY DEF Key!Saved, IInv, KeyType, Key!Running, Key!Answers, AtIt, Reverting, Key!KeyOrNone, Key!end, Key!Thrown,
     Key!Go, Key!envVars, Key!agentVars, Key!boxVars, Key!readVars
<1>2. KnownInv'
  BY DEF Key!Saved, IInv, KeyType, KnownInv, HolderInv, NewestInv, LookInv, Known, AtIt,
     Reverting, Key!KeyOrNone, Key!end, Key!Thrown, Key!Go, Key!envVars, Key!agentVars, Key!boxVars, Key!readVars
<1>3. HolderInv'
  BY DEF Key!Saved, IInv, KeyType, KnownInv, HolderInv, NewestInv, LookInv, Known, AtIt,
     Reverting, Key!KeyOrNone, Key!end, Key!Thrown, Key!Go, Key!envVars, Key!agentVars, Key!boxVars, Key!readVars
<1>4. NewestInv'
  BY DEF Key!Saved, IInv, KeyType, HolderInv, NewestInv, AtIt, Reverting, Key!KeyOrNone, Key!end,
     Key!Thrown, Key!Go, Key!envVars, Key!agentVars, Key!boxVars, Key!readVars
<1>5. LookInv'
  BY DEF Key!Saved, IInv, KeyType, HolderInv, NewestInv, LookInv, AtIt, Reverting, Key!KeyOrNone,
     Key!end, Key!Thrown, Key!Go, Key!envVars, Key!agentVars, Key!boxVars, Key!readVars
<1> QED
  BY <1>1, <1>2, <1>3, <1>4, <1>5 DEF IInv

LEMMA NotTakenKeeps ==
  ASSUME Apart, None \notin Keys, None \notin Savers, IInv, NEW p \in Savers, Key!NotTaken(p)
  PROVE  IInv'
<1>1. KeyType'
  BY DEF Key!NotTaken, IInv, KeyType, Key!Running, Key!Answers, AtIt, Reverting, Key!KeyOrNone, Key!Go, Key!PutBack,
     Key!end, Key!Thrown, Key!envVars, Key!agentVars, Key!boxVars, Key!readVars
<1>2. KnownInv'
  <2>1. (restart => restart') /\ (pc[p] = "backwarn" => restart')
    BY Zenon DEF Key!NotTaken
  <2>2. UNCHANGED <<oc, gw_key, gw_restarts, sha, mismatched, owed>> /\ pc[p] \in {"no", "backok", "backwarn"} /\ owed # prev[p]
    BY DEF Key!NotTaken, Key!agentVars, Key!boxVars, IInv, KeyType, AtIt, Key!KeyOrNone
  <2>3. CASE pc[p] = "no"
    BY <2>1, <2>2, <2>3 DEF IInv, HolderInv, KnownInv, Known
  <2>4. CASE pc[p] # "no"
    <3>1. oc = prev[p] /\ (pc[p] = "backok" => gw_key = oc) /\ (mismatched \/ sha = prev[p]) /\ prev[p] # None
      BY <2>2, <2>4 DEF IInv, KeyType, HolderInv, AtIt
    <3> QED
      BY <2>1, <2>2, <2>4, <3>1 DEF KnownInv, Known
  <2> QED
    BY <2>3, <2>4
<1>3. HolderInv'
  BY DEF Key!NotTaken, IInv, KeyType, KnownInv, HolderInv, NewestInv, LookInv, Known, AtIt,
     Reverting, Key!KeyOrNone, Key!Go, Key!PutBack, Key!end, Key!Thrown, Key!envVars, Key!agentVars, Key!boxVars, Key!readVars
<1>4. NewestInv'
  BY DEF Key!NotTaken, IInv, KeyType, HolderInv, NewestInv, AtIt, Reverting, Key!KeyOrNone, Key!Go,
     Key!PutBack, Key!end, Key!Thrown, Key!envVars, Key!agentVars, Key!boxVars, Key!readVars
<1>5. LookInv'
  BY DEF Key!NotTaken, IInv, KeyType, HolderInv, NewestInv, LookInv, AtIt, Reverting, Key!KeyOrNone,
     Key!Go, Key!PutBack, Key!end, Key!Thrown, Key!envVars, Key!agentVars, Key!boxVars, Key!readVars
<1> QED
  BY <1>1, <1>2, <1>3, <1>4, <1>5 DEF IInv

LEMMA PasteBackKeeps ==
  ASSUME Apart, None \notin Keys, None \notin Savers, IInv, NEW p \in Savers, Key!PasteBack(p)
  PROVE  IInv'
<1>1. KeyType'
  BY DEF Key!PasteBack, IInv, KeyType, Key!Running, Key!Answers, AtIt, Reverting, Key!KeyOrNone, Key!HeldPrev,
     Key!Runs, Key!Go, Key!agentVars, Key!Paste, Key!envVars, Key!stateVars, Key!boxVars, Key!readVars
<1>2. KnownInv'
  BY DEF Key!PasteBack, IInv, KeyType, KnownInv, HolderInv, NewestInv, LookInv, Known, AtIt,
     Reverting, Key!KeyOrNone, Key!HeldPrev, Key!Runs, Key!Go, Key!agentVars, Key!Paste, Key!envVars, Key!stateVars,
     Key!boxVars, Key!readVars
<1>3. HolderInv'
  BY DEF Key!PasteBack, IInv, KeyType, KnownInv, HolderInv, NewestInv, LookInv, Known, AtIt,
     Reverting, Key!KeyOrNone, Key!HeldPrev, Key!Runs, Key!Go, Key!agentVars, Key!Paste, Key!envVars, Key!stateVars,
     Key!boxVars, Key!readVars
<1>4. NewestInv'
  BY DEF Key!PasteBack, IInv, KeyType, HolderInv, NewestInv, AtIt, Reverting, Key!KeyOrNone,
     Key!HeldPrev, Key!Runs, Key!Go, Key!agentVars, Key!Paste, Key!envVars, Key!stateVars, Key!boxVars, Key!readVars
<1>5. LookInv'
  BY DEF Key!PasteBack, IInv, LookInv, Key!current_key, Key!HeldPrev, Key!Runs, Key!Go, Key!agentVars, Key!Paste,
     Key!envVars, Key!stateVars, Key!boxVars, Key!readVars
<1> QED
  BY <1>1, <1>2, <1>3, <1>4, <1>5 DEF IInv

LEMMA HalfwayKeeps ==
  ASSUME Apart, None \notin Keys, None \notin Savers, IInv, NEW p \in Savers, Key!Halfway(p)
  PROVE  IInv'
<1>1. KeyType'
  BY DEF Key!Halfway, IInv, KeyType, Key!Running, Key!Answers, AtIt, Reverting, Key!KeyOrNone, Key!HeldPrev, Key!Go,
     Key!mismatch, Key!Thrown, Key!PutBack, Key!end, Key!envVars, Key!agentVars, Key!boxVars, Key!readVars
<1>2. KnownInv'
  BY DEF Key!Halfway, IInv, KeyType, KnownInv, HolderInv, NewestInv, LookInv, Known, AtIt,
     Reverting, Key!KeyOrNone, Key!HeldPrev, Key!Go, Key!mismatch, Key!Thrown, Key!PutBack, Key!end, Key!envVars, Key!agentVars,
     Key!boxVars, Key!readVars
<1>3. HolderInv'
  BY DEF Key!Halfway, IInv, KeyType, KnownInv, HolderInv, NewestInv, LookInv, Known, AtIt,
     Reverting, Key!KeyOrNone, Key!HeldPrev, Key!Go, Key!mismatch, Key!Thrown, Key!PutBack, Key!end, Key!envVars, Key!agentVars,
     Key!boxVars, Key!readVars
<1>4. NewestInv'
  BY DEF Key!Halfway, IInv, KeyType, HolderInv, NewestInv, AtIt, Reverting, Key!KeyOrNone, Key!HeldPrev,
     Key!Go, Key!mismatch, Key!Thrown, Key!PutBack, Key!end, Key!envVars, Key!agentVars, Key!boxVars, Key!readVars
<1>5. LookInv'
  BY DEF Key!Halfway, IInv, KeyType, HolderInv, NewestInv, LookInv, AtIt, Reverting, Key!KeyOrNone,
     Key!HeldPrev, Key!Go, Key!mismatch, Key!Thrown, Key!PutBack, Key!end, Key!envVars, Key!agentVars, Key!boxVars, Key!readVars
<1> QED
  BY <1>1, <1>2, <1>3, <1>4, <1>5 DEF IInv

LEMMA StoppedKeeps ==
  ASSUME Apart, None \notin Keys, None \notin Savers, IInv, NEW p \in Savers, Key!Stopped(p)
  PROVE  IInv'
<1>1. KeyType'
  <2>1. pc[p] \in AtIt /\ prev_file[p] \in Keys
    BY DEF Key!Stopped, IInv, KeyType, HolderInv, AtIt, Reverting
  <2>2. pc' = [pc EXCEPT ![p] = "stopped"] /\ file' = prev_file[p] /\ gen_key' = gen_key /\ lock' = None
        /\ UNCHANGED <<env, procenv, newest, gen0, key, prev, prev_file>>
    BY DEF Key!Stopped, Key!Go, Key!PutBack, Key!end, Key!envVars, Key!readVars
  <2> QED
    BY <2>1, <2>2 DEF IInv, KeyType, Key!KeyOrNone, Key!Running, Key!Answers, AtIt, Reverting
<1>2. KnownInv'
  BY DEF Key!Stopped, IInv, KeyType, KnownInv, HolderInv, NewestInv, LookInv, Known, AtIt,
     Reverting, Key!KeyOrNone, Key!Go, Key!mismatch, Key!Thrown, Key!PutBack, Key!end, Key!agentVars, Key!Paste, Key!HeldPrev,
     Key!envVars, Key!boxVars, Key!readVars
<1>3. HolderInv'
  BY DEF Key!Stopped, IInv, KeyType, KnownInv, HolderInv, NewestInv, LookInv, Known, AtIt,
     Reverting, Key!KeyOrNone, Key!Go, Key!mismatch, Key!Thrown, Key!PutBack, Key!end, Key!agentVars, Key!Paste, Key!HeldPrev,
     Key!envVars, Key!boxVars, Key!readVars
<1>4. NewestInv'
  BY DEF Key!Stopped, IInv, KeyType, HolderInv, NewestInv, AtIt, Reverting, Key!KeyOrNone, Key!Go,
     Key!mismatch, Key!Thrown, Key!PutBack, Key!end, Key!agentVars, Key!Paste, Key!HeldPrev, Key!envVars, Key!boxVars,
     Key!readVars
<1>5. LookInv'
  BY DEF Key!Stopped, IInv, KeyType, HolderInv, NewestInv, LookInv, AtIt, Reverting, Key!KeyOrNone,
     Key!Go, Key!mismatch, Key!Thrown, Key!PutBack, Key!end, Key!agentVars, Key!Paste, Key!HeldPrev, Key!envVars, Key!boxVars,
     Key!readVars
<1> QED
  BY <1>1, <1>2, <1>3, <1>4, <1>5 DEF IInv

LEMMA EnvWrittenKeeps ==
  ASSUME Apart, None \notin Keys, None \notin Savers, IInv, NEW p \in Savers, Key!EnvWritten(p)
  PROVE  IInv'
<1>1. KeyType'
  BY DEF Key!EnvWritten, IInv, KeyType, Key!Running, Key!Answers, AtIt, Reverting, Key!KeyOrNone, Key!Go,
     Key!Thrown, Key!agentVars, Key!boxVars, Key!readVars
<1>2. KnownInv'
  BY DEF Key!EnvWritten, IInv, KeyType, KnownInv, HolderInv, NewestInv, LookInv, Known, AtIt,
     Reverting, Key!KeyOrNone, Key!Go, Key!Thrown, Key!agentVars, Key!boxVars, Key!readVars
<1>3. HolderInv'
  BY DEF Key!EnvWritten, IInv, KeyType, KnownInv, HolderInv, NewestInv, LookInv, Known, AtIt,
     Reverting, Key!KeyOrNone, Key!Go, Key!Thrown, Key!agentVars, Key!boxVars, Key!readVars
<1>4. NewestInv'
  BY DEF Key!EnvWritten, IInv, KeyType, HolderInv, NewestInv, AtIt, Reverting, Key!KeyOrNone, Key!Go,
     Key!Thrown, Key!agentVars, Key!boxVars, Key!readVars
<1>5. LookInv'
  BY DEF Key!EnvWritten, IInv, KeyType, HolderInv, NewestInv, LookInv, AtIt, Reverting,
     Key!KeyOrNone, Key!Go, Key!Thrown, Key!agentVars, Key!boxVars, Key!readVars
<1> QED
  BY <1>1, <1>2, <1>3, <1>4, <1>5 DEF IInv

LEMMA EnvFailsKeeps ==
  ASSUME Apart, None \notin Keys, None \notin Savers, IInv, NEW p \in Savers, Key!EnvFails(p)
  PROVE  IInv'
<1>1. KeyType'
  BY DEF Key!EnvFails, IInv, KeyType, Key!Running, Key!Answers, AtIt, Reverting, Key!KeyOrNone, Key!Go, Key!envVars,
     Key!agentVars, Key!stateVars, Key!boxVars, Key!readVars
<1>2. KnownInv'
  BY DEF Key!EnvFails, IInv, KeyType, KnownInv, HolderInv, NewestInv, LookInv, Known, AtIt,
     Reverting, Key!KeyOrNone, Key!Go, Key!envVars, Key!agentVars, Key!stateVars, Key!boxVars, Key!readVars
<1>3. HolderInv'
  BY DEF Key!EnvFails, IInv, KeyType, KnownInv, HolderInv, NewestInv, LookInv, Known, AtIt,
     Reverting, Key!KeyOrNone, Key!Go, Key!envVars, Key!agentVars, Key!stateVars, Key!boxVars, Key!readVars
<1>4. NewestInv'
  BY DEF Key!EnvFails, IInv, KeyType, HolderInv, NewestInv, AtIt, Reverting, Key!KeyOrNone, Key!Go,
     Key!envVars, Key!agentVars, Key!stateVars, Key!boxVars, Key!readVars
<1>5. LookInv'
  BY DEF Key!EnvFails, IInv, LookInv, Key!current_key, Key!Go, Key!envVars, Key!agentVars, Key!stateVars, Key!boxVars,
     Key!readVars
<1> QED
  BY <1>1, <1>2, <1>3, <1>4, <1>5 DEF IInv

LEMMA UndoStandsKeeps ==
  ASSUME Apart, None \notin Keys, None \notin Savers, IInv, NEW p \in Savers, Key!UndoStands(p)
  PROVE  IInv'
<1>1. KeyType'
  BY DEF Key!UndoStands, IInv, KeyType, Key!Running, Key!Answers, AtIt, Reverting, Key!KeyOrNone, Key!Go,
     Key!envVars, Key!agentVars, Key!stateVars, Key!boxVars, Key!readVars
<1>2. KnownInv'
  BY DEF Key!UndoStands, IInv, KeyType, KnownInv, HolderInv, NewestInv, LookInv, Known, AtIt,
     Reverting, Key!KeyOrNone, Key!Go, Key!envVars, Key!agentVars, Key!stateVars, Key!boxVars, Key!readVars
<1>3. HolderInv'
  BY DEF Key!UndoStands, IInv, KeyType, KnownInv, HolderInv, NewestInv, LookInv, Known, AtIt,
     Reverting, Key!KeyOrNone, Key!Go, Key!envVars, Key!agentVars, Key!stateVars, Key!boxVars, Key!readVars
<1>4. NewestInv'
  BY DEF Key!UndoStands, IInv, KeyType, HolderInv, NewestInv, AtIt, Reverting, Key!KeyOrNone, Key!Go,
     Key!envVars, Key!agentVars, Key!stateVars, Key!boxVars, Key!readVars
<1>5. LookInv'
  BY DEF Key!UndoStands, IInv, LookInv, Key!current_key, Key!Go, Key!envVars, Key!agentVars, Key!stateVars,
     Key!boxVars, Key!readVars
<1> QED
  BY <1>1, <1>2, <1>3, <1>4, <1>5 DEF IInv

LEMMA UndoKeeps ==
  ASSUME Apart, None \notin Keys, None \notin Savers, IInv, NEW p \in Savers, Key!Undo(p)
  PROVE  IInv'
<1>1. KeyType'
  BY DEF Key!Undo, IInv, KeyType, Key!Running, Key!Answers, AtIt, Reverting, Key!KeyOrNone, Key!Thrown, Key!Go,
     Key!envVars, Key!agentVars, Key!boxVars, Key!readVars
<1>2. KnownInv'
  BY DEF Key!Undo, IInv, KeyType, KnownInv, HolderInv, NewestInv, LookInv, Known, AtIt,
     Reverting, Key!KeyOrNone, Key!Thrown, Key!Go, Key!envVars, Key!agentVars, Key!boxVars, Key!readVars
<1>3. HolderInv'
  BY DEF Key!Undo, IInv, KeyType, KnownInv, HolderInv, NewestInv, LookInv, Known, AtIt,
     Reverting, Key!KeyOrNone, Key!Thrown, Key!Go, Key!envVars, Key!agentVars, Key!boxVars, Key!readVars
<1>4. NewestInv'
  BY DEF Key!Undo, IInv, KeyType, HolderInv, NewestInv, AtIt, Reverting, Key!KeyOrNone, Key!Thrown, Key!Go,
     Key!envVars, Key!agentVars, Key!boxVars, Key!readVars
<1>5. LookInv'
  BY DEF Key!Undo, IInv, KeyType, HolderInv, NewestInv, LookInv, AtIt, Reverting, Key!KeyOrNone,
     Key!Thrown, Key!Go, Key!envVars, Key!agentVars, Key!boxVars, Key!readVars
<1> QED
  BY <1>1, <1>2, <1>3, <1>4, <1>5 DEF IInv

LEMMA UnfinishedKeeps ==
  ASSUME Apart, None \notin Keys, None \notin Savers, IInv, NEW p \in Savers, Key!Unfinished(p)
  PROVE  IInv'
<1>1. KeyType'
  BY DEF Key!Unfinished, IInv, KeyType, Key!Running, Key!Answers, AtIt, Reverting, Key!KeyOrNone, Key!Go,
     Key!mismatch, Key!Thrown, Key!envVars, Key!agentVars, Key!boxVars, Key!readVars
<1>2. KnownInv'
  BY DEF Key!Unfinished, IInv, KeyType, KnownInv, HolderInv, NewestInv, LookInv, Known, AtIt,
     Reverting, Key!KeyOrNone, Key!Go, Key!mismatch, Key!Thrown, Key!envVars, Key!agentVars, Key!boxVars, Key!readVars
<1>3. HolderInv'
  BY DEF Key!Unfinished, IInv, KeyType, KnownInv, HolderInv, NewestInv, LookInv, Known, AtIt,
     Reverting, Key!KeyOrNone, Key!Go, Key!mismatch, Key!Thrown, Key!envVars, Key!agentVars, Key!boxVars, Key!readVars
<1>4. NewestInv'
  BY DEF Key!Unfinished, IInv, KeyType, HolderInv, NewestInv, AtIt, Reverting, Key!KeyOrNone, Key!Go,
     Key!mismatch, Key!Thrown, Key!envVars, Key!agentVars, Key!boxVars, Key!readVars
<1>5. LookInv'
  BY DEF Key!Unfinished, IInv, KeyType, HolderInv, NewestInv, LookInv, AtIt, Reverting,
     Key!KeyOrNone, Key!Go, Key!mismatch, Key!Thrown, Key!envVars, Key!agentVars, Key!boxVars, Key!readVars
<1> QED
  BY <1>1, <1>2, <1>3, <1>4, <1>5 DEF IInv

LEMMA UndoTellsKeeps ==
  ASSUME Apart, None \notin Keys, None \notin Savers, IInv, NEW p \in Savers, Key!UndoTells(p)
  PROVE  IInv'
<1>1. KeyType'
  BY DEF Key!UndoTells, IInv, KeyType, Key!Running, Key!Answers, AtIt, Reverting, Key!KeyOrNone, Key!Runs, Key!Go,
     Key!agentVars, Key!Paste, Key!envVars, Key!stateVars, Key!boxVars, Key!readVars
<1>2. KnownInv'
  BY SMTT(30) DEF Key!UndoTells, IInv, KeyType, KnownInv, HolderInv, Known, AtIt, Reverting, Key!KeyOrNone,
     Key!Runs, Key!Go, Key!agentVars, Key!Paste, Key!envVars, Key!stateVars, Key!boxVars, Key!readVars
<1>3. HolderInv'
  BY DEF Key!UndoTells, IInv, KeyType, KnownInv, HolderInv, NewestInv, LookInv, Known, AtIt,
     Reverting, Key!KeyOrNone, Key!Runs, Key!Go, Key!agentVars, Key!Paste, Key!envVars, Key!stateVars, Key!boxVars, Key!readVars
<1>4. NewestInv'
  BY DEF Key!UndoTells, IInv, KeyType, HolderInv, NewestInv, AtIt, Reverting, Key!KeyOrNone, Key!Runs,
     Key!Go, Key!agentVars, Key!Paste, Key!envVars, Key!stateVars, Key!boxVars, Key!readVars
<1>5. LookInv'
  BY DEF Key!UndoTells, IInv, LookInv, HolderInv, AtIt, Reverting, Key!current_key, Key!Runs, Key!Go,
     Key!agentVars, Key!Paste, Key!envVars, Key!stateVars, Key!boxVars, Key!readVars
<1> QED
  BY <1>1, <1>2, <1>3, <1>4, <1>5 DEF IInv

LEMMA UndoneKeeps ==
  ASSUME Apart, None \notin Keys, None \notin Savers, IInv, NEW p \in Savers, Key!Undone(p)
  PROVE  IInv'
<1>1. KeyType'
  BY DEF Key!Undone, IInv, KeyType, Key!Running, Key!Answers, AtIt, Reverting, Key!KeyOrNone, Key!Took, Key!Thrown,
     Key!end, Key!Go, Key!mismatch, Key!agentVars, Key!Paste, Key!envVars, Key!boxVars, Key!readVars
<1>2. KnownInv'
  BY DEF Key!Undone, IInv, KeyType, KnownInv, HolderInv, NewestInv, LookInv, Known, AtIt,
     Reverting, Key!KeyOrNone, Key!Took, Key!Thrown, Key!end, Key!Go, Key!mismatch, Key!agentVars, Key!Paste, Key!envVars,
     Key!boxVars, Key!readVars
<1>3. HolderInv'
  BY DEF Key!Undone, IInv, KeyType, KnownInv, HolderInv, NewestInv, LookInv, Known, AtIt,
     Reverting, Key!KeyOrNone, Key!Took, Key!Thrown, Key!end, Key!Go, Key!mismatch, Key!agentVars, Key!Paste, Key!envVars,
     Key!boxVars, Key!readVars
<1>4. NewestInv'
  BY DEF Key!Undone, IInv, KeyType, HolderInv, NewestInv, AtIt, Reverting, Key!KeyOrNone, Key!Took,
     Key!Thrown, Key!end, Key!Go, Key!mismatch, Key!agentVars, Key!Paste, Key!envVars, Key!boxVars, Key!readVars
<1>5. LookInv'
  BY DEF Key!Undone, IInv, KeyType, HolderInv, NewestInv, LookInv, AtIt, Reverting, Key!KeyOrNone,
     Key!Took, Key!Thrown, Key!end, Key!Go, Key!mismatch, Key!agentVars, Key!Paste, Key!envVars, Key!boxVars, Key!readVars
<1> QED
  BY <1>1, <1>2, <1>3, <1>4, <1>5 DEF IInv

LEMMA CrashKeeps ==
  ASSUME Apart, None \notin Keys, None \notin Savers, IInv, Key!Crash
  PROVE  IInv'
<1>1. KeyType'
  BY DEF Key!Crash, IInv, KeyType, Key!Running, Key!Answers, AtIt, Reverting, Key!KeyOrNone, Key!agentVars,
     Key!Paste, Key!HeldPrev, Key!readVars
<1>2. KnownInv'
  <2> SUFFICES ASSUME saving = {} \/ (sha # None /\ saving = {sha}), ~mismatched
               PROVE  Known'
    BY DEF Key!Crash, KnownInv, Known
  <2>1. owed' = None /\ UNCHANGED <<sha, mismatched, restart>> /\ Known
    BY DEF Key!Crash, IInv, KnownInv
  <2>2. CASE UNCHANGED Key!agentVars
    BY <2>1, <2>2 DEF Known, Key!agentVars
  <2>3. ASSUME NEW q \in Savers, NEW k \in Keys, saving = {k}, Key!Paste(k)
        PROVE  Known'
    BY <2>1, <2>3 DEF Known, Key!Paste
  <2>4. ASSUME NEW q \in Savers, pc[q] = "tells", Key!Paste(key[q])
        PROVE  Known'
    BY <2>3, <2>4 DEF IInv, KeyType, HolderInv, AtIt
  <2>5. ASSUME NEW q \in Savers, pc[q] = "utells", Key!Paste(prev[q])
        PROVE  Known'
    BY <2>3, <2>5 DEF IInv, KeyType, HolderInv, Reverting
  <2>6. ASSUME NEW q \in Savers, pc[q] = "half", Key!HeldPrev(q), Key!Paste(prev[q])
        PROVE  Known'
    BY <2>3, <2>6 DEF IInv, KeyType, HolderInv, AtIt, Key!HeldPrev
  <2> QED
    BY <2>2, <2>4, <2>5, <2>6 DEF Key!Crash
<1>3. HolderInv'
  BY DEF Key!Crash, IInv, KeyType, KnownInv, HolderInv, NewestInv, LookInv, Known, Key!Running,
     Key!Answers, AtIt, Reverting, Key!KeyOrNone, Key!agentVars, Key!Paste, Key!HeldPrev, Key!readVars
<1>4. NewestInv'
  BY ZenonT(60) DEF Key!Crash, IInv, KeyType, HolderInv, NewestInv, AtIt, Reverting, Key!KeyOrNone, Key!Running,
     Key!Answers, Key!agentVars, Key!Paste, Key!HeldPrev, Key!readVars
<1>5. LookInv'
  BY DEF Key!Crash, IInv, LookInv, Key!current_key, Key!Running, Key!agentVars, Key!Paste, Key!HeldPrev, Key!readVars
<1> QED
  BY <1>1, <1>2, <1>3, <1>4, <1>5 DEF IInv

LEMMA settle_tornKeeps ==
  ASSUME Apart, None \notin Keys, None \notin Savers, IInv, Key!settle_torn
  PROVE  IInv'
<1>1. KeyType'
  BY DEF Key!settle_torn, IInv, KeyType, Key!Running, Key!Answers, AtIt, Reverting, Key!KeyOrNone, Key!end,
     Key!Thrown, Key!mismatch, Key!envVars, Key!agentVars, Key!boxVars, Key!readVars
<1>2. KnownInv'
  BY DEF Key!settle_torn, IInv, KeyType, KnownInv, HolderInv, NewestInv, LookInv, Known, AtIt,
     Reverting, Key!KeyOrNone, Key!end, Key!Thrown, Key!mismatch, Key!envVars, Key!agentVars, Key!boxVars, Key!readVars
<1>3. HolderInv'
  BY DEF Key!settle_torn, IInv, KeyType, KnownInv, HolderInv, NewestInv, LookInv, Known, AtIt,
     Reverting, Key!KeyOrNone, Key!end, Key!Thrown, Key!mismatch, Key!envVars, Key!agentVars, Key!boxVars, Key!readVars
<1>4. NewestInv'
  BY DEF Key!settle_torn, IInv, KeyType, HolderInv, NewestInv, AtIt, Reverting, Key!KeyOrNone, Key!end,
     Key!Thrown, Key!mismatch, Key!envVars, Key!agentVars, Key!boxVars, Key!readVars
<1>5. LookInv'
  BY DEF Key!settle_torn, IInv, KeyType, HolderInv, NewestInv, LookInv, AtIt, Reverting,
     Key!KeyOrNone, Key!end, Key!Thrown, Key!mismatch, Key!envVars, Key!agentVars, Key!boxVars, Key!readVars
<1> QED
  BY <1>1, <1>2, <1>3, <1>4, <1>5 DEF IInv

LEMMA LookStartsKeeps ==
  ASSUME Apart, None \notin Keys, None \notin Savers, IInv, Key!LookStarts
  PROVE  IInv'
<1>1. KeyType'
  BY DEF Key!LookStarts, IInv, KeyType, Key!Running, Key!Answers, AtIt, Reverting, Key!KeyOrNone, Key!unlooked,
     Key!current_key, Key!envVars, Key!agentVars, Key!boxVars, Key!readVars
<1>2. KnownInv'
  BY DEF Key!LookStarts, IInv, KeyType, KnownInv, HolderInv, NewestInv, LookInv, Known, AtIt,
     Reverting, Key!KeyOrNone, Key!unlooked, Key!current_key, Key!envVars, Key!agentVars, Key!boxVars, Key!readVars
<1>3. HolderInv'
  BY DEF Key!LookStarts, IInv, KeyType, KnownInv, HolderInv, NewestInv, LookInv, Known, AtIt,
     Reverting, Key!KeyOrNone, Key!unlooked, Key!current_key, Key!envVars, Key!agentVars, Key!boxVars, Key!readVars
<1>4. NewestInv'
  BY DEF Key!LookStarts, IInv, KeyType, HolderInv, NewestInv, AtIt, Reverting, Key!KeyOrNone,
     Key!unlooked, Key!current_key, Key!envVars, Key!agentVars, Key!boxVars, Key!readVars
<1>5. LookInv'
  BY DEF Key!LookStarts, IInv, LookInv, Key!current_key, KeyType, HolderInv, NewestInv, KnownInv,
     Known, Key!unlooked, Key!envVars, Key!agentVars, Key!boxVars, Key!readVars
<1> QED
  BY <1>1, <1>2, <1>3, <1>4, <1>5 DEF IInv

LEMMA LookEndsKeeps ==
  ASSUME Apart, None \notin Keys, None \notin Savers, IInv, Key!LookEnds
  PROVE  IInv'
<1>1. KeyType'
  BY DEF Key!LookEnds, IInv, KeyType, Key!Running, Key!Answers, AtIt, Reverting, Key!KeyOrNone, Key!current_key,
     Key!envVars, Key!agentVars, Key!boxVars, Key!readVars
<1>2. KnownInv'
  BY DEF Key!LookEnds, IInv, KeyType, KnownInv, HolderInv, NewestInv, LookInv, Known, AtIt,
     Reverting, Key!KeyOrNone, Key!current_key, Key!envVars, Key!agentVars, Key!boxVars, Key!readVars
<1>3. HolderInv'
  BY DEF Key!LookEnds, IInv, KeyType, KnownInv, HolderInv, NewestInv, LookInv, Known, AtIt,
     Reverting, Key!KeyOrNone, Key!current_key, Key!envVars, Key!agentVars, Key!boxVars, Key!readVars
<1>4. NewestInv'
  BY DEF Key!LookEnds, IInv, KeyType, HolderInv, NewestInv, AtIt, Reverting, Key!KeyOrNone,
     Key!current_key, Key!envVars, Key!agentVars, Key!boxVars, Key!readVars
<1>5. LookInv'
  BY DEF Key!LookEnds, IInv, LookInv, Key!current_key, KeyType, HolderInv, NewestInv, KnownInv,
     Known, Key!envVars, Key!agentVars, Key!boxVars, Key!readVars
<1> QED
  BY <1>1, <1>2, <1>3, <1>4, <1>5 DEF IInv

LEMMA RestartAskedKeeps ==
  ASSUME Apart, None \notin Keys, None \notin Savers, IInv, Key!RestartAsked
  PROVE  IInv'
<1>1. KeyType'
  BY DEF Key!RestartAsked, IInv, KeyType, Key!Running, Key!Answers, AtIt, Reverting, Key!KeyOrNone, Key!envVars,
     Key!stateVars, Key!readVars
<1>2. KnownInv'
  BY DEF Key!RestartAsked, IInv, KeyType, KnownInv, HolderInv, NewestInv, LookInv, Known,
     AtIt, Reverting, Key!KeyOrNone, Key!envVars, Key!stateVars, Key!readVars
<1>3. HolderInv'
  BY DEF Key!RestartAsked, IInv, KeyType, KnownInv, HolderInv, NewestInv, LookInv, Known,
     AtIt, Reverting, Key!KeyOrNone, Key!envVars, Key!stateVars, Key!readVars
<1>4. NewestInv'
  BY DEF Key!RestartAsked, IInv, KeyType, HolderInv, NewestInv, AtIt, Reverting, Key!KeyOrNone,
     Key!envVars, Key!stateVars, Key!readVars
<1>5. LookInv'
  BY DEF Key!RestartAsked, IInv, LookInv, Key!current_key, Key!envVars, Key!stateVars, Key!readVars
<1> QED
  BY <1>1, <1>2, <1>3, <1>4, <1>5 DEF IInv

LEMMA RestartNotedKeeps ==
  ASSUME Apart, None \notin Keys, None \notin Savers, IInv, Key!RestartNoted
  PROVE  IInv'
<1>1. KeyType'
  BY DEF Key!RestartNoted, IInv, KeyType, Key!Running, Key!Answers, AtIt, Reverting, Key!KeyOrNone, Key!Thrown,
     Key!envVars, Key!agentVars, Key!readVars
<1>2. KnownInv'
  BY DEF Key!RestartNoted, IInv, KeyType, KnownInv, HolderInv, NewestInv, LookInv, Known,
     AtIt, Reverting, Key!KeyOrNone, Key!Thrown, Key!envVars, Key!agentVars, Key!readVars
<1>3. HolderInv'
  BY DEF Key!RestartNoted, IInv, KeyType, KnownInv, HolderInv, NewestInv, LookInv, Known,
     AtIt, Reverting, Key!KeyOrNone, Key!Thrown, Key!envVars, Key!agentVars, Key!readVars
<1>4. NewestInv'
  BY DEF Key!RestartNoted, IInv, KeyType, HolderInv, NewestInv, AtIt, Reverting, Key!KeyOrNone,
     Key!Thrown, Key!envVars, Key!agentVars, Key!readVars
<1>5. LookInv'
  BY DEF Key!RestartNoted, IInv, KeyType, HolderInv, NewestInv, LookInv, Key!current_key, AtIt,
     Reverting, Key!KeyOrNone, Key!Thrown, Key!envVars, Key!agentVars, Key!readVars
<1> QED
  BY <1>1, <1>2, <1>3, <1>4, <1>5 DEF IInv

LEMMA GatewayRestartsKeeps ==
  ASSUME Apart, None \notin Keys, None \notin Savers, IInv, Key!GatewayRestarts
  PROVE  IInv'
<1>1. KeyType'
  BY DEF Key!GatewayRestarts, IInv, KeyType, Key!Running, Key!Answers, AtIt, Reverting, Key!KeyOrNone,
     Key!envVars, Key!stateVars, Key!boxVars, Key!readVars
<1>2. KnownInv'
  BY DEF Key!GatewayRestarts, IInv, KeyType, KnownInv, HolderInv, NewestInv, LookInv, Known,
     AtIt, Reverting, Key!KeyOrNone, Key!envVars, Key!stateVars, Key!boxVars, Key!readVars
<1>3. HolderInv'
  BY DEF Key!GatewayRestarts, IInv, KeyType, KnownInv, HolderInv, NewestInv, LookInv, Known,
     AtIt, Reverting, Key!KeyOrNone, Key!envVars, Key!stateVars, Key!boxVars, Key!readVars
<1>4. NewestInv'
  BY DEF Key!GatewayRestarts, IInv, KeyType, HolderInv, NewestInv, AtIt, Reverting, Key!KeyOrNone,
     Key!envVars, Key!stateVars, Key!boxVars, Key!readVars
<1>5. LookInv'
  BY DEF Key!GatewayRestarts, IInv, LookInv, Key!current_key, Key!envVars, Key!stateVars, Key!boxVars, Key!readVars
<1> QED
  BY <1>1, <1>2, <1>3, <1>4, <1>5 DEF IInv

-----------------------------------------------------------------------------
LEMMA InitHolds ==
  ASSUME FirstKey \in Keys, None \notin Keys, None \notin Savers, Key!Init
  PROVE  IInv
BY DEF Key!Init, IInv, KeyType, KnownInv, Known, HolderInv, NewestInv, LookInv, Key!KeyOrNone,
   AtIt, Reverting, Key!Running, Key!Answers

LEMMA StutterKeeps ==
  ASSUME IInv, UNCHANGED Key!vars
  PROVE  IInv'
BY DEF Key!vars, IInv, KeyType, KnownInv, Known, HolderInv, NewestInv, LookInv, Key!current_key

(* Of the parts of the box, the key goes its own way. *)
LEMMA KeyAlone == [Next]_vars => [Key!Next]_Key!vars
BY DEF Next, HeldGoes, LineGoes, PairGoes, DeviceGoes, KeyGoes, PhoneGoes, WifiGoes,
   EngineGoes, VenvsGoes, heldOnly, lineOnly, pairOnly, deviceOnly, phoneOnly, wifiOnly,
   engineOnly, venvsOnly, vars, keyVars, Key!vars

(* Whatever saves are made, stopped and taken back: while /health says the  *)
(* two share a key, they do, the gateway runs on it or is to be restarted;   *)
(* and the newest save that went through is the one in the file             *)
(* (agent_key.py, ai_account.py). Saves that do not keep Apart can break it. *)
THEOREM SharedKeyStaysTrue ==
  ASSUME Apart, FirstKey \in Keys, None \notin Keys, None \notin Savers
  PROVE  Spec => []SharedKeyIsTrue
<1>1. Init => IInv
  BY InitHolds DEF Init
<1>2. IInv /\ [Next]_vars => IInv'
  <2> SUFFICES ASSUME IInv, [Key!Next]_Key!vars PROVE IInv'
    BY KeyAlone
  <2>1. ASSUME NEW p \in Savers, Key!Asked(p) \/ Key!Busy(p) \/ Key!Stopped(p) \/ Key!Unfinished(p) \/ Key!Steps(p)
        PROVE  IInv'
    BY <2>1, AskedKeeps, CheckedKeeps, BusyKeeps, LockedKeeps, TellsKeeps,
       TakenByAgentKeeps, SavedKeeps, NotTakenKeeps, PasteBackKeeps, HalfwayKeeps,
       StoppedKeeps, EnvWrittenKeeps, EnvFailsKeeps, UndoStandsKeeps, UndoKeeps,
       UnfinishedKeeps, UndoTellsKeeps, UndoneKeeps
       DEF Key!Steps
  <2>2. CASE Key!Crash \/ Key!settle_torn \/ Key!LookStarts \/ Key!LookEnds \/ Key!RestartAsked \/ Key!RestartNoted \/ Key!GatewayRestarts
    BY <2>2, CrashKeeps, settle_tornKeeps, LookStartsKeeps, LookEndsKeeps,
       RestartAskedKeeps, RestartNotedKeeps, GatewayRestartsKeeps
  <2>3. CASE Key!Over \/ UNCHANGED Key!vars
    BY <2>3, StutterKeeps DEF Key!Over
  <2> QED
    BY <2>1, <2>2, <2>3 DEF Key!Next
<1>3. IInv => SharedKeyIsTrue
  BY DEF IInv, KnownInv, Known, NewestInv, SharedKeyIsTrue, Key!SharedKeyIsTrue, Key!SharedIsTrue, Key!GatewayIsOwed,
     Key!NewestStands, Key!Shared
<1> QED
  BY <1>1, <1>2, <1>3, PTL DEF Spec
=============================================================================
