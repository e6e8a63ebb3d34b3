----------------------------- MODULE WifiSetup -----------------------------
(***************************************************************************)
(* One run of the Wi-Fi setup unit (wifi_setup.py, wifi.py): it scans,     *)
(* becomes an access point, serves a page there, and joins the network a   *)
(* phone asked for -- again, until a join works or its time is up.  A stop *)
(* (SIGTERM) raises in the main thread wherever that is, once, and the     *)
(* unit then puts back what it changed.                                    *)
(*                                                                         *)
(* Each position of the main thread is the call it makes next; a stop      *)
(* there comes before that call has done anything, and a stop at the       *)
(* position after it finds it done.  Phones post while the setup network   *)
(* is up; only what a post leaves behind counts, and each is its number.   *)
(***************************************************************************)
EXTENDS Naturals

CONSTANTS MaxPosts,  \* bound: what phones post in a run
          MaxJoins   \* bound: the joins that may fail before the time is up

VARIABLES
  at,       \* where the main thread is
  status,   \* the phase the status file says
  screen,   \* what the box's display shows of it
  ap,       \* the setup network: "none", its profile "made", or "up"
  served,   \* the page's server has its address
  posts,    \* posts taken so far
  request,  \* the post the page's handler left for the main thread, 0 for none
  wake,     \* the event it sets with it
  key,      \* the post the account key kept is of, 0 for no key
  target,   \* the post whose network is being joined
  account,  \* the post whose key was taken for the box's account
  pending,  \* what undo() would undo of the join: "none", "psk" or "new"
  psk,      \* the saved profile's password: "good", or one only "typed"
  made,     \* a profile for the join: "no", "yes", or "kept"
  created,  \* run() knows of that profile
  on,       \* the network from before: "old" (on it), "away", or "asked" for again
  late,     \* the deadline is past
  joins,    \* joins that failed
  cut,      \* where the stop landed, "" before one
  rc        \* what run() returns, "" while it runs

web    == <<posts, request, wake, key>>
join   == <<pending, psk, made, created>>
ending == <<late, joins, cut, rc>>
vars   == <<at, status, screen, ap, served, web, target, account, join, on, ending>>

TypeOK ==
  /\ at \in {"start", "scan", "raise", "serve", "show", "wait", "told", "down", "join",
             "modify", "up", "undo", "restore", "connect", "return", "handed", "joined",
             "done", "failed", "again", "clear", "lower", "unpend", "unjoin", "drop", "back",
             "close", "over", "dead"}
  /\ status \in {"none", "scanning", "ap_up", "joining", "connected", "failed",
                 "timeout", "stopped", "error"}
  /\ screen \in {"off", "password", "joining", "connected", "failed"}
  /\ ap \in {"none", "made", "up"}
  /\ {posts, request, key, target, account} \subseteq 0..MaxPosts
  /\ {served, wake, created, late} \subseteq BOOLEAN
  /\ pending \in {"none", "psk", "new"}
  /\ psk \in {"good", "typed"}
  /\ made \in {"no", "yes", "kept"}
  /\ on \in {"old", "away", "asked"}
  /\ joins \in 0..MaxJoins
  /\ rc \in {"", "connected", "error", "timeout", "stopped"}

Init ==
  /\ at = "start" /\ status = "none" /\ screen = "off" /\ on = "old"
  /\ ap \in {"none", "made"}  \* "made": a leftover from a crash
  /\ served = FALSE /\ posts = 0 /\ request = 0 /\ wake = FALSE /\ key = 0
  /\ target = 0 /\ account = 0
  /\ pending = "none" /\ psk = "good" /\ made = "no" /\ created = FALSE
  /\ late = FALSE /\ joins = 0 /\ cut = "" /\ rc = ""

Go(from, to) == at = from /\ at' = to
Says(phase) == status' = phase

(* Any way out without a network: the phase is written and the clean-up begins. *)
GiveUp(from, phase) ==
  /\ Go(from, "clear")
  /\ Says(phase)
  /\ rc' = phase
  /\ UNCHANGED <<late, joins, cut>>

------------------------------------------------------------------------------
(* The web side. *)

\* Slip: the key of a choice from before is kept past one without.
PostSlip ==
  /\ ap = "up" /\ served /\ at \notin {"over", "dead"}
  /\ posts < MaxPosts /\ posts' = posts + 1
  /\ request' = posts' /\ wake' = TRUE
  /\ key' \in {key, posts'}
  /\ UNCHANGED <<at, status, screen, ap, served, target, account, join, on, ending>>

(* A phone on the setup network posts its choice, with a key or without. *)
Post ==
  /\ ap = "up" /\ served /\ at \notin {"over", "dead"}
  /\ posts < MaxPosts
  /\ posts' = posts + 1
  /\ request' = posts'
  /\ wake' = TRUE
  /\ key' \in {0, posts'}
  /\ UNCHANGED <<at, status, screen, ap, served, target, account, join, on, ending>>

------------------------------------------------------------------------------
(* The main thread. *)

NoDevice ==
  /\ Go("start", "close")
  /\ Says("error")
  /\ rc' = "error"
  /\ UNCHANGED <<screen, ap, served, web, target, account, join, on, late, joins, cut>>

Scan ==
  /\ \/ Go("start", "scan") /\ Says("scanning")
     \/ Go("scan", "raise") /\ UNCHANGED status
  /\ UNCHANGED <<screen, ap, served, web, target, account, join, on, ending>>

(* A request from before is dropped, and the setup network brought up. *)
Forgets == request' = 0 /\ wake' = FALSE

Raise ==
  /\ Forgets
  /\ on' = "away"
  /\ \/ /\ Go("raise", IF served THEN "show" ELSE "serve")
        /\ ap' = "up"
        /\ UNCHANGED <<status, ending>>
     \/ /\ GiveUp("raise", "error")
        /\ ap' \in {"none", "made"}
  /\ UNCHANGED <<screen, served, posts, key, target, account, join>>

Serve ==
  /\ \/ Go("serve", "show") /\ served' = TRUE /\ UNCHANGED <<status, ending>>
     \/ GiveUp("serve", "error") /\ UNCHANGED served
  /\ UNCHANGED <<screen, ap, web, target, account, join, on>>

Show ==
  /\ Go("show", "wait")
  /\ Says("ap_up")
  /\ screen' = "password"
  /\ UNCHANGED <<ap, served, web, target, account, join, on, ending>>

(* A post has come: the phone gets its answer before the network goes. *)
Taken ==
  /\ wake
  /\ Go("wait", "told")
  /\ target' = request
  /\ UNCHANGED <<status, screen, ap, served, web, account, join, on, ending>>

TimesOut ==
  /\ ~wake /\ late
  /\ GiveUp("wait", "timeout")
  /\ UNCHANGED <<screen, ap, served, web, target, account, join, on>>

Leaves ==
  /\ \/ Go("told", "down") /\ Says("joining") /\ screen' = "joining" /\ UNCHANGED ap
     \/ Go("down", "join") /\ ap' = "made" /\ UNCHANGED <<status, screen>>
  /\ UNCHANGED <<served, web, target, account, join, on, ending>>

(* nm.join, by what is saved of the network: brought up as it is, its      *)
(* password changed, or a profile made for it -- or nothing tried at all.  *)
Join ==
  /\ at = "join"
  /\ \/ at' \in {"joined", "failed"} /\ pending' = "none"
     \/ at' = "modify" /\ pending' = "psk"
     \/ at' = "connect" /\ made = "no" /\ pending' = "new"
  /\ UNCHANGED <<status, screen, ap, served, web, target, account, psk, made, created, on, ending>>

(* A saved profile's password changed, and tried. *)
Modify ==
  /\ at = "modify"
  /\ \/ at' = "up" /\ psk' = "typed"
     \/ at' = "undo" /\ UNCHANGED psk
  /\ UNCHANGED <<status, screen, ap, served, web, target, account, pending, made, created, on, ending>>

TryNew ==
  /\ at = "up"
  /\ \/ at' = "joined" /\ psk' = "good" /\ pending' = "none"
     \/ at' = "undo" /\ UNCHANGED <<psk, pending>>
  /\ UNCHANGED <<status, screen, ap, served, web, target, account, made, created, on, ending>>

(* undo: what is pending is forgotten before the call that puts it back. *)
Unpend(from, to) ==
  /\ Go(from, to)
  /\ pending' = "none"
  /\ UNCHANGED <<psk, made, created>>

Undo == /\ Unpend("undo", "restore")
        /\ UNCHANGED <<status, screen, ap, served, web, target, account, on, ending>>

Restore ==
  /\ Go("restore", IF rc = "" THEN "failed" ELSE "drop")
  /\ psk' = "good"
  /\ UNCHANGED <<status, screen, ap, served, web, target, account, pending, made, created, on, ending>>

(* A profile of its own; a failed connect may leave one too. *)
Connect ==
  /\ Go("connect", "return")
  /\ made' \in {"no", "yes"}
  /\ UNCHANGED <<status, screen, ap, served, web, target, account, pending, psk, created, on, ending>>

(* join returns: nothing is pending, and then run() knows of the profile. *)
Return ==
  /\ Unpend("return", "handed")
  /\ UNCHANGED <<status, screen, ap, served, web, target, account, on, ending>>

Handed ==
  /\ at = "handed"
  /\ \/ at' = "joined" /\ made = "yes"
     \/ at' = "failed"
  /\ created' = (made = "yes")
  /\ UNCHANGED <<status, screen, ap, served, web, target, account, pending, psk, made, on, ending>>

(* Internet through it: the profile is kept and the key checked. *)
Online ==
  /\ Go("joined", "done")
  /\ made' = IF created THEN "kept" ELSE made
  /\ created' = FALSE
  /\ account' \in {account, key}
  /\ key' = 0
  /\ Says("connected")
  /\ screen' = "connected"
  /\ UNCHANGED <<ap, served, posts, request, wake, target, pending, psk, on, ending>>

Offline ==
  /\ Go("joined", "failed")
  /\ UNCHANGED <<status, screen, ap, served, web, target, account, join, on, ending>>

Done ==
  /\ Go("done", "close")
  /\ rc' = "connected"
  /\ UNCHANGED <<status, screen, ap, served, web, target, account, join, on, late, joins, cut>>

(* The join failed: its profile is dropped, and the setup network comes    *)
(* back for another, unless the time is up.                                *)
DropMade == made' = (IF created THEN "no" ELSE made) /\ created' = FALSE

\* Slip: the setup network comes back with nothing said of the join.
JoinFailedSlip ==
  /\ Go("failed", "again")
  /\ DropMade
  /\ UNCHANGED <<status, screen, ap, served, web, target, account, pending, psk, on, ending>>

JoinFailed ==
  /\ Go("failed", "again")
  /\ DropMade
  /\ Says("failed")
  /\ screen' = "failed"
  /\ UNCHANGED <<ap, served, web, target, account, pending, psk, on, ending>>

Again ==
  /\ \/ /\ Go("again", "raise")
        /\ ~late /\ joins < MaxJoins
        /\ joins' = joins + 1
        /\ UNCHANGED <<status, late, cut, rc>>
     \/ late /\ GiveUp("again", "timeout")
  /\ UNCHANGED <<screen, ap, served, web, target, account, join, on>>

------------------------------------------------------------------------------
(* _put_back, in its order, and _close. *)

Clear ==
  /\ \/ Go("clear", "lower") /\ screen' = "off" /\ UNCHANGED ap
     \/ Go("lower", "unpend") /\ ap' = (IF ap = "up" THEN "made" ELSE ap) /\ UNCHANGED screen
  /\ UNCHANGED <<status, served, web, target, account, join, on, ending>>

\* Slip: the way out does not undo the join in progress.
UndoPendingSlip ==
  /\ Go("unpend", "drop")
  /\ UNCHANGED <<status, screen, ap, served, web, target, account, join, on, ending>>

UndoPending ==
  /\ \/ pending = "none" /\ Go("unpend", "drop") /\ UNCHANGED join
     \/ pending = "psk" /\ Unpend("unpend", "restore")
     \/ pending = "new" /\ Unpend("unpend", "unjoin")
  /\ UNCHANGED <<status, screen, ap, served, web, target, account, on, ending>>

Unjoin ==
  /\ Go("unjoin", "drop")
  /\ made' = "no"
  /\ UNCHANGED <<status, screen, ap, served, web, target, account, pending, psk, created, on, ending>>

Drop ==
  /\ Go("drop", "back")
  /\ DropMade
  /\ UNCHANGED <<status, screen, ap, served, web, target, account, pending, psk, on, ending>>

Back ==
  /\ Go("back", "close")
  /\ on' = "asked"
  /\ UNCHANGED <<status, screen, ap, served, web, target, account, join, ending>>

Close ==
  /\ Go("close", "over")
  /\ ap' = "none"
  /\ screen' = IF screen = "connected" THEN screen ELSE "off"
  /\ UNCHANGED <<status, served, web, target, account, join, on, ending>>

------------------------------------------------------------------------------
(* Around it. *)

(* SIGTERM, once: before anything was changed there is nothing to put      *)
(* back; during _close that is done again, whole; else all is put back.    *)
Stop ==
  /\ cut = "" /\ at \notin {"over", "dead"}
  /\ cut' = at
  /\ IF at = "close" THEN UNCHANGED <<at, status, rc>>
     ELSE /\ at' = IF at = "start" THEN "close" ELSE "clear"
          /\ Says("stopped")
          /\ rc' = "stopped"
  /\ UNCHANGED <<screen, ap, served, web, target, account, join, on, late, joins>>

Late ==
  /\ ~late /\ at \notin {"over", "dead"}
  /\ late' = TRUE
  /\ UNCHANGED <<at, status, screen, ap, served, web, target, account, join, on, joins, cut, rc>>

(* Killed past the stop's time, or the power goes. *)
Die ==
  /\ at \notin {"over", "dead"}
  /\ at' = "dead"
  /\ UNCHANGED <<status, screen, ap, served, web, target, account, join, on, ending>>

Main == \/ NoDevice \/ Scan \/ Raise \/ Serve \/ Show \/ Taken \/ TimesOut \/ Leaves
        \/ Join \/ Modify \/ TryNew \/ Undo \/ Restore \/ Connect \/ Return \/ Handed
        \/ Online \/ Offline \/ Done \/ JoinFailed \/ Again
        \/ Clear \/ UndoPending \/ Unjoin \/ Drop \/ Back \/ Close

Rest == at \in {"over", "dead"} /\ UNCHANGED vars

Next == Main \/ Post \/ Stop \/ Late \/ Die \/ Rest

Spec == Init /\ [][Next]_vars
(* The main thread runs on and the clock with it: every call it makes has  *)
(* a limit of its own.                                                     *)
FairSpec == Spec /\ WF_vars(Main) /\ WF_vars(Late)

------------------------------------------------------------------------------
(* Whatever ends a setup short of a connection, a stop too, leaves no setup *)
(* network and no password on the display, and asks for the network the box *)
(* was on.  A password that did not work stays saved only where the stop    *)
(* came within undo()'s own call that puts the old one back (what was       *)
(* pending is forgotten before it), and the profile of a join that failed   *)
(* only where it came within the call that deletes it, or as join() handed  *)
(* its id over.                                                             *)
BackAsItWas ==
  at = "over" =>
    /\ ap = "none" /\ screen \in {"off", "connected"} /\ pending = "none"
    /\ on # "away" \/ rc = "connected"
    /\ psk = "typed" => cut = "restore"
    /\ made = "yes" => cut \in {"unjoin", "handed"}

(* The password is on the display only while the network it opens is up or *)
(* just about to be left: nobody is shown a way in that is not there.      *)
ShownIsUp == screen = "password" /\ at \notin {"clear", "dead"} => ap # "none"

(* A key is saved to the box's account only from the last choice posted:   *)
(* not one of an earlier choice whose join failed.                         *)
KeyOfTheLast == account \in {0, posts}

(* What the status file says runs through the phases as those who follow   *)
(* it count on.                                                            *)
Unit == INSTANCE SetupUnit WITH phase <- status, up <- at \notin {"over", "dead"}
IsSetupUnit == Unit!Spec

(* What a setup owes: it comes to its end. *)
Promises == {"over"}
AreDue == Promises
AreKept == IF at \in {"over", "dead"} THEN Promises ELSE {}
=============================================================================
