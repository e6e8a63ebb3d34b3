--------------------------- MODULE SipCallsProofs ---------------------------
(***************************************************************************)
(* What holds of the telephone, for any number of calls: that a call's     *)
(* pipeline runs under its claim, that no two hold the engine, and what    *)
(* tears one down; and of the conversation a call puts on hold: all that   *)
(* is switched is switched back, nobody is heard meanwhile, and the call   *)
(* goes as the model was told.                                             *)
(***************************************************************************)
EXTENDS Box, Naturals, FiniteSets, Sequences, TLAPS

-----------------------------------------------------------------------------
(* Of any gateway: who is in flight.                                       *)

Before == {"waiting", "asking", "building", "confirmingBusy", "busyLine"}
After  == {"headstart", "confirming", "greeting", "ending"}
Settling(c) == down[c] \in {"runner", "settle"}
Piped(c) == active = c \/ Settling(c)

(* One bring-up at a time; one that has its pipeline has the active one, if *)
(* there is an active one.                                                 *)
SetupInv ==
  /\ \A c \in Calls : setup = c <=> bring[c] \in Before \cup After
  /\ \A c \in Calls : setup = c /\ active # None => active = c /\ bring[c] \in After

(* A pipeline holds the engine while it is the active one or its runner is  *)
(* being cancelled; and one is at most.                                     *)
PipeInv ==
  /\ \A c \in Calls : Line!HoldsTheSlot(c) <=> active = c \/ down[c] = "runner"
  /\ \A c, d \in Calls : Piped(c) /\ Piped(d) => c = d
  /\ \A c \in Calls : active = c => ~Settling(c)

(* Whoever cancels a pipeline waits for it: the reader, that reads nothing  *)
(* and begins nothing meanwhile, or a task that the next ask waits for.     *)
TearInv ==
  /\ reader.at = "down" =>
       /\ setup = None /\ active = None /\ Settling(reader.old)
       /\ \A t \in Calls \X Line!Starters : tear[t] # "running"
  /\ reader = Line!Closed => setup = None /\ active = None
  /\ \A t \in Calls \X Line!Starters : tear[t] = "running" => Settling(t[1])
  /\ \A c \in Calls : Settling(c) =>
       Line!WaitedByReader(c) \/ \E who \in Line!Starters : tear[<<c, who>>] = "running"

(* From its ask to its pipeline a call is alone with the engine; and a      *)
(* bring-up starts a teardown at most once.                                 *)
AloneInv ==
  /\ \A c \in Calls : bring[c] \in Before \ {"waiting"} =>
       \A t \in Calls \X Line!Starters : tear[t] = "no"
  /\ \A c \in Calls : bring[c] \in After \ {"ending"} => tear[<<c, "bringup">>] = "no"

(* The claim is there before the pipeline.                                  *)
ClaimInv ==
  reader # Line!Closed => \A c \in Calls :
    bring[c] \in {"asking", "building"} \/ Piped(c) => c \in claims

(* What the gateway has said is so; who is torn down was hung up.           *)
SaidInv ==
  /\ \A i \in DOMAIN inbox : inbox[i].what = "disconnected" => gw[inbox[i].call] = "gone"
  /\ \A t \in Calls \X Line!Starters : tear[t] # "no" => t[1] \in hung

IInv == Line!TypeOK /\ SetupInv /\ PipeInv /\ TearInv /\ AloneInv /\ ClaimInv /\ SaidInv

-----------------------------------------------------------------------------
(* The steps of IInv.                                                       *)

\* What a part of it is about is all that can disturb it.
LEMMA Frames ==
  ASSUME IInv
  PROVE  /\ UNCHANGED <<setup, bring, active>> => SetupInv'
         /\ UNCHANGED <<pipe, active, down>> => PipeInv'
         /\ UNCHANGED <<reader, active, down, tear>> /\ setup' \in {setup, None} => TearInv'
         /\ UNCHANGED <<bring, tear>> => AloneInv'
         /\ UNCHANGED <<reader, bring, active, down, claims>> => ClaimInv'
         /\ UNCHANGED <<gw, inbox, tear>> /\ hung \subseteq hung' => SaidInv'
  <1>1. UNCHANGED <<setup, bring, active>> => SetupInv'
    BY DEF IInv, SetupInv, Before, After
  <1>2. UNCHANGED <<pipe, active, down>> => PipeInv'
    BY DEF IInv, PipeInv, Piped, Settling, Line!HoldsTheSlot
  <1>3. UNCHANGED <<reader, active, down, tear>> /\ setup' \in {setup, None} => TearInv'
    BY DEF IInv, TearInv, Settling, Line!WaitedByReader
  <1>4. UNCHANGED <<bring, tear>> => AloneInv'
    BY DEF IInv, AloneInv, Before, After
  <1>5. UNCHANGED <<reader, bring, active, down, claims>> => ClaimInv'
    BY DEF IInv, ClaimInv, Piped, Settling
  <1>6. UNCHANGED <<gw, inbox, tear>> /\ hung \subseteq hung' => SaidInv'
    BY DEF IInv, SaidInv
  <1>. QED BY <1>1, <1>2, <1>3, <1>4, <1>5, <1>6

\* The call whose pipeline the reader waits for is a call.
LEMMA OldIsACall == IInv /\ reader.at = "down" => reader.old \in Calls
  BY DEF IInv, Line!TypeOK, Line!Readers, Line!Reading, Line!Closed

\* While a call asks, or builds, no other holds the engine.
LEMMA NobodyHolds ==
  ASSUME None \notin Calls, IInv, NEW c \in Calls, bring[c] \in Before \ {"waiting"}
  PROVE  /\ active = None /\ reader # Line!Closed /\ reader.at # "down"
         /\ \A d \in Calls : ~Settling(d) /\ ~Line!HoldsTheSlot(d)
         /\ \A d \in Calls : d # c => bring[d] \in {"none", "over"}
  <1>1. setup = c /\ active = None
    BY DEF IInv, SetupInv, Line!TypeOK, Before, After
  <1>2. reader # Line!Closed /\ reader.at # "down"
    BY <1>1 DEF IInv, TearInv
  <1>3. \A d \in Calls : ~Settling(d)
    BY <1>2 DEF IInv, TearInv, AloneInv, Line!WaitedByReader, Line!Starters
  <1>4. \A d \in Calls : ~Line!HoldsTheSlot(d)
    BY <1>1, <1>3 DEF IInv, PipeInv, Settling
  <1>5. \A d \in Calls : d # c => bring[d] \in {"none", "over"}
    BY <1>1 DEF IInv, SetupInv, Line!TypeOK, Before, After
  <1>. QED BY <1>1, <1>2, <1>3, <1>4, <1>5

\* The gateway.
LEMMA GatewayKeeps ==
  ASSUME None \notin Calls, IInv, NEW c \in Calls, Line!Gateway(c)
  PROVE  IInv'
  <1>. USE DEF Line!line, Line!kind, Line!rings
  <1>1. CASE Line!Invite(c)
    <2>1. Line!TypeOK'
      BY <1>1 DEF IInv, Line!TypeOK, Line!Invite, Line!Says, Line!Carried, Line!Messages
    <2>2. SaidInv'
      BY <1>1 DEF IInv, Line!TypeOK, Line!Invite, Line!Says, Line!Carried, Line!Messages,
         SaidInv
    <2>3. SetupInv' /\ PipeInv' /\ TearInv' /\ AloneInv' /\ ClaimInv'
      BY <1>1, Frames DEF Line!Invite, Line!Says, Line!Carried, Line!Messages
    <2>. QED BY <2>1, <2>2, <2>3 DEF IInv
  <1>2. CASE Line!PickUp(c)
    <2>1. Line!TypeOK'
      BY <1>2 DEF IInv, Line!TypeOK, Line!PickUp, Line!Says, Line!Carried, Line!Messages
    <2>2. SaidInv'
      BY <1>2 DEF IInv, Line!TypeOK, Line!PickUp, Line!Says, Line!Carried, Line!Messages,
         SaidInv
    <2>3. SetupInv' /\ PipeInv' /\ TearInv' /\ AloneInv' /\ ClaimInv'
      BY <1>2, Frames DEF Line!PickUp, Line!Says, Line!Carried, Line!Messages
    <2>. QED BY <2>1, <2>2, <2>3 DEF IInv
  <1>3. CASE Line!Leaves(c)
    <2>1. Line!TypeOK'
      BY <1>3 DEF IInv, Line!TypeOK, Line!Leaves, Line!Says, Line!Carried, Line!Messages
    <2>2. SaidInv'
      BY <1>3 DEF IInv, Line!TypeOK, Line!Leaves, Line!Says, Line!Carried, Line!Messages,
         SaidInv
    <2>3. SetupInv' /\ PipeInv' /\ TearInv' /\ AloneInv' /\ ClaimInv'
      BY <1>3, Frames DEF Line!Leaves, Line!Says, Line!Carried, Line!Messages
    <2>. QED BY <2>1, <2>2, <2>3 DEF IInv
  <1>4. CASE Line!CallEnds(c)
    <2>1. Line!TypeOK'
      BY <1>4 DEF IInv, Line!TypeOK, Line!CallEnds, Line!Says, Line!Carried, Line!Messages
    <2>2. SaidInv'
      BY <1>4 DEF IInv, Line!TypeOK, Line!CallEnds, Line!Says, Line!Carried,
         Line!Messages, SaidInv
    <2>3. SetupInv' /\ PipeInv' /\ TearInv' /\ AloneInv' /\ ClaimInv'
      BY <1>4, Frames DEF Line!CallEnds, Line!Says, Line!Carried, Line!Messages
    <2>. QED BY <2>1, <2>2, <2>3 DEF IInv
  <1>. QED BY <1>1, <1>2, <1>3, <1>4 DEF Line!Gateway

\* The bring-up of a call.
LEMMA BringUpKeeps ==
  ASSUME None \notin Calls, IInv, NEW c \in Calls, Line!BringUp(c)
  PROVE  IInv'
  <1>. USE DEF Line!line, Line!kind, Line!rings
  <1>1. CASE Line!Ask(c)
    <2>1. Line!TypeOK'
      BY <1>1 DEF IInv, Line!TypeOK, Line!Ask, Line!Goes, Line!Teardowns
    <2>2. SetupInv'
      BY <1>1 DEF IInv, Line!TypeOK, Line!Ask, Line!Goes, Line!Teardowns, SetupInv,
         Before, After
    <2>3. AloneInv'
      BY <1>1 DEF IInv, Line!TypeOK, Line!Ask, Line!Goes, Line!Teardowns, AloneInv,
         Before, After
    <2>4. ClaimInv'
      BY <1>1 DEF IInv, Line!TypeOK, Line!Ask, Line!Goes, Line!Teardowns, ClaimInv, Piped,
         Settling
    <2>5. PipeInv' /\ TearInv' /\ SaidInv'
      BY <1>1, Frames DEF Line!Ask, Line!Goes, Line!Teardowns
    <2>. QED BY <2>1, <2>2, <2>3, <2>4, <2>5 DEF IInv
  <1>2. CASE Line!Granted(c)
    <2>1. Line!TypeOK'
      BY <1>2 DEF IInv, Line!TypeOK, Line!Granted, Line!Goes
    <2>2. SetupInv'
      BY <1>2 DEF IInv, Line!TypeOK, Line!Granted, Line!Goes, SetupInv, Before, After
    <2>3. AloneInv'
      BY <1>2 DEF IInv, Line!TypeOK, Line!Granted, Line!Goes, AloneInv, Before, After
    <2>4. ClaimInv'
      <3>1. bring[c] \in Before \ {"waiting"}
        BY <1>2 DEF Line!Granted, Line!Goes, Before
      <3>2. active = None /\ (\A d \in Calls : ~Settling(d))
            /\ \A d \in Calls : d # c => bring[d] \in {"none", "over"}
        BY <3>1, NobodyHolds
      <3>. QED BY <1>2, <3>2 DEF IInv, Line!TypeOK, Line!Granted, Line!Goes, ClaimInv, Piped, Settling
    <2>5. PipeInv' /\ TearInv' /\ SaidInv'
      BY <1>2, Frames DEF Line!Granted, Line!Goes
    <2>. QED BY <2>1, <2>2, <2>3, <2>4, <2>5 DEF IInv
  <1>3. CASE Line!LeftRinging(c)
    <2>1. Line!TypeOK'
      BY <1>3 DEF IInv, Line!TypeOK, Line!LeftRinging, Line!Goes
    <2>2. SetupInv'
      BY <1>3 DEF IInv, Line!TypeOK, Line!LeftRinging, Line!Goes, SetupInv, Before, After
    <2>3. TearInv'
      BY <1>3, Frames DEF Line!LeftRinging, Line!Goes
    <2>4. AloneInv'
      BY <1>3 DEF IInv, Line!TypeOK, Line!LeftRinging, Line!Goes, AloneInv, Before, After
    <2>5. ClaimInv'
      <3>1. bring[c] \in Before \ {"waiting"}
        BY <1>3 DEF Line!LeftRinging, Line!Goes, Before
      <3>2. active = None /\ (\A d \in Calls : ~Settling(d))
            /\ \A d \in Calls : d # c => bring[d] \in {"none", "over"}
        BY <3>1, NobodyHolds
      <3>. QED BY <1>3, <3>2 DEF IInv, Line!TypeOK, Line!LeftRinging, Line!Goes, ClaimInv, Piped, Settling
    <2>6. PipeInv' /\ SaidInv'
      BY <1>3, Frames DEF Line!LeftRinging, Line!Goes
    <2>. QED BY <2>1, <2>2, <2>3, <2>4, <2>5, <2>6 DEF IInv
  <1>4. CASE Line!Refused(c)
    <2>1. Line!TypeOK'
      BY <1>4 DEF IInv, Line!TypeOK, Line!Refused, Line!Goes
    <2>2. SetupInv'
      BY <1>4 DEF IInv, Line!TypeOK, Line!Refused, Line!Goes, SetupInv, Before, After
    <2>3. AloneInv'
      BY <1>4 DEF IInv, Line!TypeOK, Line!Refused, Line!Goes, AloneInv, Before, After
    <2>4. ClaimInv'
      <3>1. bring[c] \in Before \ {"waiting"}
        BY <1>4 DEF Line!Refused, Line!Goes, Before
      <3>2. active = None /\ (\A d \in Calls : ~Settling(d))
            /\ \A d \in Calls : d # c => bring[d] \in {"none", "over"}
        BY <3>1, NobodyHolds
      <3>. QED BY <1>4, <3>2 DEF IInv, Line!TypeOK, Line!Refused, Line!Goes, ClaimInv, Piped, Settling
    <2>5. PipeInv' /\ TearInv' /\ SaidInv'
      BY <1>4, Frames DEF Line!Refused, Line!Goes
    <2>. QED BY <2>1, <2>2, <2>3, <2>4, <2>5 DEF IInv
  <1>5. CASE Line!ConfirmedBusy(c)
    <2>1. Line!TypeOK'
      BY <1>5 DEF IInv, Line!TypeOK, Line!ConfirmedBusy, Line!Goes
    <2>2. SetupInv'
      BY <1>5 DEF IInv, Line!TypeOK, Line!ConfirmedBusy, Line!Goes, SetupInv, Before, After
    <2>3. AloneInv'
      BY <1>5 DEF IInv, Line!TypeOK, Line!ConfirmedBusy, Line!Goes, AloneInv, Before, After
    <2>4. ClaimInv'
      BY <1>5 DEF IInv, Line!TypeOK, Line!ConfirmedBusy, Line!Goes, ClaimInv, Piped,
         Settling
    <2>5. PipeInv' /\ TearInv' /\ SaidInv'
      BY <1>5, Frames DEF Line!ConfirmedBusy, Line!Goes
    <2>. QED BY <2>1, <2>2, <2>3, <2>4, <2>5 DEF IInv
  <1>6. CASE Line!NeverConfirmedBusy(c)
    <2>1. Line!TypeOK'
      BY <1>6 DEF IInv, Line!TypeOK, Line!NeverConfirmedBusy, Line!Goes
    <2>2. SetupInv'
      BY <1>6 DEF IInv, Line!TypeOK, Line!NeverConfirmedBusy, Line!Goes, SetupInv, Before,
         After
    <2>3. TearInv'
      BY <1>6, Frames DEF Line!NeverConfirmedBusy, Line!Goes
    <2>4. AloneInv'
      BY <1>6 DEF IInv, Line!TypeOK, Line!NeverConfirmedBusy, Line!Goes, AloneInv, Before,
         After
    <2>5. ClaimInv'
      BY <1>6 DEF IInv, Line!TypeOK, Line!NeverConfirmedBusy, Line!Goes, ClaimInv, Piped,
         Settling
    <2>6. PipeInv' /\ SaidInv'
      BY <1>6, Frames DEF Line!NeverConfirmedBusy, Line!Goes
    <2>. QED BY <2>1, <2>2, <2>3, <2>4, <2>5, <2>6 DEF IInv
  <1>7. CASE Line!BusyLineEnds(c)
    <2>1. Line!TypeOK'
      BY <1>7 DEF IInv, Line!TypeOK, Line!BusyLineEnds, Line!Goes
    <2>2. SetupInv'
      BY <1>7 DEF IInv, Line!TypeOK, Line!BusyLineEnds, Line!Goes, SetupInv, Before, After
    <2>3. TearInv'
      BY <1>7, Frames DEF Line!BusyLineEnds, Line!Goes
    <2>4. AloneInv'
      BY <1>7 DEF IInv, Line!TypeOK, Line!BusyLineEnds, Line!Goes, AloneInv, Before, After
    <2>5. ClaimInv'
      BY <1>7 DEF IInv, Line!TypeOK, Line!BusyLineEnds, Line!Goes, ClaimInv, Piped, Settling
    <2>6. PipeInv' /\ SaidInv'
      BY <1>7, Frames DEF Line!BusyLineEnds, Line!Goes
    <2>. QED BY <2>1, <2>2, <2>3, <2>4, <2>5, <2>6 DEF IInv
  <1>8. CASE Line!Built(c)
    <2>1. Line!TypeOK'
      BY <1>8 DEF IInv, Line!TypeOK, Line!Built, Line!Goes
    <2>2. SetupInv'
      BY <1>8 DEF IInv, Line!TypeOK, Line!Built, Line!Goes, SetupInv, Before, After
    <2>3. PipeInv'
      BY <1>8, NobodyHolds DEF IInv, Line!TypeOK, Line!Built, Line!Goes, PipeInv, Piped,
         Settling, Line!HoldsTheSlot, Before
    <2>4. TearInv'
      BY <1>8, NobodyHolds DEF IInv, Line!TypeOK, Line!Built, Line!Goes, TearInv,
         Settling, Line!WaitedByReader, Before
    <2>5. AloneInv'
      BY <1>8 DEF IInv, Line!TypeOK, Line!Built, Line!Goes, SetupInv, AloneInv, Before,
         After, Line!Starters
    <2>6. ClaimInv'
      BY <1>8 DEF IInv, Line!TypeOK, Line!Built, Line!Goes, ClaimInv, Piped, Settling
    <2>7. SaidInv'
      BY <1>8, Frames DEF Line!Built, Line!Goes
    <2>. QED BY <2>1, <2>2, <2>3, <2>4, <2>5, <2>6, <2>7 DEF IInv
  <1>9. CASE Line!BuildFails(c)
    <2>1. Line!TypeOK'
      BY <1>9 DEF IInv, Line!TypeOK, Line!BuildFails, Line!Goes
    <2>2. SetupInv'
      BY <1>9 DEF IInv, Line!TypeOK, Line!BuildFails, Line!Goes, SetupInv, Before, After
    <2>3. TearInv'
      BY <1>9, Frames DEF Line!BuildFails, Line!Goes
    <2>4. AloneInv'
      BY <1>9 DEF IInv, Line!TypeOK, Line!BuildFails, Line!Goes, AloneInv, Before, After
    <2>5. ClaimInv'
      BY <1>9 DEF IInv, Line!TypeOK, Line!BuildFails, Line!Goes, ClaimInv, Piped, Settling
    <2>6. PipeInv' /\ SaidInv'
      BY <1>9, Frames DEF Line!BuildFails, Line!Goes
    <2>. QED BY <2>1, <2>2, <2>3, <2>4, <2>5, <2>6 DEF IInv
  <1>10. CASE Line!Answer(c)
    <2>1. Line!TypeOK'
      BY <1>10 DEF IInv, Line!TypeOK, Line!Answer, Line!Goes
    <2>2. SetupInv'
      BY <1>10 DEF IInv, Line!TypeOK, Line!Answer, Line!Goes, SetupInv, Before, After
    <2>3. AloneInv'
      BY <1>10 DEF IInv, Line!TypeOK, Line!Answer, Line!Goes, AloneInv, Before, After
    <2>4. ClaimInv'
      BY <1>10 DEF IInv, Line!TypeOK, Line!Answer, Line!Goes, ClaimInv, Piped, Settling
    <2>5. PipeInv' /\ TearInv' /\ SaidInv'
      BY <1>10, Frames DEF Line!Answer, Line!Goes
    <2>. QED BY <2>1, <2>2, <2>3, <2>4, <2>5 DEF IInv
  <1>11. CASE Line!IsConfirmed(c)
    <2>1. Line!TypeOK'
      BY <1>11 DEF IInv, Line!TypeOK, Line!IsConfirmed, Line!Goes
    <2>2. SetupInv'
      BY <1>11 DEF IInv, Line!TypeOK, Line!IsConfirmed, Line!Goes, SetupInv, Before, After
    <2>3. AloneInv'
      BY <1>11 DEF IInv, Line!TypeOK, Line!IsConfirmed, Line!Goes, AloneInv, Before, After
    <2>4. ClaimInv'
      BY <1>11 DEF IInv, Line!TypeOK, Line!IsConfirmed, Line!Goes, ClaimInv, Piped, Settling
    <2>5. PipeInv' /\ TearInv' /\ SaidInv'
      BY <1>11, Frames DEF Line!IsConfirmed, Line!Goes
    <2>. QED BY <2>1, <2>2, <2>3, <2>4, <2>5 DEF IInv
  <1>12. CASE Line!NeverConfirmed(c)
    <2>1. Line!TypeOK'
      BY ZenonT(60), <1>12 DEF IInv, Line!TypeOK, Line!NeverConfirmed, Line!Goes,
         Line!EndsItsCall, Line!EndFromInside
    <2>2. SetupInv'
      BY <1>12 DEF IInv, Line!TypeOK, Line!NeverConfirmed, Line!Goes, Line!EndsItsCall,
         Line!EndFromInside, SetupInv, Before, After
    <2>3. TearInv'
      BY <1>12 DEF IInv, Line!TypeOK, Line!NeverConfirmed, Line!Goes, Line!EndsItsCall,
         Line!EndFromInside, AloneInv, After, Line!Starters, TearInv, Settling,
         Line!WaitedByReader
    <2>4. AloneInv'
      BY <1>12 DEF IInv, Line!TypeOK, Line!NeverConfirmed, Line!Goes, Line!EndsItsCall,
         Line!EndFromInside, SetupInv, AloneInv, Before, After
    <2>5. ClaimInv'
      BY <1>12 DEF IInv, Line!TypeOK, Line!NeverConfirmed, Line!Goes, Line!EndsItsCall,
         Line!EndFromInside, ClaimInv, Piped, Settling
    <2>6. SaidInv'
      BY <1>12 DEF IInv, Line!TypeOK, Line!NeverConfirmed, Line!Goes, Line!EndsItsCall,
         Line!EndFromInside, SaidInv
    <2>7. PipeInv'
      BY <1>12, Frames DEF Line!NeverConfirmed, Line!Goes, Line!EndsItsCall,
         Line!EndFromInside
    <2>. QED BY <2>1, <2>2, <2>3, <2>4, <2>5, <2>6, <2>7 DEF IInv
  <1>13. CASE Line!Greeted(c)
    <2>1. Line!TypeOK'
      BY <1>13 DEF IInv, Line!TypeOK, Line!Greeted, Line!Goes
    <2>2. SetupInv'
      BY <1>13 DEF IInv, Line!TypeOK, Line!Greeted, Line!Goes, SetupInv, Before, After
    <2>3. TearInv'
      BY <1>13, Frames DEF Line!Greeted, Line!Goes
    <2>4. AloneInv'
      BY <1>13 DEF IInv, Line!TypeOK, Line!Greeted, Line!Goes, AloneInv, Before, After
    <2>5. ClaimInv'
      BY <1>13 DEF IInv, Line!TypeOK, Line!Greeted, Line!Goes, ClaimInv, Piped, Settling
    <2>6. PipeInv' /\ SaidInv'
      BY <1>13, Frames DEF Line!Greeted, Line!Goes
    <2>. QED BY <2>1, <2>2, <2>3, <2>4, <2>5, <2>6 DEF IInv
  <1>14. CASE Line!CannotTalk(c)
    <2>1. Line!TypeOK'
      BY ZenonT(60), <1>14 DEF IInv, Line!TypeOK, Line!CannotTalk, Line!Goes,
         Line!EndsItsCall, Line!EndFromInside
    <2>2. SetupInv'
      BY <1>14 DEF IInv, Line!TypeOK, Line!CannotTalk, Line!Goes, Line!EndsItsCall,
         Line!EndFromInside, SetupInv, Before, After
    <2>3. TearInv'
      BY <1>14 DEF IInv, Line!TypeOK, Line!CannotTalk, Line!Goes, Line!EndsItsCall,
         Line!EndFromInside, AloneInv, After, Line!Starters, TearInv, Settling,
         Line!WaitedByReader
    <2>4. AloneInv'
      BY <1>14 DEF IInv, Line!TypeOK, Line!CannotTalk, Line!Goes, Line!EndsItsCall,
         Line!EndFromInside, SetupInv, AloneInv, Before, After
    <2>5. ClaimInv'
      BY <1>14 DEF IInv, Line!TypeOK, Line!CannotTalk, Line!Goes, Line!EndsItsCall,
         Line!EndFromInside, ClaimInv, Piped, Settling
    <2>6. SaidInv'
      BY <1>14 DEF IInv, Line!TypeOK, Line!CannotTalk, Line!Goes, Line!EndsItsCall,
         Line!EndFromInside, SaidInv
    <2>7. PipeInv'
      BY <1>14, Frames DEF Line!CannotTalk, Line!Goes, Line!EndsItsCall, Line!EndFromInside
    <2>. QED BY <2>1, <2>2, <2>3, <2>4, <2>5, <2>6, <2>7 DEF IInv
  <1>15. CASE Line!HasEnded(c)
    <2>1. Line!TypeOK'
      BY <1>15 DEF IInv, Line!TypeOK, Line!HasEnded, Line!Goes
    <2>2. SetupInv'
      BY <1>15 DEF IInv, Line!TypeOK, Line!HasEnded, Line!Goes, SetupInv, Before, After
    <2>3. TearInv'
      BY <1>15, Frames DEF Line!HasEnded, Line!Goes
    <2>4. AloneInv'
      BY <1>15 DEF IInv, Line!TypeOK, Line!HasEnded, Line!Goes, AloneInv, Before, After
    <2>5. ClaimInv'
      BY <1>15 DEF IInv, Line!TypeOK, Line!HasEnded, Line!Goes, ClaimInv, Piped, Settling
    <2>6. PipeInv' /\ SaidInv'
      BY <1>15, Frames DEF Line!HasEnded, Line!Goes
    <2>. QED BY <2>1, <2>2, <2>3, <2>4, <2>5, <2>6 DEF IInv
  <1>. QED BY <1>1, <1>2, <1>3, <1>4, <1>5, <1>6, <1>7, <1>8, <1>9, <1>10, <1>11, <1>12, <1>13, <1>14, <1>15 DEF Line!BringUp

\* A teardown.
LEMMA TeardownKeeps ==
  ASSUME None \notin Calls, IInv, NEW c \in Calls, Line!Teardown(c)
  PROVE  IInv'
  <1>. USE DEF Line!line, Line!kind, Line!rings
  <1>1. CASE Line!RunnerEnds(c)
    <2>1. Line!TypeOK'
      BY <1>1 DEF IInv, Line!TypeOK, Line!RunnerEnds
    <2>2. PipeInv'
      BY <1>1 DEF IInv, Line!TypeOK, Line!RunnerEnds, PipeInv, Piped, Settling,
         Line!HoldsTheSlot
    <2>3. TearInv'
      <3>1. \A d \in Calls : Settling(d)' <=> Settling(d)
        BY <1>1 DEF IInv, Line!TypeOK, Line!RunnerEnds, Settling
      <3>2. UNCHANGED <<reader, setup, active, tear>>
        BY <1>1 DEF Line!RunnerEnds
      <3>. QED BY <3>1, <3>2, OldIsACall DEF IInv, TearInv, Line!WaitedByReader
    <2>4. ClaimInv'
      BY <1>1 DEF IInv, Line!TypeOK, Line!RunnerEnds, ClaimInv, Piped, Settling
    <2>5. SetupInv' /\ AloneInv' /\ SaidInv'
      BY <1>1, Frames DEF Line!RunnerEnds
    <2>. QED BY <2>1, <2>2, <2>3, <2>4, <2>5 DEF IInv
  <1>2. CASE Line!Settled(c)
    <2>1. Line!TypeOK'
      BY <1>2 DEF IInv, Line!TypeOK, Line!Settled
    <2>2. PipeInv'
      BY <1>2 DEF IInv, Line!TypeOK, Line!Settled, PipeInv, Piped, Settling,
         Line!HoldsTheSlot
    <2>3. TearInv'
      <3>1. /\ Settling(c) /\ ~Line!WaitedByReader(c)
            /\ \A d \in Calls : Settling(d)' <=> d # c /\ Settling(d)
        BY <1>2 DEF IInv, Line!TypeOK, Line!Settled, Settling
      <3>2. PICK who \in Line!Starters : tear[<<c, who>>] = "running"
        BY <3>1 DEF IInv, TearInv
      <3>3. reader.at # "down" /\ UNCHANGED <<reader, setup, active>>
        BY <1>2, <3>2 DEF IInv, TearInv, Line!Settled
      <3>4. \A d \in Calls : ~Settling(d)'
        BY <3>1 DEF IInv, PipeInv, Piped
      <3>5. \A t \in Calls \X Line!Starters : tear'[t] # "running"
        BY <1>2, <3>1 DEF IInv, Line!TypeOK, TearInv, PipeInv, Piped, Line!Settled
      <3>. QED BY <3>3, <3>4, <3>5 DEF IInv, TearInv, Line!WaitedByReader
    <2>4. AloneInv'
      BY <1>2 DEF IInv, Line!TypeOK, Line!Settled, AloneInv, Before, After, Line!Starters
    <2>5. ClaimInv'
      <3>1. PICK who \in Line!Starters : tear[<<c, who>>] = "running"
        BY <1>2 DEF IInv, Line!Settled, TearInv, Settling
      <3>2. active # c
        BY <1>2 DEF IInv, Line!Settled, PipeInv, Settling
      <3>3. bring[c] \notin {"asking", "building"}
        BY <3>1 DEF IInv, AloneInv, Before
      <3>. QED BY <1>2, <3>2, <3>3 DEF IInv, Line!TypeOK, Line!Settled, ClaimInv, Piped, Settling
    <2>6. SaidInv'
      BY <1>2 DEF IInv, Line!TypeOK, Line!Settled, SaidInv
    <2>7. SetupInv'
      BY <1>2, Frames DEF Line!Settled
    <2>. QED BY <2>1, <2>2, <2>3, <2>4, <2>5, <2>6, <2>7 DEF IInv
  <1>3. CASE \E who \in Line!Starters : Line!TeardownBegins(<<c, who>>)
    <2>. PICK who \in Line!Starters : Line!TeardownBegins(<<c, who>>)
      BY <1>3
    <2>. DEFINE t == <<c, who>>
    <2>1. t \in Calls \X Line!Starters /\ t[1] = c /\ tear[t] = "created"
      BY DEF Line!TeardownBegins
    <2>2. CASE /\ active = c /\ active' = None
               /\ down' = [down EXCEPT ![c] = "runner"]
               /\ tear' = [tear EXCEPT ![t] = "running"]
      <3>1. UNCHANGED <<Line!line, hung, reader, Line!rings, setup, bring, pipe, busy, claims>>
        BY DEF Line!TeardownBegins
      <3>2. Line!TypeOK'
        BY <2>1, <2>2, <3>1 DEF IInv, Line!TypeOK
      <3>3. SetupInv'
        BY <2>1, <2>2, <3>1 DEF IInv, Line!TypeOK, SetupInv, Before, After
      <3>4. PipeInv'
        BY <2>1, <2>2, <3>1 DEF IInv, Line!TypeOK, PipeInv, Piped, Settling,
           Line!HoldsTheSlot
      <3>5. TearInv'
        BY <2>1, <2>2, <3>1 DEF IInv, Line!TypeOK, PipeInv, TearInv, Line!Starters,
           Settling, Line!WaitedByReader
      <3>6. AloneInv'
        BY <2>1, <2>2, <3>1 DEF IInv, Line!TypeOK, AloneInv, Before, After, Line!Starters
      <3>7. ClaimInv'
        BY <2>1, <2>2, <3>1 DEF IInv, Line!TypeOK, ClaimInv, Piped, Settling
      <3>8. SaidInv'
        BY <2>1, <2>2, <3>1 DEF IInv, Line!TypeOK, SaidInv
      <3>. QED BY <3>2, <3>3, <3>4, <3>5, <3>6, <3>7, <3>8 DEF IInv
    <2>3. CASE /\ active # c /\ UNCHANGED <<active, down>>
               /\ tear' = [tear EXCEPT ![t] = "no"]
      <3>1. UNCHANGED <<Line!line, hung, reader, Line!rings, setup, bring, pipe, busy, claims>>
        BY DEF Line!TeardownBegins
      <3>2. Line!TypeOK'
        BY <2>1, <2>3, <3>1 DEF IInv, Line!TypeOK
      <3>3. TearInv'
        BY <2>1, <2>3, <3>1 DEF IInv, Line!TypeOK, TearInv, Line!Starters, Settling,
           Line!WaitedByReader
      <3>4. AloneInv'
        BY <2>1, <2>3, <3>1 DEF IInv, Line!TypeOK, AloneInv, Before, After, Line!Starters
      <3>5. SaidInv'
        BY <2>1, <2>3, <3>1 DEF IInv, Line!TypeOK, SaidInv
      <3>6. SetupInv' /\ PipeInv' /\ ClaimInv'
        BY <2>3, <3>1, Frames
      <3>. QED BY <3>2, <3>3, <3>4, <3>5, <3>6 DEF IInv
    <2>. QED BY <2>1, <2>2, <2>3 DEF Line!TeardownBegins, Line!CancelActive
  <1>. QED BY <1>1, <1>2, <1>3 DEF Line!Teardown

\* A pipeline, or a busy line, that ends.
LEMMA EndKeeps ==
  ASSUME None \notin Calls, IInv, NEW c \in Calls, Line!PipelineDies(c) \/ Line!BusyTaskEnds(c)
  PROVE  IInv'
  <1>. USE DEF Line!line, Line!kind, Line!rings
  <1>1. CASE Line!PipelineDies(c)
    <2>1. Line!TypeOK'
      BY ZenonT(60), <1>1 DEF IInv, Line!TypeOK, Line!PipelineDies, Line!EndFromInside
    <2>2. PipeInv'
      BY <1>1 DEF IInv, Line!TypeOK, Line!PipelineDies, Line!EndFromInside, PipeInv,
         Piped, Settling, Line!HoldsTheSlot
    <2>3. TearInv'
      BY <1>1 DEF IInv, Line!TypeOK, Line!PipelineDies, Line!EndFromInside, PipeInv,
         Line!Starters, TearInv, Settling, Line!WaitedByReader
    <2>4. AloneInv'
      BY <1>1 DEF IInv, Line!TypeOK, Line!PipelineDies, Line!EndFromInside, SetupInv,
         AloneInv, Before, After, Line!Starters
    <2>5. SaidInv'
      BY <1>1 DEF IInv, Line!TypeOK, Line!PipelineDies, Line!EndFromInside, SaidInv
    <2>6. SetupInv' /\ ClaimInv'
      BY <1>1, Frames DEF Line!PipelineDies, Line!EndFromInside
    <2>. QED BY <2>1, <2>2, <2>3, <2>4, <2>5, <2>6 DEF IInv
  <1>2. CASE Line!BusyTaskEnds(c)
    <2>1. Line!TypeOK'
      BY <1>2 DEF IInv, Line!TypeOK, Line!BusyTaskEnds
    <2>2. SetupInv' /\ PipeInv' /\ TearInv' /\ AloneInv' /\ ClaimInv' /\ SaidInv'
      BY <1>2, Frames DEF Line!BusyTaskEnds
    <2>. QED BY <2>1, <2>2 DEF IInv
  <1>. QED BY <1>1, <1>2

-----------------------------------------------------------------------------
(* The steps of the reader.                                                 *)

\* What is left to read was said before.
LEMMA TailFacts ==
  ASSUME NEW S, NEW q \in Seq(S), q # <<>>
  PROVE  /\ Tail(q) \in Seq(S) /\ Len(Tail(q)) = Len(q) - 1
         /\ \A i \in DOMAIN Tail(q) : i + 1 \in DOMAIN q /\ Tail(q)[i] = q[i + 1]
         /\ 1 \in DOMAIN q /\ Head(q) = q[1] /\ Head(q) \in S
  OBVIOUS

\* A message read changes nothing of what was said.
LEMMA HearingIsHarmless ==
  ASSUME IInv, NEW c \in Calls, NEW what, Line!Hears(what, c)
  PROVE  /\ inbox' \in Seq(Line!Messages) /\ SaidInv' /\ UNCHANGED <<overlap, autoAnswer>>
         /\ what = "disconnected" => gw[c] = "gone"
  <1>1. inbox \in Seq(Line!Messages) /\ inbox # <<>>
    BY DEF IInv, Line!TypeOK, Line!Hears
  <1>2. inbox' \in Seq(Line!Messages)
    BY <1>1, TailFacts DEF Line!Hears
  <1>3. \A i \in DOMAIN inbox' : i + 1 \in DOMAIN inbox /\ inbox'[i] = inbox[i + 1]
    BY <1>1, TailFacts DEF Line!Hears
  <1>4. SaidInv'
    BY <1>3 DEF IInv, SaidInv, Line!Hears
  <1>5. what = "disconnected" => gw[c] = "gone"
    BY <1>1, TailFacts DEF IInv, SaidInv, Line!Hears
  <1>6. UNCHANGED <<overlap, autoAnswer>>
    BY DEF Line!Hears, Line!kind
  <1>. QED BY <1>2, <1>4, <1>5, <1>6

\* A bring-up that is cancelled is over, and its ask has no claim any more.
LEMMA Cancelling ==
  ASSUME IInv, NEW cs \in SUBSET Calls, Line!CancelSetup(cs)
  PROVE  /\ bring' \in [Calls -> {"none", "waiting", "asking", "building", "headstart",
                          "confirming", "greeting", "confirmingBusy", "busyLine",
                          "ending", "over"}]
         /\ setup' \in Calls \cup {None}
         /\ setup' = IF setup \in cs THEN None ELSE setup
         /\ \A d \in Calls : bring'[d] = IF setup = d /\ d \in cs THEN "over" ELSE bring[d]
         /\ \A d \in Line!AbandonedAsks(cs) : setup = d /\ d \in cs /\ bring[d] = "asking"
  <1>1. Line!Cancelled(cs) = IF setup \in cs THEN {setup} ELSE {}
    BY DEF Line!Cancelled
  <1>. QED BY <1>1 DEF IInv, Line!TypeOK, Line!CancelSetup, Line!AbandonedAsks

\* A call begins: the bring-up before it is cancelled, and its own is waiting.
LEMMA Beginning ==
  ASSUME None \notin Calls, IInv, NEW c \in Calls, NEW upto \in BOOLEAN, Line!BeginCall(c, upto)
  PROVE  /\ bring' \in [Calls -> {"none", "waiting", "asking", "building", "headstart",
                          "confirming", "greeting", "confirmingBusy", "busyLine",
                          "ending", "over"}]
         /\ setup' = c /\ bring'[c] = "waiting"
         /\ \A d \in Calls : d # c => bring'[d] = IF setup = d THEN "over" ELSE bring[d]
         /\ \A d \in Calls : d # c => bring'[d] \notin Before \cup After
         /\ ring' = c /\ answered' \in SUBSET Calls
         /\ sent' \in SUBSET Calls /\ declined' \in SUBSET Calls
  <1>1. Line!Cancelled(Calls) = IF setup \in Calls THEN {setup} ELSE {}
    BY DEF Line!Cancelled
  <1>2. \A d \in Calls : d # c => bring'[d] = IF setup = d THEN "over" ELSE bring[d]
    BY <1>1 DEF Line!BeginCall
  <1>3. \A d \in Calls : d # c => bring'[d] \notin Before \cup After
    BY <1>2 DEF IInv, SetupInv, Before, After
  <1>. QED BY <1>2, <1>3 DEF IInv, Line!TypeOK, Line!BeginCall

\* start_call, for any message that has it begin a call.
LEMMA StartKeeps ==
  ASSUME None \notin Calls, IInv, NEW c \in Calls, NEW upto \in BOOLEAN, NEW what,
         Line!Hears(what, c), Line!StartCall(c, upto)
  PROVE  IInv'
  <1>. USE DEF Line!rings
  <1>0. /\ reader = Line!Reading /\ UNCHANGED <<gw, hung, pipe, tear, busy>>
        /\ claims' = claims \ Line!AbandonedAsks(Calls)
    BY DEF Line!Hears, Line!StartCall
  <1>1. inbox' \in Seq(Line!Messages) /\ SaidInv' /\ UNCHANGED <<overlap, autoAnswer>>
    BY HearingIsHarmless
  <1>2. CASE active = None /\ Line!BeginCall(c, upto) /\ UNCHANGED <<reader, active, down>>
    <2>1. Line!TypeOK'
      BY <1>0, <1>1, <1>2, Beginning DEF IInv, Line!TypeOK
    <2>2. SetupInv'
      BY <1>2, Beginning DEF SetupInv, Before, After
    <2>3. PipeInv'
      BY <1>0, <1>2, Frames
    <2>4. TearInv'
      BY <1>0, <1>2 DEF IInv, TearInv, Line!Reading, Line!Closed, Settling,
         Line!WaitedByReader
    <2>5. AloneInv'
      BY <1>0, <1>2, Beginning DEF AloneInv, Before, After
    <2>6. ClaimInv'
      <3>1. \A d \in Calls : d # c => bring'[d] \notin {"asking", "building"}
        BY <1>2, Beginning DEF Before
      <3>2. bring'[c] \notin {"asking", "building"}
        BY <1>2, Beginning
      <3>3. \A d \in Calls : Settling(d) => d \notin Line!AbandonedAsks(Calls)
        BY <1>0, NobodyHolds DEF Line!AbandonedAsks, Line!Cancelled, Before
      <3>. QED BY <1>0, <1>2, <3>1, <3>2, <3>3 DEF IInv, ClaimInv, Piped, Settling, Line!Reading, Line!Closed
    <2>. QED BY <1>1, <2>1, <2>2, <2>3, <2>4, <2>5, <2>6 DEF IInv
  <1>3. CASE /\ Line!CancelActive(Calls) /\ Line!CancelSetup(Calls)
             /\ reader' = [at |-> "down", old |-> active,
                           job |-> [at |-> "start", call |-> c, up |-> upto]]
             /\ UNCHANGED Line!rings
    <2>1. Line!TypeOK'
      BY <1>0, <1>1, <1>3, Cancelling DEF IInv, Line!TypeOK, Line!CancelActive,
         Line!Readers, Line!Jobs
    <2>2. SetupInv'
      BY SMTT(30), <1>3, Cancelling DEF IInv, Line!TypeOK, SetupInv, Line!CancelActive,
         Before, After
    <2>3. PipeInv'
      BY <1>0, <1>3 DEF IInv, Line!TypeOK, PipeInv, Line!CancelActive, Piped, Settling,
         Line!HoldsTheSlot
    <2>4. TearInv'
      BY <1>0, <1>3, Cancelling DEF IInv, Line!TypeOK, PipeInv, TearInv,
         Line!CancelActive, Line!Reading, Line!Closed,
                                    Piped, Settling, Line!WaitedByReader
    <2>5. AloneInv'
      BY <1>0, <1>3, Cancelling DEF IInv, AloneInv, Before, After
    <2>6. ClaimInv'
      <3>1. Line!AbandonedAsks(Calls) = {}
        BY <1>3 DEF IInv, SetupInv, Line!AbandonedAsks, Line!Cancelled, Line!CancelActive,
           After
      <3>. QED BY <1>0, <1>3, <3>1, Cancelling DEF IInv, Line!TypeOK, ClaimInv, Line!CancelActive, Piped,
                                                   Settling, Line!Reading, Line!Closed
    <2>. QED BY <1>1, <2>1, <2>2, <2>3, <2>4, <2>5, <2>6 DEF IInv
  <1>. QED BY <1>2, <1>3 DEF Line!StartCall

\* disconnected, with the claim it lets go of.
LEMMA DisconnectedKeeps ==
  ASSUME None \notin Calls, IInv, NEW c \in Calls, Line!Disconnected(c)
  PROVE  IInv'
  <1>. USE DEF Line!rings
  <1>0. /\ reader = Line!Reading /\ UNCHANGED <<gw, hung, pipe, tear>>
        /\ Line!CancelSetup({c}) /\ {c} \in SUBSET Calls
    BY DEF Line!Disconnected, Line!Hears
  <1>1. inbox' \in Seq(Line!Messages) /\ SaidInv' /\ UNCHANGED <<overlap, autoAnswer>>
    BY HearingIsHarmless DEF Line!Disconnected
  <1>2. AloneInv'
    BY <1>0, Cancelling DEF IInv, AloneInv, Before, After
  <1>3. CASE /\ Line!CancelActive({c})
             /\ reader' = [at |-> "down", old |-> c, job |-> [at |-> "hangup", call |-> c]]
             /\ claims' = claims \ Line!AbandonedAsks({c})
             /\ UNCHANGED <<Line!rings, busy>>
    <2>0. active = c /\ active' = None /\ down' = [down EXCEPT ![c] = "runner"]
      BY <1>3 DEF Line!CancelActive
    <2>1. Line!TypeOK'
      BY <1>0, <1>1, <1>3, <2>0, Cancelling DEF IInv, Line!TypeOK, Line!Readers, Line!Jobs
    <2>2. SetupInv'
      BY <1>0, <2>0, Cancelling DEF IInv, Line!TypeOK, SetupInv, Before, After
    <2>3. PipeInv'
      BY <1>0, <2>0 DEF IInv, Line!TypeOK, PipeInv, Piped, Settling, Line!HoldsTheSlot
    <2>4. TearInv'
      <3>1. setup' = None
        BY <1>0, <2>0, Cancelling DEF IInv, Line!TypeOK, SetupInv
      <3>2. reader'.at = "down" /\ reader'.old = c /\ reader' # Line!Closed
        BY <1>3 DEF Line!Closed
      <3>3. \A d \in Calls : Settling(d)' <=> d = c
        BY <2>0 DEF IInv, Line!TypeOK, PipeInv, Piped, Settling
      <3>. QED BY <1>0, <2>0, <3>1, <3>2, <3>3 DEF IInv, PipeInv, TearInv, Piped, Line!WaitedByReader, Settling
    <2>6. ClaimInv'
      <3>1. Line!AbandonedAsks({c}) = {}
        BY <2>0 DEF IInv, SetupInv, Line!AbandonedAsks, Line!Cancelled, After
      <3>2. claims' = claims /\ reader # Line!Closed
        BY <1>0, <1>3, <3>1 DEF Line!Reading, Line!Closed
      <3>3. \A d \in Calls : bring'[d] \in {"asking", "building"} => bring[d] = bring'[d]
        BY <1>0, Cancelling
      <3>4. \A d \in Calls : Piped(d)' => Piped(d)
        BY <2>0 DEF IInv, Line!TypeOK, Piped, Settling
      <3>. QED BY <3>2, <3>3, <3>4 DEF IInv, ClaimInv
    <2>. QED BY <1>1, <1>2, <2>1, <2>2, <2>3, <2>4, <2>6 DEF IInv
  <1>4. CASE /\ active # c /\ Line!Forget(c)
             /\ claims' = claims \ (Line!AbandonedAsks({c}) \cup Line!LetGoUnpiped(c))
             /\ UNCHANGED <<reader, active, down>>
    <2>1. Line!TypeOK'
      BY <1>0, <1>1, <1>4, Cancelling DEF IInv, Line!TypeOK, Line!Forget
    <2>2. SetupInv'
      BY SMTT(30), <1>0, <1>4, Cancelling DEF IInv, Line!TypeOK, SetupInv, Before, After
    <2>3. PipeInv'
      BY <1>0, <1>4, Frames
    <2>4. TearInv'
      BY <1>0, <1>4 DEF IInv, TearInv, Line!Reading, Line!Closed, Settling,
         Line!WaitedByReader
    <2>6. ClaimInv'
      <3>1. ASSUME NEW d \in Calls, Settling(d)
            PROVE  d \notin Line!AbandonedAsks({c}) \cup Line!LetGoUnpiped(c)
        <4>1. d \notin Line!AbandonedAsks({c})
          BY <3>1, NobodyHolds DEF Line!AbandonedAsks, Line!Cancelled, Before
        <4>2. ~Line!WaitedByReader(d)
          BY <1>0 DEF Line!Reading, Line!WaitedByReader
        <4>3. Line!Teardowns(d) # {}
          BY <3>1, <4>2 DEF IInv, TearInv, Line!Teardowns
        <4>. QED BY <4>1, <4>3 DEF Line!LetGoUnpiped
      <3>2. \A d \in Calls : active = d => d \notin Line!AbandonedAsks({c}) \cup Line!LetGoUnpiped(c)
        BY <1>4 DEF IInv, SetupInv, Line!AbandonedAsks, Line!Cancelled, Line!LetGoUnpiped,
           After
      <3>3. \A d \in Calls : bring'[d] \in {"asking", "building"} =>
              bring[d] = bring'[d] /\ d \notin Line!AbandonedAsks({c}) \cup Line!LetGoUnpiped(c)
        BY <1>0, Cancelling DEF IInv, SetupInv, Line!AbandonedAsks, Line!Cancelled,
           Line!LetGoUnpiped, Before
      <3>. QED BY <1>0, <1>4, <3>1, <3>2, <3>3 DEF IInv, ClaimInv, Piped, Settling, Line!Reading, Line!Closed
    <2>. QED BY <1>1, <1>2, <2>1, <2>2, <2>3, <2>4, <2>6 DEF IInv
  <1>. QED BY <1>3, <1>4 DEF Line!Disconnected

\* The pipeline the reader waited for is gone, and it goes on with its job.
LEMMA ReaderSettledKeeps ==
  ASSUME None \notin Calls, IInv, NEW c \in Calls, Line!ReaderSettled(c)
  PROVE  IInv'
  <1>. USE DEF Line!rings, Line!line, Line!kind
  <1>. DEFINE job == reader.job
  <1>0. /\ down[c] = "settle" /\ down' = [down EXCEPT ![c] = "done"]
        /\ reader.at = "down" /\ reader.old = c
        /\ UNCHANGED <<overlap, autoAnswer, gw, inbox, hung, active, pipe, tear>>
    BY DEF Line!ReaderSettled, Line!WaitedByReader
  <1>1. setup = None /\ active = None /\ job \in Line!Jobs
    BY <1>0 DEF IInv, Line!TypeOK, TearInv, Line!Readers, Line!Reading, Line!Closed
  <1>2. \A d \in Calls : ~Settling(d)' /\ (Settling(d) => d = c)
    BY <1>0 DEF IInv, Line!TypeOK, PipeInv, Piped, Settling
  <1>3. PipeInv'
    BY <1>0, <1>1, <1>2 DEF IInv, Line!TypeOK, PipeInv, Piped, Settling, Line!HoldsTheSlot
  <1>4. SaidInv'
    BY <1>0 DEF IInv, SaidInv
  <1>5. \A d \in Calls : bring[d] \notin Before \cup After
    BY <1>1 DEF IInv, SetupInv
  <1>6. \A t \in Calls \X Line!Starters : tear[t] # "running"
    BY <1>0 DEF IInv, TearInv
  <1>7. CASE job.at = "start" /\ Line!BeginCall(job.call, job.up) /\ reader' = Line!Reading
             /\ claims' = claims \ {c} /\ UNCHANGED busy
    <2>0. job.call \in Calls /\ job.up \in BOOLEAN
      BY <1>1, <1>7 DEF Line!Jobs
    <2>1. Line!TypeOK'
      BY <1>0, <1>7, <2>0, Beginning DEF IInv, Line!TypeOK, Line!Readers
    <2>2. SetupInv'
      BY <1>0, <1>1, <1>7, <2>0, Beginning DEF SetupInv, Before, After
    <2>4. TearInv'
      BY <1>0, <1>2, <1>6, <1>7, <2>0, Beginning DEF TearInv, Line!Reading, Line!Closed
    <2>5. AloneInv'
      BY <1>0, <1>7, <2>0, Beginning DEF AloneInv, Before, After
    <2>6. ClaimInv'
      BY <1>0, <1>1, <1>2, <1>7, <2>0, Beginning DEF ClaimInv, Piped, Before
    <2>. QED BY <1>3, <1>4, <2>1, <2>2, <2>4, <2>5, <2>6 DEF IInv
  <1>8. CASE job.at = "hangup" /\ Line!Forget(c) /\ reader' = Line!Reading
             /\ claims' = claims \ {c} /\ UNCHANGED <<setup, bring>>
    <2>1. Line!TypeOK'
      BY <1>0, <1>8 DEF IInv, Line!TypeOK, Line!Readers, Line!Forget
    <2>2. SetupInv' /\ AloneInv'
      BY <1>0, <1>8, Frames
    <2>4. TearInv'
      BY <1>0, <1>2, <1>6, <1>8 DEF TearInv, Line!Reading, Line!Closed
    <2>6. ClaimInv'
      BY <1>0, <1>1, <1>2, <1>5, <1>8 DEF ClaimInv, Piped, Before
    <2>. QED BY <1>3, <1>4, <2>1, <2>2, <2>4, <2>6 DEF IInv
  <1>9. CASE job.at = "close" /\ Line!CloseLine /\ UNCHANGED <<Line!rings, setup, bring>>
    <2>1. Line!TypeOK'
      BY <1>0, <1>9 DEF IInv, Line!TypeOK, Line!Readers, Line!CloseLine
    <2>2. SetupInv' /\ AloneInv'
      BY <1>0, <1>9, Frames
    <2>4. TearInv'
      BY <1>0, <1>1, <1>2, <1>6, <1>9 DEF TearInv, Line!CloseLine, Line!Closed
    <2>6. ClaimInv'
      BY <1>9 DEF ClaimInv, Line!CloseLine, Line!Closed
    <2>. QED BY <1>3, <1>4, <2>1, <2>2, <2>4, <2>6 DEF IInv
  <1>. QED BY <1>7, <1>8, <1>9 DEF Line!ReaderSettled

\* The line is gone: the bring-up in flight and the pipeline go with it.
LEMMA EofKeeps ==
  ASSUME None \notin Calls, IInv, Line!Eof
  PROVE  IInv'
  <1>. USE DEF Line!rings, Line!line, Line!kind
  <1>0. /\ reader = Line!Reading /\ Line!CancelSetup(Calls)
        /\ UNCHANGED <<overlap, autoAnswer, gw, inbox, hung, pipe, tear>>
    BY DEF Line!Eof
  <1>1. SaidInv'
    BY <1>0, Frames
  <1>2. AloneInv'
    BY <1>0, Cancelling DEF IInv, AloneInv, Before, After
  <1>3. setup' = None
    BY <1>0, Cancelling DEF IInv, Line!TypeOK
  <1>4. CASE /\ Line!CancelActive(Calls)
             /\ reader' = [at |-> "down", old |-> active, job |-> [at |-> "close"]]
             /\ claims' = claims \ Line!AbandonedAsks(Calls) /\ UNCHANGED <<busy, Line!rings>>
    <2>1. Line!TypeOK'
      BY <1>0, <1>4, Cancelling DEF IInv, Line!TypeOK, Line!CancelActive, Line!Readers,
         Line!Jobs
    <2>2. SetupInv'
      BY <1>0, <1>4, Cancelling DEF IInv, Line!TypeOK, SetupInv, Line!CancelActive,
         Before, After
    <2>3. PipeInv'
      BY <1>0, <1>4 DEF IInv, Line!TypeOK, PipeInv, Line!CancelActive, Piped, Settling,
         Line!HoldsTheSlot
    <2>4. TearInv'
      BY <1>0, <1>3, <1>4 DEF IInv, Line!TypeOK, PipeInv, TearInv, Line!CancelActive,
         Line!Reading, Line!Closed,
                              Piped, Settling, Line!WaitedByReader
    <2>6. ClaimInv'
      <3>1. Line!AbandonedAsks(Calls) = {}
        BY <1>4 DEF IInv, SetupInv, Line!AbandonedAsks, Line!Cancelled, Line!CancelActive,
           After
      <3>. QED BY <1>0, <1>4, <3>1, Cancelling DEF IInv, Line!TypeOK, ClaimInv, Line!CancelActive, Piped,
                                                   Settling, Line!Reading, Line!Closed
    <2>. QED BY <1>1, <1>2, <2>1, <2>2, <2>3, <2>4, <2>6 DEF IInv
  <1>5. CASE active = None /\ Line!CloseLine /\ UNCHANGED <<active, down, Line!rings>>
    <2>1. Line!TypeOK'
      BY <1>0, <1>5, Cancelling DEF IInv, Line!TypeOK, Line!CloseLine, Line!Readers
    <2>2. SetupInv'
      BY <1>0, <1>3, <1>5, Cancelling DEF IInv, Line!TypeOK, SetupInv, Before, After
    <2>3. PipeInv'
      BY <1>0, <1>5, Frames
    <2>4. TearInv'
      BY <1>0, <1>3, <1>5 DEF IInv, TearInv, Line!CloseLine, Line!Reading, Line!Closed,
         Settling, Line!WaitedByReader
    <2>6. ClaimInv'
      BY <1>5 DEF ClaimInv, Line!CloseLine, Line!Closed
    <2>. QED BY <1>1, <1>2, <2>1, <2>2, <2>3, <2>4, <2>6 DEF IInv
  <1>. QED BY <1>4, <1>5 DEF Line!Eof

\* The reader.
LEMMA ReaderKeeps ==
  ASSUME None \notin Calls, IInv, NEW c \in Calls, Line!Reader(c)
  PROVE  IInv'
  <1>1. CASE Line!Incoming(c)
    <2>1. CASE Line!RingsOver(c) /\ Line!Hears("incoming", c) /\
               UNCHANGED <<reader, Line!rings, setup, bring, active, down, busy, claims>>
      <3>1. inbox' \in Seq(Line!Messages) /\ SaidInv' /\ UNCHANGED <<overlap, autoAnswer>>
        BY <2>1, HearingIsHarmless
      <3>2. Line!TypeOK'
        BY <2>1, <3>1 DEF IInv, Line!TypeOK, Line!Hears, Line!rings
      <3>. QED BY <2>1, <3>1, <3>2, Frames DEF IInv, Line!Hears
    <2>2. CASE Line!Hears("incoming", c) /\ Line!StartCall(c, FALSE)
      BY <2>2, StartKeeps
    <2>. QED BY <1>1, <2>1, <2>2 DEF Line!Incoming
  <1>2. CASE Line!Confirmed(c)
    <2>1. CASE /\ Line!Hears("confirmed", c)
               /\ answered' = answered \cup {c}
               /\ busy' = IF c \in declined \ answered THEN busy \cup {c} ELSE busy
               /\ UNCHANGED <<reader, ring, sent, declined, setup, bring, active, down, claims>>
      <3>1. inbox' \in Seq(Line!Messages) /\ SaidInv' /\ UNCHANGED <<overlap, autoAnswer>>
        BY <2>1, HearingIsHarmless
      <3>2. Line!TypeOK'
        BY <2>1, <3>1 DEF IInv, Line!TypeOK, Line!Hears
      <3>. QED BY <2>1, <3>1, <3>2, Frames DEF IInv, Line!Hears
    <2>2. CASE Line!Hears("confirmed", c) /\ Line!StartCall(c, TRUE)
      BY <2>2, StartKeeps
    <2>. QED BY <1>2, <2>1, <2>2 DEF Line!Confirmed
  <1>. QED BY <1>1, <1>2, DisconnectedKeeps, ReaderSettledKeeps DEF Line!Reader

-----------------------------------------------------------------------------
(* The invariant, and what it shows.                                        *)

\* Every step of the line keeps it.
LEMMA NextKeeps ==
  ASSUME None \notin Calls, IInv, [Line!Next]_Line!vars
  PROVE  IInv'
  <1>1. CASE UNCHANGED Line!vars
    BY <1>1, Frames DEF Line!vars, Line!line, Line!kind, IInv, Line!TypeOK
  <1>. QED BY <1>1, GatewayKeeps, ReaderKeeps, BringUpKeeps, TeardownKeeps, EndKeeps, EofKeeps
           DEF Line!Next, Line!AllOver

\* A brain started afresh, or under a call that is up, has it.
LEMMA InitHas == None \notin Calls /\ Line!Init => IInv
  <1>. SUFFICES ASSUME None \notin Calls, Line!Init PROVE IInv
    OBVIOUS
  <1>1. inbox \in Seq(Line!Messages) /\ \A i \in DOMAIN inbox : inbox[i].what # "disconnected"
    <2>1. ASSUME NEW c \in Calls, inbox = <<[what |-> "confirmed", call |-> c]>>
          PROVE  inbox \in Seq(Line!Messages) /\ \A i \in DOMAIN inbox : inbox[i].what # "disconnected"
      <3>1. [what |-> "confirmed", call |-> c] \in Line!Messages
        BY DEF Line!Messages
      <3>2. Len(inbox) = 1 /\ inbox[1] = [what |-> "confirmed", call |-> c]
        BY <2>1
      <3>. QED BY <2>1, <3>1, <3>2
    <2>2. <<>> \in Seq(Line!Messages) /\ DOMAIN <<>> = {}
      OBVIOUS
    <2>. QED BY <2>1, <2>2 DEF Line!Init
  <1>2. Line!TypeOK
    BY <1>1 DEF Line!Init, Line!TypeOK, Line!Readers
  <1>3. SaidInv
    BY <1>1 DEF Line!Init, SaidInv
  <1>4. SetupInv /\ PipeInv /\ TearInv /\ AloneInv /\ ClaimInv
    BY DEF Line!Init, SetupInv, PipeInv, TearInv, AloneInv, ClaimInv, Before, After,
       Piped, Settling,
           Line!HoldsTheSlot, Line!Reading, Line!Closed
  <1>. QED BY <1>2, <1>3, <1>4 DEF IInv

\* The invariant holds of every behaviour.
(* Of the parts of the box, the line goes its own way. *)
LEMMA LineAlone == [Next]_vars => [Line!Next]_Line!vars
BY DEF Next, HeldGoes, LineGoes, PairGoes, DeviceGoes, KeyGoes, PhoneGoes, WifiGoes,
   EngineGoes, VenvsGoes, heldOnly, pairOnly, deviceOnly, keyOnly, phoneOnly, wifiOnly,
   engineOnly, venvsOnly, vars, lineVars, Line!vars, Line!line, Line!kind, Line!rings

\* So they hold throughout.
LEMMA IInvHolds == ASSUME None \notin Calls PROVE Spec => []IInv
  <1>1. Init => IInv
    BY InitHas DEF Init
  <1>2. IInv /\ [Next]_vars => IInv'
    BY NextKeeps, LineAlone
  <1>. QED BY <1>1, <1>2, PTL DEF Spec

\* The variables of the line keep their types.
THEOREM TypeHolds == ASSUME None \notin Calls PROVE Spec => []Line!TypeOK
  BY IInvHolds, PTL DEF IInv

(* Whatever the gateway sends and whenever it arrives: a pipeline that can  *)
(* hold the engine's STT slot runs under its call's claim                   *)
(* (cancel_active_call lets it go after the runner, and nothing before it). *)
THEOREM TheSlotIsClaimed == ASSUME None \notin Calls PROVE Spec => []Line!SlotIsClaimed
  <1>1. IInv => Line!SlotIsClaimed
    BY DEF IInv, PipeInv, ClaimInv, Line!SlotIsClaimed, Piped, Settling
  <1>. QED BY <1>1, IInvHolds, PTL

\* No two pipelines of the line hold it together (start_call evicts first).
THEOREM OneHoldsTheSlot == ASSUME None \notin Calls PROVE Spec => []Line!OnePipeline
  <1>1. IInv => Line!OnePipeline
    BY DEF IInv, PipeInv, Line!OnePipeline, Piped, Settling
  <1>. QED BY <1>1, IInvHolds, PTL

(* A running pipeline is taken down only if its call is over or being ended,*)
(* for the call that replaces it, or with the connection: a `disconnected`  *)
(* of another call, however late, leaves it alone.                          *)
THEOREM OnlyItsOwnTeardown == ASSUME None \notin Calls PROVE Spec => NoWrongTeardown
  <1>1. ASSUME IInv, [Line!Next]_Line!vars PROVE [Line!NoWrongTeardownStep]_Line!vars
    <2>. SUFFICES ASSUME Line!Next, active # None, active' = None
                  PROVE  \/ gw[active] = "gone" \/ active \in hung
                         \/ reader'.at = "down" /\ reader'.job.at \in {"start", "close"}
      BY <1>1 DEF Line!NoWrongTeardownStep
    <2>1. ASSUME NEW c \in Calls, NEW upto, Line!StartCall(c, upto)
          PROVE  reader'.at = "down" /\ reader'.job.at = "start"
      BY <2>1 DEF Line!StartCall
    <2>2. ASSUME NEW c \in Calls, Line!Disconnected(c)
          PROVE  active = c /\ gw[c] = "gone"
      BY <1>1, <2>2, HearingIsHarmless DEF Line!Disconnected, Line!CancelActive
    <2>3. ASSUME Line!Eof PROVE reader'.at = "down" /\ reader'.job.at = "close"
      BY <2>3 DEF Line!Eof
    <2>4. ASSUME NEW c \in Calls, NEW who \in Line!Starters, Line!TeardownBegins(<<c, who>>)
          PROVE  active = c /\ c \in hung
      BY <1>1, <2>4 DEF Line!TeardownBegins, Line!CancelActive, IInv, SaidInv
    <2>5. ASSUME NEW c \in Calls, Line!BringUp(c) PROVE FALSE
      BY <2>5 DEF Line!BringUp, Line!Ask, Line!Granted, Line!LeftRinging, Line!Refused,
         Line!ConfirmedBusy, Line!NeverConfirmedBusy,
                  Line!BusyLineEnds, Line!Built, Line!BuildFails, Line!Answer, Line!IsConfirmed, Line!NeverConfirmed, Line!Greeted,
                  Line!CannotTalk, Line!HasEnded, Line!EndsItsCall, IInv, SetupInv, Line!TypeOK
    <2>6. ASSUME NEW c \in Calls
          PROVE  ~Line!Gateway(c) /\ ~Line!PipelineDies(c) /\ ~Line!BusyTaskEnds(c) /\ ~Line!RunnerEnds(c)
                 /\ ~Line!Settled(c) /\ ~Line!ReaderSettled(c)
      BY DEF Line!Gateway, Line!Invite, Line!PickUp, Line!Leaves, Line!CallEnds,
         Line!PipelineDies, Line!BusyTaskEnds, Line!RunnerEnds,
             Line!Settled, Line!ReaderSettled, Line!rings, Line!line, Line!kind
    <2>7. ASSUME NEW c \in Calls, Line!Incoming(c) \/ Line!Confirmed(c)
          PROVE  reader'.at = "down" /\ reader'.job.at = "start"
      BY <2>1, <2>7 DEF Line!Incoming, Line!Confirmed
    <2>8. ~Line!AllOver
      BY DEF Line!AllOver, Line!vars
    <2>. QED BY <2>2, <2>3, <2>4, <2>5, <2>6, <2>7, <2>8 DEF Line!Next, Line!Reader, Line!Teardown
  <1>2. IInv /\ [Next]_vars => [Line!NoWrongTeardownStep]_Line!vars
    BY <1>1, LineAlone
  <1>. QED BY <1>2, IInvHolds, PTL DEF Spec, NoWrongTeardown, Line!NoWrongTeardown

-----------------------------------------------------------------------------
(* One call at a time: what a gateway that lets no call in over another's   *)
(* keeps the front-end to.                                                  *)

New(i)       == inbox[i].what \in {"incoming", "confirmed"}
IsGone(i, c) == inbox[i].what = "disconnected" /\ inbox[i].call = c
Coming(c)    == \E i \in 1..Len(inbox) : IsGone(i, c)

\* The reader has the call to begin once a teardown is over; it has begun.
Starts(c) == reader.at = "down" /\ reader.job.at = "start" /\ reader.job.call = c
Begun(c)  == bring[c] # "none"
Known(c)  == Begun(c) \/ Starts(c)

\* The call is being ended, or is over and will have been heard so by i.
EndsBefore(c, i) ==
  c \in hung \/ (gw[c] = "gone" /\ \A k \in 1..Len(inbox) : k > i => ~IsGone(k, c))

(* A call is rung or confirmed first, and gone last; that it rings is said  *)
(* once, and first of all.                                                  *)
CallInv ==
  /\ \A c \in Calls : gw[c] = "leaving" => c \in hung
  /\ \A c \in hung : Begun(c)
  /\ \A c \in Calls : Known(c) => gw[c] # "none"
  /\ \A i \in 1..Len(inbox) : gw[inbox[i].call] # "none"
  /\ \A i \in 1..Len(inbox) : gw[inbox[i].call] = "gone" =>
       \E k \in 1..Len(inbox) : k >= i /\ IsGone(k, inbox[i].call)
  /\ \A i, k \in 1..Len(inbox) :
       i < k /\ inbox[i].what = "disconnected" => inbox[i].call # inbox[k].call
  /\ \A i \in 1..Len(inbox) : inbox[i].what = "incoming" =>
       ~Known(inbox[i].call) /\ \A k \in 1..Len(inbox) : k < i => inbox[k].call # inbox[i].call

(* The calls come one after another: by the time one is heard of, the one   *)
(* before it is being ended, or has been heard to be over.                  *)
OrderInv ==
  /\ \A c, d \in Line!Carried : c = d
  /\ \A c \in Line!Carried, i \in 1..Len(inbox) : New(i) /\ inbox[i].call # c =>
       ~Known(c) /\ \A k \in 1..Len(inbox) : k < i => inbox[k].call # c
  /\ \A c \in Line!Carried, d \in Calls : Starts(d) /\ c # d => ~Begun(c)
  /\ \A c \in Calls, i \in 1..Len(inbox) :
       New(i) /\ inbox[i].call # c /\ Known(c) => EndsBefore(c, i)
  /\ \A i, k \in 1..Len(inbox) : i < k /\ New(i) /\ New(k) /\ inbox[i].call # inbox[k].call =>
       EndsBefore(inbox[i].call, k) /\ ~Known(inbox[k].call)
  /\ \A i, j, k \in 1..Len(inbox) : i < j /\ j < k /\ New(i) /\ New(j) /\ New(k)
         /\ inbox[i].call = inbox[k].call => inbox[j].call = inbox[i].call
  /\ \A c \in Calls, i \in 1..Len(inbox) :
       New(i) /\ Starts(c) /\ inbox[i].call # c => ~Begun(inbox[i].call)

\* The call heard of last is the current one, until it is over.
CurrentInv ==
  /\ \A i \in 1..Len(inbox) :
       New(i) /\ Known(inbox[i].call) => ring = inbox[i].call \/ Starts(inbox[i].call)
  /\ \A c \in Line!Carried : Known(c) => ring = c \/ Starts(c)
  /\ \A c \in Calls : Starts(c) => ~Begun(c)
  /\ ring # None => Begun(ring)
  /\ reader.at = "down" /\ reader.job.at = "hangup" =>
       gw[reader.old] = "gone" /\ \A i \in 1..Len(inbox) : inbox[i].call # reader.old

QueueInv == CallInv /\ OrderInv /\ CurrentInv

(* Whoever a bring-up, a pipeline, a claim or a busy line is for: once the  *)
(* call is gone, that it is has still to be read.                           *)
Unpiped(c) == c \in claims /\ ~Piped(c)
Engaged(c) == setup = c \/ active = c \/ Unpiped(c) \/ c \in busy \/ Starts(c)

EndingInv ==
  /\ \A c \in Calls : Engaged(c) /\ gw[c] = "gone" => Coming(c)
  /\ \A c \in Calls : setup = c \/ active = c => ring = c
  /\ \A c \in Calls : bring[c] \in Before => c \notin hung

\* A claim without a pipeline: it is asked for, built for, or was to be.
UnpipedInv ==
  \A c \in Calls : Unpiped(c) =>
    /\ c \notin hung /\ bring[c] \in {"asking", "building", "over"}
    /\ setup \in {c, None} /\ active = None /\ reader.at # "down"

(* A call that was left ringing has nothing else going on, and what is said *)
(* to it, if it is answered after all, is said to it alone.                 *)
BusyInv ==
  /\ \A c \in declined : /\ bring[c] = "over" /\ c \notin claims /\ active # c
                         /\ c \in hung => c \in answered \ busy
                         /\ ring = c => setup = None /\ active = None
  /\ \A c \in busy : /\ c \in declined \cap answered
                     /\ setup = None /\ active = None /\ reader.at # "down"

OneInv == QueueInv /\ EndingInv /\ UnpipedInv /\ BusyInv

\* The inbox and the gateway, as its messages are said one by one.
LEMMA AppendFacts ==
  ASSUME NEW S, NEW q \in Seq(S), NEW m \in S, NEW r, r = Append(q, m)
  PROVE  /\ r \in Seq(S) /\ Len(q) \in Nat /\ Len(r) = Len(q) + 1 /\ r[Len(q) + 1] = m
         /\ \A i \in 1..Len(q) : r[i] = q[i]
         /\ \A i \in 1..Len(r) : i \in 1..Len(q) \/ i = Len(q) + 1
  OBVIOUS

\* Every message is of a call.
LEMMA CallsOnly ==
  ASSUME inbox \in Seq(Line!Messages)
  PROVE  /\ Len(inbox) \in Nat
         /\ \A i \in 1..Len(inbox) : inbox[i] \in Line!Messages /\ inbox[i].call \in Calls
  <1>1. Len(inbox) \in Nat /\ \A i \in 1..Len(inbox) : inbox[i] \in Line!Messages
    OBVIOUS
  <1>. QED BY <1>1 DEF Line!Messages

(* What is neither said nor heard, nor begins a call, leaves the queue as it *)
(* is; so does forgetting the current call, once nothing more comes of it.  *)
LEMMA QuietKeeps ==
  ASSUME QueueInv, UNCHANGED <<gw, inbox>>,
         \/ UNCHANGED ring
         \/ ring' = None /\ gw[ring] = "gone" /\ \A i \in 1..Len(inbox) : inbox[i].call # ring,
         \A c \in Calls : Starts(c)' <=> Starts(c), \A c \in Calls : Begun(c)' <=> Begun(c),
         hung \subseteq hung', \A c \in hung' : c \in hung \/ Begun(c),
         hung' \subseteq Calls, ring \in Calls \cup {None},
         (reader.at = "down" /\ reader.job.at = "hangup")' => UNCHANGED reader,
         inbox \in Seq(Line!Messages)
  PROVE  QueueInv'
  <1>0. \A i \in 1..Len(inbox) : inbox[i].call \in Calls
    BY CallsOnly
  <1>1. CallInv'
    BY <1>0 DEF QueueInv, CallInv, Known, IsGone
  <1>2. OrderInv'
    BY <1>0 DEF QueueInv, OrderInv, Known, IsGone, EndsBefore, New, Line!Carried
  <1>3. CurrentInv'
    BY <1>0 DEF QueueInv, CurrentInv, Known, New, Line!Carried
  <1>. QED BY <1>1, <1>2, <1>3 DEF QueueInv

\* What the gateway says is added at the end; nobody has heard it yet.
LEMMA Saying ==
  ASSUME IInv, NEW c \in Calls, NEW what \in {"incoming", "confirmed", "disconnected"},
         Line!Says(what, c)
  PROVE  /\ inbox' \in Seq(Line!Messages) /\ Len(inbox) \in Nat /\ Len(inbox') = Len(inbox) + 1
         /\ inbox'[Len(inbox) + 1].what = what /\ inbox'[Len(inbox) + 1].call = c
         /\ \A i \in 1..Len(inbox) : inbox'[i] = inbox[i] /\ inbox[i].call \in Calls
         /\ \A i \in 1..Len(inbox') : i \in 1..Len(inbox) \/ i = Len(inbox) + 1
         /\ \A i \in 1..Len(inbox), d \in Calls : IsGone(i, d)' <=> IsGone(i, d)
         /\ \A i \in 1..Len(inbox) : New(i)' <=> New(i)
         /\ \A k \in Nat : k = Len(inbox) + 1 =>
              /\ New(k)' <=> what # "disconnected"
              /\ \A d \in Calls : IsGone(k, d)' <=> what = "disconnected" /\ d = c
  <1>. DEFINE m == [what |-> what, call |-> c]
  <1>1. m \in Line!Messages
    BY DEF Line!Messages
  <1>2. inbox \in Seq(Line!Messages) /\ inbox' = Append(inbox, m)
    BY DEF IInv, Line!TypeOK, Line!Says
  <1>3. /\ inbox' \in Seq(Line!Messages) /\ Len(inbox) \in Nat /\ Len(inbox') = Len(inbox) + 1
        /\ inbox'[Len(inbox) + 1] = m
        /\ \A i \in 1..Len(inbox) : inbox'[i] = inbox[i]
        /\ \A i \in 1..Len(inbox') : i \in 1..Len(inbox) \/ i = Len(inbox) + 1
    <2>. HIDE DEF m
    <2>. QED BY <1>1, <1>2, AppendFacts
  <1>4. \A i \in 1..Len(inbox) : inbox[i].call \in Calls
    BY <1>2, CallsOnly
  <1>5. inbox'[Len(inbox) + 1].what = what /\ inbox'[Len(inbox) + 1].call = c
    BY <1>3
  <1>. HIDE DEF m
  <1>. QED BY <1>3, <1>4, <1>5 DEF IsGone, New

\* A call rings: no other is carried, and nothing was said of it before.
LEMMA InviteKeeps ==
  ASSUME IInv, QueueInv, ~overlap, NEW c \in Calls, Line!Invite(c)
  PROVE  QueueInv'
  <1>0. Len(inbox) \in Nat
    BY CallsOnly DEF IInv, Line!TypeOK
  <1>. PICK final \in Nat : final = Len(inbox) + 1
    BY <1>0
  <1>1. /\ gw[c] = "none" /\ gw' = [gw EXCEPT ![c] = "ringing"] /\ gw \in [Calls -> {"none", "ringing", "up", "leaving", "gone"}]
        /\ \A d \in Calls : gw[d] \notin {"ringing", "up"}
        /\ UNCHANGED <<hung, reader, ring, bring>> /\ Line!Says("incoming", c)
    BY DEF Line!Invite, Line!rings, IInv, Line!TypeOK, Line!Carried
  <1>2. /\ Len(inbox) \in Nat /\ Len(inbox') = final
        /\ inbox'[final].what = "incoming" /\ inbox'[final].call = c
        /\ \A i \in 1..Len(inbox) : inbox'[i] = inbox[i] /\ inbox[i].call \in Calls
        /\ \A i \in 1..Len(inbox') : i \in 1..Len(inbox) \/ i = final
        /\ \A i \in 1..Len(inbox), d \in Calls : IsGone(i, d)' <=> IsGone(i, d)
        /\ \A i \in 1..Len(inbox) : New(i)' <=> New(i)
        /\ \A d \in Calls : ~IsGone(final, d)'
        /\ New(final)'
    BY <1>1, Saying
  <1>3. \A d \in Calls : /\ Begun(d)' <=> Begun(d)
                         /\ Starts(d)' <=> Starts(d)
                         /\ Known(d)' <=> Known(d)
    BY <1>1 DEF Begun, Starts, Known
  <1>4. /\ ~Known(c) /\ c \notin hung
        /\ \A i \in 1..Len(inbox) : inbox[i].call # c
    BY <1>1, <1>2 DEF QueueInv, CallInv, Known, Begun
  <1>5. \A d \in Calls, i \in 1..Len(inbox) : d # c /\ EndsBefore(d, i) => EndsBefore(d, i)'
    BY <1>1, <1>2 DEF EndsBefore
  <1>6. \A d \in Calls : d # c /\ gw[d] # "none" => EndsBefore(d, final)'
    BY <1>1, <1>2 DEF EndsBefore, QueueInv, CallInv
  <1>7. Line!Carried' = {c}
    BY <1>1 DEF Line!Carried
  <1>8. CallInv'
    <2>1. \A d \in Calls : gw'[d] = "leaving" => d \in hung'
      BY <1>1 DEF QueueInv, CallInv
    <2>2. \A d \in hung' : Begun(d)'
      BY <1>1, <1>3 DEF QueueInv, CallInv, Begun
    <2>3. \A d \in Calls : Known(d)' => gw'[d] # "none"
      BY <1>1, <1>3 DEF QueueInv, CallInv
    <2>4. \A i \in 1..Len(inbox') : gw'[inbox'[i].call] # "none"
      BY <1>1, <1>2 DEF QueueInv, CallInv
    <2>5. \A i \in 1..Len(inbox') : gw'[inbox'[i].call] = "gone" =>
            \E k \in 1..Len(inbox') : k >= i /\ IsGone(k, inbox[i].call)'
      <3>1. ASSUME NEW i \in 1..Len(inbox), gw'[inbox'[i].call] = "gone"
            PROVE  \E k \in 1..Len(inbox') : k >= i /\ IsGone(k, inbox[i].call)'
        <4>1. PICK k \in 1..Len(inbox) : k >= i /\ IsGone(k, inbox[i].call)
          BY <1>1, <1>2, <1>4, <3>1 DEF QueueInv, CallInv
        <4>. QED BY <1>2, <4>1
      <3>. QED BY <1>1, <1>2, <3>1
    <2>6. \A i, k \in 1..Len(inbox') :
            i < k /\ inbox'[i].what = "disconnected" => inbox'[i].call # inbox'[k].call
      BY <1>2, <1>4 DEF QueueInv, CallInv
    <2>7. \A i \in 1..Len(inbox') : inbox'[i].what = "incoming" =>
            ~Known(inbox[i].call)' /\ \A k \in 1..Len(inbox') : k < i => inbox'[k].call # inbox'[i].call
      BY <1>2, <1>3, <1>4 DEF QueueInv, CallInv
    <2>. QED BY <2>1, <2>2, <2>3, <2>4, <2>5, <2>6, <2>7 DEF CallInv
  <1>9. OrderInv'
    <2>1. \A i \in 1..Len(inbox), d \in Calls : New(i) /\ inbox[i].call # d /\ Known(d) => EndsBefore(d, i)'
      BY <1>1, <1>2, <1>4, <1>5 DEF QueueInv, OrderInv
    <2>2. \A d \in Calls : Known(d) => EndsBefore(d, final)'
      BY <1>3, <1>4, <1>6 DEF QueueInv, CallInv
    <2>3. \A d, e \in Line!Carried' : d = e
      BY <1>7
    <2>4. \A d \in Line!Carried', i \in 1..Len(inbox') : New(i)' /\ inbox'[i].call # d =>
            ~Known(d)' /\ \A k \in 1..Len(inbox') : k < i => inbox'[k].call # d
      BY <1>2, <1>3, <1>4, <1>7
    <2>5. \A d \in Line!Carried', e \in Calls : Starts(e)' /\ d # e => ~Begun(d)'
      BY <1>3, <1>4, <1>7 DEF Known
    <2>6. \A d \in Calls, i \in 1..Len(inbox') :
            New(i)' /\ inbox'[i].call # d /\ Known(d)' => EndsBefore(d, i)'
      BY <1>2, <1>3, <2>1, <2>2
    <2>7. \A i, k \in 1..Len(inbox') : i < k /\ New(i)' /\ New(k)' /\ inbox'[i].call # inbox'[k].call =>
            EndsBefore(inbox[i].call, k)' /\ ~Known(inbox[k].call)'
      <3>1. ASSUME NEW i \in 1..Len(inbox), NEW k \in 1..Len(inbox), i < k, New(i), New(k),
                   inbox[i].call # inbox[k].call
            PROVE  EndsBefore(inbox[i].call, k)' /\ ~Known(inbox[k].call)'
        <4>1. EndsBefore(inbox[i].call, k) /\ ~Known(inbox[k].call)
          BY <3>1 DEF QueueInv, OrderInv
        <4>2. inbox[i].call \in Calls /\ inbox[i].call # c /\ inbox[k].call \in Calls
          BY <1>2, <1>4
        <4>. QED BY <1>2, <1>3, <1>5, <4>1, <4>2
      <3>2. ASSUME NEW i \in 1..Len(inbox)
            PROVE  EndsBefore(inbox[i].call, final)'
        <4>1. inbox[i].call \in Calls /\ inbox[i].call # c /\ gw[inbox[i].call] # "none"
          BY <1>2, <1>4 DEF QueueInv, CallInv
        <4>. QED BY <1>2, <1>6, <4>1
      <3>3. ~Known(inbox[final].call)'
        BY <1>2, <1>3, <1>4
      <3>. QED BY <1>2, <3>1, <3>2, <3>3
    <2>8. \A i, j, k \in 1..Len(inbox') : i < j /\ j < k /\ New(i)' /\ New(j)' /\ New(k)'
            /\ inbox'[i].call = inbox'[k].call => inbox'[j].call = inbox'[i].call
      BY <1>2, <1>4 DEF QueueInv, OrderInv
    <2>9. \A d \in Calls, i \in 1..Len(inbox') :
            New(i)' /\ Starts(d)' /\ inbox'[i].call # d => ~Begun(inbox[i].call)'
      <3>1. ASSUME NEW d \in Calls, NEW i \in 1..Len(inbox), New(i), Starts(d), inbox[i].call # d
            PROVE  ~Begun(inbox[i].call)'
        BY <1>2, <1>3, <3>1 DEF QueueInv, OrderInv
      <3>2. ~Begun(inbox[final].call)'
        BY <1>2, <1>3, <1>4 DEF Known
      <3>. QED BY <1>2, <1>3, <3>1, <3>2
    <2>. QED BY <2>3, <2>4, <2>5, <2>6, <2>7, <2>8, <2>9 DEF OrderInv
  <1>10. CurrentInv'
    <2>1. \A i \in 1..Len(inbox') :
            New(i)' /\ Known(inbox[i].call)' => ring' = inbox'[i].call \/ Starts(inbox[i].call)'
      <3>1. ASSUME NEW i \in 1..Len(inbox), New(i), Known(inbox[i].call)'
            PROVE  ring' = inbox'[i].call \/ Starts(inbox[i].call)'
        BY <1>1, <1>2, <1>3, <3>1 DEF QueueInv, CurrentInv
      <3>2. ~Known(inbox[final].call)'
        BY <1>2, <1>3, <1>4
      <3>. QED BY <1>2, <3>1, <3>2
    <2>2. \A d \in Line!Carried' : Known(d)' => ring' = d \/ Starts(d)'
      BY <1>3, <1>4, <1>7
    <2>3. \A d \in Calls : Starts(d)' => ~Begun(d)'
      BY <1>3 DEF QueueInv, CurrentInv
    <2>4. ring' # None => Begun(ring)'
      BY <1>1 DEF QueueInv, CurrentInv, Begun
    <2>5. reader'.at = "down" /\ reader'.job.at = "hangup" =>
            gw'[reader'.old] = "gone" /\ \A i \in 1..Len(inbox') : inbox'[i].call # reader'.old
      <3>1. reader.at = "down" => reader.old \in Calls
        BY OldIsACall
      <3>. QED BY <1>1, <1>2, <3>1 DEF QueueInv, CurrentInv
    <2>. QED BY <2>1, <2>2, <2>3, <2>4, <2>5 DEF CurrentInv
  <1>. QED BY <1>8, <1>9, <1>10 DEF QueueInv

\* A call is answered: it is the one the gateway carries, and the last said.
LEMMA PickUpKeeps ==
  ASSUME IInv, QueueInv, NEW c \in Calls, Line!PickUp(c)
  PROVE  QueueInv'
  <1>0. Len(inbox) \in Nat
    BY CallsOnly DEF IInv, Line!TypeOK
  <1>. PICK final \in Nat : final = Len(inbox) + 1
    BY <1>0
  <1>1. /\ gw[c] = "ringing" /\ gw' = [gw EXCEPT ![c] = "up"]
        /\ gw \in [Calls -> {"none", "ringing", "up", "leaving", "gone"}]
        /\ UNCHANGED <<hung, reader, ring, bring>> /\ Line!Says("confirmed", c)
    BY DEF Line!PickUp, Line!rings, IInv, Line!TypeOK
  <1>2. /\ Len(inbox) \in Nat /\ Len(inbox') = final
        /\ inbox'[final].what = "confirmed" /\ inbox'[final].call = c
        /\ \A i \in 1..Len(inbox) : inbox'[i] = inbox[i] /\ inbox[i].call \in Calls
        /\ \A i \in 1..Len(inbox') : i \in 1..Len(inbox) \/ i = final
        /\ \A i \in 1..Len(inbox), d \in Calls : IsGone(i, d)' <=> IsGone(i, d)
        /\ \A i \in 1..Len(inbox) : New(i)' <=> New(i)
        /\ \A d \in Calls : ~IsGone(final, d)'
        /\ New(final)'
    BY <1>1, Saying
  <1>3. \A d \in Calls : /\ Begun(d)' <=> Begun(d)
                         /\ Starts(d)' <=> Starts(d)
                         /\ Known(d)' <=> Known(d)
    BY <1>1 DEF Begun, Starts, Known
  <1>4. Line!Carried = {c} /\ Line!Carried' = {c}
    BY <1>1 DEF Line!Carried, QueueInv, OrderInv
  <1>5. \A d \in Calls, i \in 1..Len(inbox) : EndsBefore(d, i) => EndsBefore(d, i)'
    BY <1>1, <1>2 DEF EndsBefore
  <1>6. \A d \in Calls : d # c /\ gw[d] # "none" => EndsBefore(d, final)'
    <2>1. \A d \in Calls : d # c /\ gw[d] # "none" => d \in hung \/ gw[d] = "gone"
      BY <1>1, <1>4 DEF QueueInv, CallInv, Line!Carried
    <2>. QED BY <1>1, <1>2, <2>1 DEF EndsBefore
  <1>7. \A i \in 1..Len(inbox) : inbox[i].call = c => inbox[i].what # "disconnected"
    BY <1>1, <1>2 DEF IInv, SaidInv
  <1>8. CallInv'
    <2>1. \A d \in Calls : gw'[d] = "leaving" => d \in hung'
      BY <1>1 DEF QueueInv, CallInv
    <2>2. \A d \in hung' : Begun(d)'
      BY <1>1, <1>3 DEF QueueInv, CallInv, Begun
    <2>3. \A d \in Calls : Known(d)' => gw'[d] # "none"
      BY <1>1, <1>3 DEF QueueInv, CallInv
    <2>4. \A i \in 1..Len(inbox') : gw'[inbox'[i].call] # "none"
      BY <1>1, <1>2 DEF QueueInv, CallInv
    <2>5. \A i \in 1..Len(inbox') : gw'[inbox'[i].call] = "gone" =>
            \E k \in 1..Len(inbox') : k >= i /\ IsGone(k, inbox[i].call)'
      <3>1. ASSUME NEW i \in 1..Len(inbox), gw'[inbox'[i].call] = "gone"
            PROVE  \E k \in 1..Len(inbox') : k >= i /\ IsGone(k, inbox[i].call)'
        <4>1. PICK k \in 1..Len(inbox) : k >= i /\ IsGone(k, inbox[i].call)
          BY <1>1, <1>2, <3>1 DEF QueueInv, CallInv
        <4>. QED BY <1>2, <4>1
      <3>. QED BY <1>1, <1>2, <3>1
    <2>6. \A i, k \in 1..Len(inbox') :
            i < k /\ inbox'[i].what = "disconnected" => inbox'[i].call # inbox'[k].call
      BY <1>2, <1>7 DEF QueueInv, CallInv
    <2>7. \A i \in 1..Len(inbox') : inbox'[i].what = "incoming" =>
            ~Known(inbox[i].call)' /\ \A k \in 1..Len(inbox') : k < i => inbox'[k].call # inbox'[i].call
      BY <1>2, <1>3 DEF QueueInv, CallInv
    <2>. QED BY <2>1, <2>2, <2>3, <2>4, <2>5, <2>6, <2>7 DEF CallInv
  <1>9. OrderInv'
    <2>1. \A i \in 1..Len(inbox), d \in Calls : New(i) /\ inbox[i].call # d /\ Known(d) => EndsBefore(d, i)'
      BY <1>1, <1>2, <1>5 DEF QueueInv, OrderInv
    <2>2. \A d \in Calls : d # c /\ Known(d) => EndsBefore(d, final)'
      BY <1>3, <1>6 DEF QueueInv, CallInv
    <2>3. \A d, e \in Line!Carried' : d = e
      BY <1>4
    <2>10. \A i \in 1..Len(inbox) : New(i) /\ inbox[i].call # c =>
             ~Known(c) /\ \A k \in 1..Len(inbox) : k < i => inbox[k].call # c
      BY <1>4 DEF QueueInv, OrderInv
    <2>4. \A d \in Line!Carried', i \in 1..Len(inbox') : New(i)' /\ inbox'[i].call # d =>
            ~Known(d)' /\ \A k \in 1..Len(inbox') : k < i => inbox'[k].call # d
      BY <1>2, <1>3, <1>4, <2>10
    <2>5. \A d \in Line!Carried', e \in Calls : Starts(e)' /\ d # e => ~Begun(d)'
      BY <1>3, <1>4 DEF QueueInv, OrderInv
    <2>6. \A d \in Calls, i \in 1..Len(inbox') :
            New(i)' /\ inbox'[i].call # d /\ Known(d)' => EndsBefore(d, i)'
      BY <1>2, <1>3, <2>1, <2>2
    <2>7. \A i, k \in 1..Len(inbox') : i < k /\ New(i)' /\ New(k)' /\ inbox'[i].call # inbox'[k].call =>
            EndsBefore(inbox[i].call, k)' /\ ~Known(inbox[k].call)'
      <3>1. ASSUME NEW i \in 1..Len(inbox), NEW k \in 1..Len(inbox), i < k, New(i), New(k),
                   inbox[i].call # inbox[k].call
            PROVE  EndsBefore(inbox[i].call, k)' /\ ~Known(inbox[k].call)'
        <4>1. EndsBefore(inbox[i].call, k) /\ ~Known(inbox[k].call)
          BY <3>1 DEF QueueInv, OrderInv
        <4>2. inbox[i].call \in Calls /\ inbox[k].call \in Calls
          BY <1>2
        <4>. QED BY <1>2, <1>3, <1>5, <4>1, <4>2
      <3>2. ASSUME NEW i \in 1..Len(inbox), New(i), inbox[i].call # c
            PROVE  EndsBefore(inbox[i].call, final)' /\ ~Known(inbox[final].call)'
        <4>1. inbox[i].call \in Calls /\ gw[inbox[i].call] # "none"
          BY <1>2 DEF QueueInv, CallInv
        <4>. QED BY <1>2, <1>3, <1>6, <2>10, <3>2, <4>1
      <3>. QED BY <1>2, <3>1, <3>2
    <2>8. \A i, j, k \in 1..Len(inbox') : i < j /\ j < k /\ New(i)' /\ New(j)' /\ New(k)'
            /\ inbox'[i].call = inbox'[k].call => inbox'[j].call = inbox'[i].call
      BY SMTT(30), <1>2, <2>10 DEF QueueInv, OrderInv
    <2>9. \A d \in Calls, i \in 1..Len(inbox') :
            New(i)' /\ Starts(d)' /\ inbox'[i].call # d => ~Begun(inbox[i].call)'
      <3>1. ASSUME NEW d \in Calls, NEW i \in 1..Len(inbox), New(i), Starts(d), inbox[i].call # d
            PROVE  ~Begun(inbox[i].call)'
        BY <1>2, <1>3, <3>1 DEF QueueInv, OrderInv
      <3>2. ASSUME NEW d \in Calls, Starts(d), d # c
            PROVE  ~Begun(inbox[final].call)'
        <4>1. ~Begun(c)
          BY <1>4, <3>2 DEF QueueInv, OrderInv
        <4>. QED BY <1>2, <1>3, <4>1
      <3>. QED BY <1>2, <1>3, <3>1, <3>2
    <2>. QED BY <2>3, <2>4, <2>5, <2>6, <2>7, <2>8, <2>9 DEF OrderInv
  <1>10. CurrentInv'
    <2>1. \A i \in 1..Len(inbox') :
            New(i)' /\ Known(inbox[i].call)' => ring' = inbox'[i].call \/ Starts(inbox[i].call)'
      <3>1. ASSUME NEW i \in 1..Len(inbox), New(i), Known(inbox[i].call)'
            PROVE  ring' = inbox'[i].call \/ Starts(inbox[i].call)'
        BY <1>1, <1>2, <1>3, <3>1 DEF QueueInv, CurrentInv
      <3>2. Known(c) => ring = c \/ Starts(c)
        BY <1>4 DEF QueueInv, CurrentInv
      <3>3. Known(inbox[final].call)' => ring' = inbox'[final].call \/ Starts(inbox[final].call)'
        BY <1>1, <1>2, <1>3, <3>2
      <3>. QED BY <1>2, <3>1, <3>3
    <2>2. \A d \in Line!Carried' : Known(d)' => ring' = d \/ Starts(d)'
      BY <1>1, <1>3, <1>4 DEF QueueInv, CurrentInv
    <2>3. \A d \in Calls : Starts(d)' => ~Begun(d)'
      BY <1>3 DEF QueueInv, CurrentInv
    <2>4. ring' # None => Begun(ring)'
      BY <1>1 DEF QueueInv, CurrentInv, Begun
    <2>5. reader'.at = "down" /\ reader'.job.at = "hangup" =>
            gw'[reader'.old] = "gone" /\ \A i \in 1..Len(inbox') : inbox'[i].call # reader'.old
      <3>1. reader.at = "down" => reader.old \in Calls
        BY OldIsACall
      <3>. QED BY <1>1, <1>2, <3>1 DEF QueueInv, CurrentInv
    <2>. QED BY <2>1, <2>2, <2>3, <2>4, <2>5 DEF CurrentInv
  <1>. QED BY <1>8, <1>9, <1>10 DEF QueueInv

\* A call on its way out is carried no more.
LEMMA LeavesKeeps ==
  ASSUME IInv, QueueInv, NEW c \in Calls, Line!Leaves(c)
  PROVE  QueueInv'
  <1>1. /\ c \in hung /\ gw[c] \in {"ringing", "up"} /\ gw' = [gw EXCEPT ![c] = "leaving"]
        /\ gw \in [Calls -> {"none", "ringing", "up", "leaving", "gone"}]
        /\ UNCHANGED <<inbox, hung, reader, ring, bring>>
    BY DEF Line!Leaves, Line!rings, IInv, Line!TypeOK, Line!Carried
  <1>2. Len(inbox) \in Nat /\ \A i \in 1..Len(inbox) : inbox[i].call \in Calls
    BY CallsOnly DEF IInv, Line!TypeOK
  <1>3. Line!Carried' \subseteq Line!Carried
    BY <1>1 DEF Line!Carried
  <1>4. \A d \in Calls : gw'[d] = "gone" <=> gw[d] = "gone"
    BY <1>1
  <1>5. \A d \in Calls : gw'[d] = "none" <=> gw[d] = "none"
    BY <1>1
  <1>6. hung \subseteq Calls
    BY DEF IInv, Line!TypeOK
  <1>7. CallInv'
    BY <1>1, <1>2, <1>4, <1>5, <1>6 DEF QueueInv, CallInv, Known, Begun, Starts, IsGone
  <1>8. OrderInv'
    BY <1>1, <1>2, <1>3, <1>4 DEF QueueInv, OrderInv, Known, Begun, Starts, New,
       EndsBefore, IsGone
  <1>9. CurrentInv'
    BY <1>1, <1>2, <1>3, <1>4, OldIsACall DEF QueueInv, CurrentInv, Known, Begun, Starts,
       New
  <1>. QED BY <1>7, <1>8, <1>9 DEF QueueInv

\* A call is gone, and that it is is the last said of it.
LEMMA CallEndsKeeps ==
  ASSUME IInv, QueueInv, NEW c \in Calls, Line!CallEnds(c)
  PROVE  QueueInv'
  <1>0. Len(inbox) \in Nat
    BY CallsOnly DEF IInv, Line!TypeOK
  <1>. PICK final \in Nat : final = Len(inbox) + 1
    BY <1>0
  <1>1. /\ gw[c] \in {"ringing", "up", "leaving"} /\ gw' = [gw EXCEPT ![c] = "gone"]
        /\ gw \in [Calls -> {"none", "ringing", "up", "leaving", "gone"}]
        /\ UNCHANGED <<hung, reader, ring, bring>> /\ Line!Says("disconnected", c)
    BY DEF Line!CallEnds, Line!rings, IInv, Line!TypeOK, Line!Carried
  <1>2. /\ Len(inbox) \in Nat /\ Len(inbox') = final
        /\ inbox'[final].what = "disconnected" /\ inbox'[final].call = c
        /\ \A i \in 1..Len(inbox) : inbox'[i] = inbox[i] /\ inbox[i].call \in Calls
        /\ \A i \in 1..Len(inbox') : i \in 1..Len(inbox) \/ i = final
        /\ \A i \in 1..Len(inbox), d \in Calls : IsGone(i, d)' <=> IsGone(i, d)
        /\ \A i \in 1..Len(inbox) : New(i)' <=> New(i)
        /\ \A d \in Calls : IsGone(final, d)' <=> d = c
        /\ ~New(final)'
    BY <1>1, Saying
  <1>3. \A d \in Calls : /\ Begun(d)' <=> Begun(d)
                         /\ Starts(d)' <=> Starts(d)
                         /\ Known(d)' <=> Known(d)
    BY <1>1 DEF Begun, Starts, Known
  <1>4. Line!Carried' \subseteq Line!Carried /\ c \notin Line!Carried'
    BY <1>1 DEF Line!Carried
  <1>5. \A d \in Calls, i \in 1..Len(inbox) : EndsBefore(d, i) => EndsBefore(d, i)'
    BY <1>1, <1>2 DEF EndsBefore
  <1>7. \A i \in 1..Len(inbox) : inbox[i].call = c => inbox[i].what # "disconnected"
    BY <1>1, <1>2 DEF IInv, SaidInv
  <1>8. CallInv'
    <2>1. \A d \in Calls : gw'[d] = "leaving" => d \in hung'
      BY <1>1 DEF QueueInv, CallInv
    <2>2. \A d \in hung' : Begun(d)'
      BY <1>1, <1>3 DEF QueueInv, CallInv, Begun
    <2>3. \A d \in Calls : Known(d)' => gw'[d] # "none"
      BY <1>1, <1>3 DEF QueueInv, CallInv
    <2>4. \A i \in 1..Len(inbox') : gw'[inbox'[i].call] # "none"
      BY <1>1, <1>2 DEF QueueInv, CallInv
    <2>5. \A i \in 1..Len(inbox') : gw'[inbox'[i].call] = "gone" =>
            \E k \in 1..Len(inbox') : k >= i /\ IsGone(k, inbox[i].call)'
      <3>1. ASSUME NEW i \in 1..Len(inbox), inbox[i].call # c, gw'[inbox'[i].call] = "gone"
            PROVE  \E k \in 1..Len(inbox') : k >= i /\ IsGone(k, inbox[i].call)'
        <4>1. PICK k \in 1..Len(inbox) : k >= i /\ IsGone(k, inbox[i].call)
          BY <1>1, <1>2, <3>1 DEF QueueInv, CallInv
        <4>. QED BY <1>2, <4>1
      <3>2. ASSUME NEW i \in 1..Len(inbox'), inbox'[i].call = c
            PROVE  final \in 1..Len(inbox') /\ final >= i /\ IsGone(final, inbox[i].call)'
        BY <1>1, <1>2, <3>2
      <3>. QED BY <1>1, <1>2, <3>1, <3>2
    <2>6. \A i, k \in 1..Len(inbox') :
            i < k /\ inbox'[i].what = "disconnected" => inbox'[i].call # inbox'[k].call
      BY <1>2, <1>7 DEF QueueInv, CallInv
    <2>7. \A i \in 1..Len(inbox') : inbox'[i].what = "incoming" =>
            ~Known(inbox[i].call)' /\ \A k \in 1..Len(inbox') : k < i => inbox'[k].call # inbox'[i].call
      BY <1>2, <1>3 DEF QueueInv, CallInv
    <2>. QED BY <2>1, <2>2, <2>3, <2>4, <2>5, <2>6, <2>7 DEF CallInv
  <1>9. OrderInv'
    <2>3. \A d, e \in Line!Carried' : d = e
      BY <1>4 DEF QueueInv, OrderInv
    <2>4. \A d \in Line!Carried', i \in 1..Len(inbox') : New(i)' /\ inbox'[i].call # d =>
            ~Known(d)' /\ \A k \in 1..Len(inbox') : k < i => inbox'[k].call # d
      <3>1. \A d \in Line!Carried, i \in 1..Len(inbox) : New(i) /\ inbox[i].call # d =>
              ~Known(d) /\ \A k \in 1..Len(inbox) : k < i => inbox[k].call # d
        BY DEF QueueInv, OrderInv
      <3>2. Line!Carried \subseteq Calls
        BY DEF Line!Carried
      <3>. QED BY <1>2, <1>3, <1>4, <3>1, <3>2
    <2>5. \A d \in Line!Carried', e \in Calls : Starts(e)' /\ d # e => ~Begun(d)'
      <3>1. Line!Carried \subseteq Calls
        BY DEF Line!Carried
      <3>. QED BY <1>3, <1>4, <3>1 DEF QueueInv, OrderInv
    <2>6. \A d \in Calls, i \in 1..Len(inbox') :
            New(i)' /\ inbox'[i].call # d /\ Known(d)' => EndsBefore(d, i)'
      <3>1. \A d \in Calls, i \in 1..Len(inbox) :
              New(i) /\ inbox[i].call # d /\ Known(d) => EndsBefore(d, i)
        BY DEF QueueInv, OrderInv
      <3>. QED BY <1>2, <1>3, <1>5, <3>1
    <2>7. \A i, k \in 1..Len(inbox') : i < k /\ New(i)' /\ New(k)' /\ inbox'[i].call # inbox'[k].call =>
            EndsBefore(inbox[i].call, k)' /\ ~Known(inbox[k].call)'
      <3>1. ASSUME NEW i \in 1..Len(inbox), NEW k \in 1..Len(inbox), i < k, New(i), New(k),
                   inbox[i].call # inbox[k].call
            PROVE  EndsBefore(inbox[i].call, k)' /\ ~Known(inbox[k].call)'
        <4>1. EndsBefore(inbox[i].call, k) /\ ~Known(inbox[k].call)
          BY <3>1 DEF QueueInv, OrderInv
        <4>2. inbox[i].call \in Calls /\ inbox[k].call \in Calls
          BY <1>2
        <4>. QED BY <1>2, <1>3, <1>5, <4>1, <4>2
      <3>. QED BY <1>2, <3>1
    <2>8. \A i, j, k \in 1..Len(inbox') : i < j /\ j < k /\ New(i)' /\ New(j)' /\ New(k)'
            /\ inbox'[i].call = inbox'[k].call => inbox'[j].call = inbox'[i].call
      BY <1>2 DEF QueueInv, OrderInv
    <2>9. \A d \in Calls, i \in 1..Len(inbox') :
            New(i)' /\ Starts(d)' /\ inbox'[i].call # d => ~Begun(inbox[i].call)'
      BY <1>2, <1>3 DEF QueueInv, OrderInv
    <2>. QED BY <2>3, <2>4, <2>5, <2>6, <2>7, <2>8, <2>9 DEF OrderInv
  <1>10. CurrentInv'
    <2>1. \A i \in 1..Len(inbox') :
            New(i)' /\ Known(inbox[i].call)' => ring' = inbox'[i].call \/ Starts(inbox[i].call)'
      BY <1>1, <1>2, <1>3 DEF QueueInv, CurrentInv
    <2>2. \A d \in Line!Carried' : Known(d)' => ring' = d \/ Starts(d)'
      <3>1. Line!Carried \subseteq Calls
        BY DEF Line!Carried
      <3>. QED BY <1>1, <1>3, <1>4, <3>1 DEF QueueInv, CurrentInv
    <2>3. \A d \in Calls : Starts(d)' => ~Begun(d)'
      BY <1>3 DEF QueueInv, CurrentInv
    <2>4. ring' # None => Begun(ring)'
      BY <1>1 DEF QueueInv, CurrentInv, Begun
    <2>5. reader'.at = "down" /\ reader'.job.at = "hangup" =>
            gw'[reader'.old] = "gone" /\ \A i \in 1..Len(inbox') : inbox'[i].call # reader'.old
      <3>1. reader.at = "down" => reader.old \in Calls
        BY OldIsACall
      <3>. QED BY <1>1, <1>2, <3>1 DEF QueueInv, CurrentInv
    <2>. QED BY <2>1, <2>2, <2>3, <2>4, <2>5 DEF CurrentInv
  <1>. QED BY <1>8, <1>9, <1>10 DEF QueueInv

\* The gateway.
LEMMA GatewayOrders ==
  ASSUME IInv, QueueInv, ~overlap, NEW c \in Calls, Line!Gateway(c)
  PROVE  QueueInv'
  BY InviteKeeps, PickUpKeeps, LeavesKeeps, CallEndsKeeps DEF Line!Gateway

\* What is read was said first; what is left keeps its order.
LEMMA Hearing ==
  ASSUME IInv, NEW c \in Calls, NEW what, Line!Hears(what, c)
  PROVE  /\ inbox' \in Seq(Line!Messages) /\ Len(inbox) \in Nat \ {0} /\ Len(inbox') = Len(inbox) - 1
         /\ inbox[1].what = what /\ inbox[1].call = c /\ 1 \in 1..Len(inbox)
         /\ \A i \in 1..Len(inbox) : inbox[i].call \in Calls
         /\ \A i \in 1..Len(inbox') : /\ i + 1 \in 1..Len(inbox) /\ inbox'[i] = inbox[i + 1]
                                      /\ New(i)' <=> New(i + 1)
                                      /\ \A d \in Calls : IsGone(i, d)' <=> IsGone(i + 1, d)
         /\ \A i \in 1..Len(inbox) : i = 1 \/ i - 1 \in 1..Len(inbox')
         /\ UNCHANGED <<overlap, gw, hung>> /\ reader = Line!Reading
         /\ \A d \in Calls : ~Starts(d)
  <1>1. inbox \in Seq(Line!Messages) /\ inbox # <<>> /\ inbox' = Tail(inbox)
        /\ Head(inbox) = [what |-> what, call |-> c]
    BY DEF IInv, Line!TypeOK, Line!Hears
  <1>2. /\ inbox' \in Seq(Line!Messages) /\ Len(inbox') = Len(inbox) - 1 /\ Len(inbox) \in Nat \ {0}
        /\ Len(inbox') \in Nat
        /\ \A i \in 1..Len(inbox') : i + 1 \in 1..Len(inbox) /\ inbox'[i] = inbox[i + 1]
    BY <1>1
  <1>3. inbox[1].what = what /\ inbox[1].call = c /\ 1 \in 1..Len(inbox)
    BY <1>1, <1>2
  <1>4. \A i \in 1..Len(inbox) : i = 1 \/ i - 1 \in 1..Len(inbox')
    BY <1>2
  <1>5. \A i \in 1..Len(inbox) : inbox[i].call \in Calls
    BY <1>1, CallsOnly
  <1>6. \A i \in 1..Len(inbox') : /\ New(i)' <=> New(i + 1)
                                  /\ \A d \in Calls : IsGone(i, d)' <=> IsGone(i + 1, d)
    BY <1>2 DEF New, IsGone
  <1>7. UNCHANGED <<overlap, gw, hung>> /\ reader = Line!Reading
    BY DEF Line!Hears, Line!kind
  <1>8. \A d \in Calls : ~Starts(d)
    BY <1>7 DEF Starts, Line!Reading
  <1>. QED BY <1>2, <1>3, <1>4, <1>5, <1>6, <1>7, <1>8

(* A message that begins no call: the queue is shorter, and the current     *)
(* call is forgotten only when nothing more comes of it.                    *)
LEMMA SkipKeeps ==
  ASSUME IInv, QueueInv, NEW c \in Calls, NEW what, Line!Hears(what, c),
         \A d \in Calls : ~Starts(d)', \A d \in Calls : Begun(d)' <=> Begun(d),
         \/ UNCHANGED ring
         \/ ring' = None /\ gw[ring] = "gone" /\ \A i \in 1..Len(inbox') : inbox'[i].call # ring,
         (reader.at = "down" /\ reader.job.at = "hangup")' =>
           gw[reader'.old] = "gone" /\ \A i \in 1..Len(inbox') : inbox'[i].call # reader'.old
  PROVE  QueueInv'
  <1>1. /\ Len(inbox) \in Nat \ {0} /\ Len(inbox') = Len(inbox) - 1
        /\ \A i \in 1..Len(inbox) : inbox[i].call \in Calls
        /\ \A i \in 1..Len(inbox') : /\ i + 1 \in 1..Len(inbox) /\ inbox'[i] = inbox[i + 1]
                                     /\ New(i)' <=> New(i + 1)
                                     /\ \A d \in Calls : IsGone(i, d)' <=> IsGone(i + 1, d)
        /\ \A i \in 1..Len(inbox) : i = 1 \/ i - 1 \in 1..Len(inbox')
        /\ UNCHANGED <<gw, hung>>
    BY Hearing
  <1>2. \A d \in Calls : ~Starts(d) /\ (Known(d) <=> Begun(d)) /\ (Known(d)' <=> Known(d))
    BY Hearing DEF Known
  <1>3. \A d \in Calls, i \in 1..Len(inbox') : EndsBefore(d, i + 1) => EndsBefore(d, i)'
    BY <1>1 DEF EndsBefore
  <1>4. hung \subseteq Calls
    BY DEF IInv, Line!TypeOK
  <1>5. CallInv'
    <2>1. \A d \in Calls : gw'[d] = "leaving" => d \in hung'
      BY <1>1 DEF QueueInv, CallInv
    <2>2. \A d \in hung' : Begun(d)'
      BY <1>1, <1>4 DEF QueueInv, CallInv
    <2>3. \A d \in Calls : Known(d)' => gw'[d] # "none"
      BY <1>1, <1>2 DEF QueueInv, CallInv
    <2>4. \A i \in 1..Len(inbox') : gw'[inbox'[i].call] # "none"
      BY <1>1 DEF QueueInv, CallInv
    <2>5. \A i \in 1..Len(inbox') : gw'[inbox'[i].call] = "gone" =>
            \E k \in 1..Len(inbox') : k >= i /\ IsGone(k, inbox[i].call)'
      <3>. SUFFICES ASSUME NEW i \in 1..Len(inbox'), gw'[inbox'[i].call] = "gone"
                    PROVE  \E k \in 1..Len(inbox') : k >= i /\ IsGone(k, inbox[i].call)'
        OBVIOUS
      <3>1. PICK k \in 1..Len(inbox) : k >= i + 1 /\ IsGone(k, inbox[i + 1].call)
        BY <1>1 DEF QueueInv, CallInv
      <3>2. PICK j \in 1..Len(inbox') : j + 1 = k /\ j >= i
        <4>1. k - 1 \in 1..Len(inbox') /\ k - 1 + 1 = k /\ k - 1 >= i
          BY <1>1, <3>1
        <4>. QED BY <4>1
      <3>3. IsGone(j + 1, inbox[i + 1].call)
        BY <3>1, <3>2
      <3>4. IsGone(j, inbox[i].call)'
        BY <1>1, <3>3
      <3>. QED BY <3>2, <3>4
    <2>6. \A i, k \in 1..Len(inbox') :
            i < k /\ inbox'[i].what = "disconnected" => inbox'[i].call # inbox'[k].call
      BY <1>1 DEF QueueInv, CallInv
    <2>7. \A i \in 1..Len(inbox') : inbox'[i].what = "incoming" =>
            ~Known(inbox[i].call)' /\ \A k \in 1..Len(inbox') : k < i => inbox'[k].call # inbox'[i].call
      <3>. SUFFICES ASSUME NEW i \in 1..Len(inbox'), inbox'[i].what = "incoming"
                    PROVE  ~Known(inbox[i].call)'
                           /\ \A k \in 1..Len(inbox') : k < i => inbox'[k].call # inbox'[i].call
        OBVIOUS
      <3>1. ~Known(inbox[i + 1].call)
            /\ \A k \in 1..Len(inbox) : k < i + 1 => inbox[k].call # inbox[i + 1].call
        BY <1>1 DEF QueueInv, CallInv
      <3>. QED BY SMTT(30), <1>1, <1>2, <3>1
    <2>. QED BY <2>1, <2>2, <2>3, <2>4, <2>5, <2>6, <2>7 DEF CallInv
  <1>6. OrderInv'
    <2>0. Line!Carried' = Line!Carried /\ Line!Carried \subseteq Calls
      BY <1>1 DEF Line!Carried
    <2>3. \A d, e \in Line!Carried' : d = e
      BY <2>0 DEF QueueInv, OrderInv
    <2>4. \A d \in Line!Carried', i \in 1..Len(inbox') : New(i)' /\ inbox'[i].call # d =>
            ~Known(d)' /\ \A k \in 1..Len(inbox') : k < i => inbox'[k].call # d
      BY <1>1, <1>2, <2>0 DEF QueueInv, OrderInv
    <2>5. \A d \in Line!Carried', e \in Calls : Starts(e)' /\ d # e => ~Begun(d)'
      OBVIOUS
    <2>6. \A d \in Calls, i \in 1..Len(inbox') :
            New(i)' /\ inbox'[i].call # d /\ Known(d)' => EndsBefore(d, i)'
      BY <1>1, <1>2, <1>3 DEF QueueInv, OrderInv
    <2>7. \A i, k \in 1..Len(inbox') : i < k /\ New(i)' /\ New(k)' /\ inbox'[i].call # inbox'[k].call =>
            EndsBefore(inbox[i].call, k)' /\ ~Known(inbox[k].call)'
      <3>. SUFFICES ASSUME NEW i \in 1..Len(inbox'), NEW k \in 1..Len(inbox'), i < k, New(i)', New(k)',
                           inbox'[i].call # inbox'[k].call
                    PROVE  EndsBefore(inbox[i].call, k)' /\ ~Known(inbox[k].call)'
        OBVIOUS
      <3>1. EndsBefore(inbox[i + 1].call, k + 1) /\ ~Known(inbox[k + 1].call)
        BY SMTT(30), <1>1 DEF QueueInv, OrderInv
      <3>. QED BY <1>1, <1>2, <1>3, <3>1
    <2>8. \A i, j, k \in 1..Len(inbox') : i < j /\ j < k /\ New(i)' /\ New(j)' /\ New(k)'
            /\ inbox'[i].call = inbox'[k].call => inbox'[j].call = inbox'[i].call
      <3>. SUFFICES ASSUME NEW i \in 1..Len(inbox'), NEW j \in 1..Len(inbox'), NEW k \in 1..Len(inbox'),
                           i < j, j < k, New(i)', New(j)', New(k)', inbox'[i].call = inbox'[k].call
                    PROVE  inbox'[j].call = inbox'[i].call
        OBVIOUS
      <3>a. i + 1 \in 1..Len(inbox) /\ inbox'[i] = inbox[i + 1] /\ New(i + 1)
        BY <1>1
      <3>b. j + 1 \in 1..Len(inbox) /\ inbox'[j] = inbox[j + 1] /\ New(j + 1)
        BY <1>1
      <3>c. k + 1 \in 1..Len(inbox) /\ inbox'[k] = inbox[k + 1] /\ New(k + 1)
        BY <1>1
      <3>0. i + 1 < j + 1 /\ j + 1 < k + 1 /\ inbox[i + 1].call = inbox[k + 1].call
        BY <3>a, <3>c
      <3>1. inbox[j + 1].call = inbox[i + 1].call
        BY <3>0, <3>a, <3>b, <3>c DEF QueueInv, OrderInv
      <3>. QED BY <3>1, <3>a, <3>b
    <2>9. \A d \in Calls, i \in 1..Len(inbox') :
            New(i)' /\ Starts(d)' /\ inbox'[i].call # d => ~Begun(inbox[i].call)'
      OBVIOUS
    <2>. QED BY <2>3, <2>4, <2>5, <2>6, <2>7, <2>8, <2>9 DEF OrderInv
  <1>7. CurrentInv'
    <2>0. Line!Carried' = Line!Carried /\ Line!Carried \subseteq Calls
      BY <1>1 DEF Line!Carried
    <2>1. \A i \in 1..Len(inbox') :
            New(i)' /\ Known(inbox[i].call)' => ring' = inbox'[i].call \/ Starts(inbox[i].call)'
      <3>. SUFFICES ASSUME NEW i \in 1..Len(inbox'), New(i)', Known(inbox[i].call)'
                    PROVE  ring' = inbox'[i].call
        OBVIOUS
      <3>1. ring = inbox[i + 1].call
        BY <1>1, <1>2 DEF QueueInv, CurrentInv
      <3>. QED BY <1>1, <3>1
    <2>2. \A d \in Line!Carried' : Known(d)' => ring' = d \/ Starts(d)'
      BY <1>2, <2>0 DEF QueueInv, CurrentInv, Line!Carried
    <2>3. \A d \in Calls : Starts(d)' => ~Begun(d)'
      OBVIOUS
    <2>4. ring' # None => Begun(ring)'
      BY DEF QueueInv, CurrentInv, IInv, Line!TypeOK
    <2>5. reader'.at = "down" /\ reader'.job.at = "hangup" =>
            gw'[reader'.old] = "gone" /\ \A i \in 1..Len(inbox') : inbox'[i].call # reader'.old
      BY <1>1
    <2>. QED BY <2>1, <2>2, <2>3, <2>4, <2>5 DEF CurrentInv
  <1>. QED BY <1>5, <1>6, <1>7 DEF QueueInv

\* A call that is heard of, and is not the current one, is not known yet.
LEMMA NotBegun ==
  ASSUME IInv, QueueInv, NEW c \in Calls, NEW what \in {"incoming", "confirmed"}, Line!Hears(what, c),
         what = "confirmed" => ring # c
  PROVE  ~Known(c) /\ ~Begun(c) /\ c \notin hung
  <1>1. /\ 1 \in 1..Len(inbox) /\ inbox[1].what = what /\ inbox[1].call = c
        /\ ~Starts(c) /\ New(1)
    BY Hearing DEF New
  <1>2. ~Known(c)
    BY <1>1 DEF QueueInv, CallInv, CurrentInv
  <1>. QED BY <1>2 DEF Known, QueueInv, CallInv

(* A message that has a call begin, at once or when the pipeline before it  *)
(* is gone: it is the current call from then on.                            *)
LEMMA BeginsKeeps ==
  ASSUME IInv, QueueInv, NEW c \in Calls, NEW what \in {"incoming", "confirmed"}, Line!Hears(what, c),
         what = "confirmed" => ring # c,
         \/ /\ \A d \in Calls : ~Starts(d)' /\ (Begun(d)' <=> Begun(d) \/ d = c)
            /\ ring' = c
         \/ /\ \A d \in Calls : (Starts(d)' <=> d = c) /\ (Begun(d)' <=> Begun(d))
            /\ ring' = ring,
         ~(reader.at = "down" /\ reader.job.at = "hangup")'
  PROVE  QueueInv'
  <1>1. /\ Len(inbox) \in Nat \ {0} /\ Len(inbox') = Len(inbox) - 1
        /\ 1 \in 1..Len(inbox) /\ inbox[1].what = what /\ inbox[1].call = c
        /\ \A i \in 1..Len(inbox) : inbox[i].call \in Calls
        /\ \A i \in 1..Len(inbox') : /\ i + 1 \in 1..Len(inbox) /\ inbox'[i] = inbox[i + 1]
                                     /\ New(i)' <=> New(i + 1)
                                     /\ \A d \in Calls : IsGone(i, d)' <=> IsGone(i + 1, d)
        /\ \A i \in 1..Len(inbox) : i = 1 \/ i - 1 \in 1..Len(inbox')
        /\ UNCHANGED <<gw, hung>>
    BY Hearing
  <1>2. \A d \in Calls : ~Starts(d) /\ (Known(d) <=> Begun(d)) /\ (Known(d)' <=> Known(d) \/ d = c)
    BY Hearing DEF Known
  <1>0. New(1) /\ ~Known(c) /\ c \notin hung
    BY <1>1, NotBegun DEF New
  <1>3. \A d \in Calls, i \in 1..Len(inbox') : EndsBefore(d, i + 1) => EndsBefore(d, i)'
    BY <1>1 DEF EndsBefore
  <1>4. hung \subseteq Calls
    BY DEF IInv, Line!TypeOK
  <1>10. \A i \in 1..Len(inbox') : New(i)' /\ inbox'[i].call # c =>
           EndsBefore(c, i + 1) /\ ~Known(inbox[i + 1].call)
    <2>. SUFFICES ASSUME NEW i \in 1..Len(inbox'), New(i)', inbox'[i].call # c
                  PROVE  EndsBefore(c, i + 1) /\ ~Known(inbox[i + 1].call)
      OBVIOUS
    <2>1. i + 1 \in 1..Len(inbox) /\ New(i + 1) /\ inbox[i + 1].call # inbox[1].call /\ 1 < i + 1
      BY <1>1
    <2>. QED BY <1>0, <1>1, <2>1 DEF QueueInv, OrderInv
  <1>5. CallInv'
    <2>1. \A d \in Calls : gw'[d] = "leaving" => d \in hung'
      BY <1>1 DEF QueueInv, CallInv
    <2>2. \A d \in hung' : Begun(d)'
      BY <1>1, <1>4 DEF QueueInv, CallInv
    <2>3. \A d \in Calls : Known(d)' => gw'[d] # "none"
      BY <1>1, <1>2 DEF QueueInv, CallInv
    <2>4. \A i \in 1..Len(inbox') : gw'[inbox'[i].call] # "none"
      BY <1>1 DEF QueueInv, CallInv
    <2>5. \A i \in 1..Len(inbox') : gw'[inbox'[i].call] = "gone" =>
            \E k \in 1..Len(inbox') : k >= i /\ IsGone(k, inbox[i].call)'
      <3>. SUFFICES ASSUME NEW i \in 1..Len(inbox'), gw'[inbox'[i].call] = "gone"
                    PROVE  \E k \in 1..Len(inbox') : k >= i /\ IsGone(k, inbox[i].call)'
        OBVIOUS
      <3>1. PICK k \in 1..Len(inbox) : k >= i + 1 /\ IsGone(k, inbox[i + 1].call)
        BY <1>1 DEF QueueInv, CallInv
      <3>2. PICK j \in 1..Len(inbox') : j + 1 = k /\ j >= i
        <4>1. k - 1 \in 1..Len(inbox') /\ k - 1 + 1 = k /\ k - 1 >= i
          BY <1>1, <3>1
        <4>. QED BY <4>1
      <3>3. IsGone(j + 1, inbox[i + 1].call)
        BY <3>1, <3>2
      <3>4. IsGone(j, inbox[i].call)'
        BY <1>1, <3>3
      <3>. QED BY <3>2, <3>4
    <2>6. \A i, k \in 1..Len(inbox') :
            i < k /\ inbox'[i].what = "disconnected" => inbox'[i].call # inbox'[k].call
      BY SMTT(30), <1>1 DEF QueueInv, CallInv
    <2>7. \A i \in 1..Len(inbox') : inbox'[i].what = "incoming" =>
            ~Known(inbox[i].call)' /\ \A k \in 1..Len(inbox') : k < i => inbox'[k].call # inbox'[i].call
      <3>. SUFFICES ASSUME NEW i \in 1..Len(inbox'), inbox'[i].what = "incoming"
                    PROVE  ~Known(inbox[i].call)'
                           /\ \A k \in 1..Len(inbox') : k < i => inbox'[k].call # inbox'[i].call
        OBVIOUS
      <3>1. ~Known(inbox[i + 1].call)
            /\ \A k \in 1..Len(inbox) : k < i + 1 => inbox[k].call # inbox[i + 1].call
        BY <1>1 DEF QueueInv, CallInv
      <3>2. inbox[i + 1].call # c
        BY <1>1, <3>1
      <3>3. inbox'[i].call = inbox[i + 1].call /\ inbox'[i].call \in Calls
        BY <1>1
      <3>4. ~Known(inbox[i].call)'
        BY <1>2, <3>1, <3>2, <3>3
      <3>5. \A k \in 1..Len(inbox') : k < i =>
              k + 1 \in 1..Len(inbox) /\ k + 1 < i + 1 /\ inbox'[k] = inbox[k + 1]
        BY <1>1
      <3>. QED BY <3>1, <3>3, <3>4, <3>5
    <2>. QED BY <2>1, <2>2, <2>3, <2>4, <2>5, <2>6, <2>7 DEF CallInv
  <1>11. Line!Carried' = Line!Carried /\ Line!Carried \subseteq Calls
    BY <1>1 DEF Line!Carried
  <1>12. \A d \in Line!Carried : d # c => ~Known(d) /\ ~Begun(d)
    BY <1>0, <1>1, <1>2, <1>11 DEF QueueInv, OrderInv
  <1>6. OrderInv'
    <2>3. \A d, e \in Line!Carried' : d = e
      BY <1>11 DEF QueueInv, OrderInv
    <2>4. \A d \in Line!Carried', i \in 1..Len(inbox') : New(i)' /\ inbox'[i].call # d =>
            ~Known(d)' /\ \A k \in 1..Len(inbox') : k < i => inbox'[k].call # d
      <3>. SUFFICES ASSUME NEW d \in Line!Carried, NEW i \in 1..Len(inbox'), New(i)', inbox'[i].call # d
                    PROVE  ~Known(d)' /\ \A k \in 1..Len(inbox') : k < i => inbox'[k].call # d
        BY <1>11
      <3>1. ~Known(d) /\ \A k \in 1..Len(inbox) : k < i + 1 => inbox[k].call # d
        BY <1>1 DEF QueueInv, OrderInv
      <3>2. d # c
        BY <1>1, <3>1
      <3>. QED BY SMTT(30), <1>1, <1>2, <1>11, <3>1, <3>2
    <2>5. \A d \in Line!Carried', e \in Calls : Starts(e)' /\ d # e => ~Begun(d)'
      BY <1>11, <1>12
    <2>6. \A d \in Calls, i \in 1..Len(inbox') :
            New(i)' /\ inbox'[i].call # d /\ Known(d)' => EndsBefore(d, i)'
      <3>. SUFFICES ASSUME NEW d \in Calls, NEW i \in 1..Len(inbox'),
                           New(i)', inbox'[i].call # d, Known(d)'
                    PROVE  EndsBefore(d, i + 1)
        BY <1>3
      <3>. QED BY <1>1, <1>2, <1>10 DEF QueueInv, OrderInv
    <2>7. \A i, k \in 1..Len(inbox') : i < k /\ New(i)' /\ New(k)' /\ inbox'[i].call # inbox'[k].call =>
            EndsBefore(inbox[i].call, k)' /\ ~Known(inbox[k].call)'
      <3>. SUFFICES ASSUME NEW i \in 1..Len(inbox'), NEW k \in 1..Len(inbox'), i < k, New(i)', New(k)',
                           inbox'[i].call # inbox'[k].call
                    PROVE  EndsBefore(inbox[i].call, k)' /\ ~Known(inbox[k].call)'
        OBVIOUS
      <3>1. EndsBefore(inbox[i + 1].call, k + 1) /\ ~Known(inbox[k + 1].call)
        BY SMTT(30), <1>1 DEF QueueInv, OrderInv
      <3>2. /\ 1 < i + 1 /\ i + 1 < k + 1 /\ New(i + 1) /\ New(k + 1)
            /\ i + 1 \in 1..Len(inbox) /\ k + 1 \in 1..Len(inbox)
            /\ inbox[i + 1].call # inbox[k + 1].call
        BY <1>1
      <3>3. inbox[k + 1].call # c
        BY <1>0, <1>1, <3>2 DEF QueueInv, OrderInv
      <3>. QED BY <1>1, <1>2, <1>3, <3>1, <3>3
    <2>8. \A i, j, k \in 1..Len(inbox') : i < j /\ j < k /\ New(i)' /\ New(j)' /\ New(k)'
            /\ inbox'[i].call = inbox'[k].call => inbox'[j].call = inbox'[i].call
      <3>. SUFFICES ASSUME NEW i \in 1..Len(inbox'), NEW j \in 1..Len(inbox'), NEW k \in 1..Len(inbox'),
                           i < j, j < k, New(i)', New(j)', New(k)', inbox'[i].call = inbox'[k].call
                    PROVE  inbox'[j].call = inbox'[i].call
        OBVIOUS
      <3>a. i + 1 \in 1..Len(inbox) /\ inbox'[i] = inbox[i + 1] /\ New(i + 1)
        BY <1>1
      <3>b. j + 1 \in 1..Len(inbox) /\ inbox'[j] = inbox[j + 1] /\ New(j + 1)
        BY <1>1
      <3>c. k + 1 \in 1..Len(inbox) /\ inbox'[k] = inbox[k + 1] /\ New(k + 1)
        BY <1>1
      <3>0. i + 1 < j + 1 /\ j + 1 < k + 1 /\ inbox[i + 1].call = inbox[k + 1].call
        BY <3>a, <3>c
      <3>1. inbox[j + 1].call = inbox[i + 1].call
        BY <3>0, <3>a, <3>b, <3>c DEF QueueInv, OrderInv
      <3>. QED BY <3>1, <3>a, <3>b
    <2>9. \A d \in Calls, i \in 1..Len(inbox') :
            New(i)' /\ Starts(d)' /\ inbox'[i].call # d => ~Begun(inbox[i].call)'
      <3>. SUFFICES ASSUME NEW d \in Calls, NEW i \in 1..Len(inbox'),
                           New(i)', Starts(d)', inbox'[i].call # d
                    PROVE  ~Begun(inbox[i].call)'
        OBVIOUS
      <3>1. d = c /\ inbox'[i].call \in Calls /\ inbox'[i].call = inbox[i + 1].call
        BY <1>1
      <3>2. ~Begun(inbox[i + 1].call)
        BY <1>1, <1>2, <1>10, <3>1
      <3>. QED BY <3>1, <3>2
    <2>. QED BY <2>3, <2>4, <2>5, <2>6, <2>7, <2>8, <2>9 DEF OrderInv
  <1>7. CurrentInv'
    <2>1. \A i \in 1..Len(inbox') :
            New(i)' /\ Known(inbox[i].call)' => ring' = inbox'[i].call \/ Starts(inbox[i].call)'
      <3>. SUFFICES ASSUME NEW i \in 1..Len(inbox'), New(i)', Known(inbox[i].call)'
                    PROVE  ring' = inbox'[i].call \/ Starts(inbox[i].call)'
        OBVIOUS
      <3>1. inbox'[i].call \in Calls /\ inbox'[i].call = inbox[i + 1].call
        BY <1>1
      <3>2. inbox'[i].call = c
        BY <1>2, <1>10, <3>1
      <3>. QED BY <3>2
    <2>2. \A d \in Line!Carried' : Known(d)' => ring' = d \/ Starts(d)'
      BY <1>2, <1>11, <1>12
    <2>3. \A d \in Calls : Starts(d)' => ~Begun(d)'
      BY <1>0, <1>2
    <2>4. ring' # None => Begun(ring)'
      BY DEF QueueInv, CurrentInv, IInv, Line!TypeOK
    <2>. QED BY <2>1, <2>2, <2>3, <2>4 DEF CurrentInv
  <1>. QED BY <1>5, <1>6, <1>7 DEF QueueInv

\* The call that had to wait for the pipeline before it begins.
LEMMA StartedKeeps ==
  ASSUME IInv, QueueInv, NEW c \in Calls, Starts(c), UNCHANGED <<gw, inbox, hung>>,
         \A d \in Calls : ~Starts(d)' /\ (Begun(d)' <=> Begun(d) \/ d = c), ring' = c,
         ~(reader.at = "down" /\ reader.job.at = "hangup")'
  PROVE  QueueInv'
  <1>0. \A i \in 1..Len(inbox) : inbox[i].call \in Calls
    BY CallsOnly DEF IInv, Line!TypeOK
  <1>1. \A d \in Calls : (Known(d)' <=> Known(d)) /\ (Starts(d) <=> d = c)
    BY DEF Known, Starts
  <1>2. hung \subseteq Calls /\ Line!Carried' = Line!Carried /\ Line!Carried \subseteq Calls
    BY DEF IInv, Line!TypeOK, Line!Carried
  <1>3. CallInv'
    BY <1>0, <1>1, <1>2 DEF QueueInv, CallInv, IsGone
  <1>4. OrderInv'
    BY <1>0, <1>1, <1>2 DEF QueueInv, OrderInv, EndsBefore, New, IsGone
  <1>5. CurrentInv'
    <2>1. \A i \in 1..Len(inbox) : New(i) /\ Known(inbox[i].call) => inbox[i].call = c
      BY <1>0, <1>1 DEF QueueInv, OrderInv, CurrentInv, Known
    <2>2. \A d \in Line!Carried : Known(d) => d = c
      BY <1>1, <1>2 DEF QueueInv, OrderInv, Known
    <2>. QED BY <1>0, <1>1, <1>2, <2>1, <2>2 DEF CurrentInv, New
  <1>. QED BY <1>3, <1>4, <1>5 DEF QueueInv

\* What neither of the last two is about cannot disturb it.
LEMMA OneFrames ==
  /\ UnpipedInv /\ UNCHANGED <<hung, reader, setup, bring, active, down, claims>> => UnpipedInv'
  /\ BusyInv /\ UNCHANGED <<hung, reader, ring, answered, declined, setup, bring, active, busy, claims>>
       => BusyInv'
  <1>1. UnpipedInv /\ UNCHANGED <<hung, reader, setup, bring, active, down, claims>> => UnpipedInv'
    BY DEF UnpipedInv, Unpiped, Piped, Settling
  <1>2. BusyInv /\ UNCHANGED <<hung, reader, ring, answered, declined, setup, bring, active, busy, claims>>
          => BusyInv'
    BY DEF BusyInv
  <1>. QED BY <1>1, <1>2

\* What the gateway does: only a call that ends can be one that is over now.
LEMMA GatewayOne ==
  ASSUME IInv, OneInv, ~overlap, NEW c \in Calls, Line!Gateway(c)
  PROVE  OneInv'
  <1>1. QueueInv'
    BY GatewayOrders DEF OneInv
  <1>2. UNCHANGED <<hung, reader, ring, answered, declined, setup, bring, active, down, claims, busy>>
    BY DEF Line!Gateway, Line!Invite, Line!PickUp, Line!Leaves, Line!CallEnds, Line!rings
  <1>3. UnpipedInv' /\ BusyInv'
    BY <1>2, OneFrames DEF OneInv
  <1>4. \A d \in Calls : Coming(d) => Coming(d)'
    <2>1. CASE UNCHANGED inbox
      BY <2>1 DEF Coming, IsGone
    <2>2. CASE \E what \in {"incoming", "confirmed", "disconnected"} : Line!Says(what, c)
      <3>1. PICK what \in {"incoming", "confirmed", "disconnected"} : Line!Says(what, c)
        BY <2>2
      <3>2. /\ Len(inbox) \in Nat /\ Len(inbox') = Len(inbox) + 1
            /\ \A i \in 1..Len(inbox), d \in Calls : IsGone(i, d)' <=> IsGone(i, d)
        BY <3>1, Saying
      <3>. QED BY <3>2 DEF Coming
    <2>. QED BY <2>1, <2>2 DEF Line!Gateway, Line!Invite, Line!PickUp, Line!Leaves, Line!CallEnds
  <1>5. \A d \in Calls : gw'[d] = "gone" => gw[d] = "gone" \/ Coming(d)'
    <2>1. CASE Line!CallEnds(c)
      <3>1. Line!Says("disconnected", c) /\ gw' = [gw EXCEPT ![c] = "gone"]
        BY <2>1 DEF Line!CallEnds
      <3>2. Len(inbox) \in Nat
        BY <3>1, Saying
      <3>. PICK final \in Nat : final = Len(inbox) + 1
        BY <3>2
      <3>3. final \in 1..Len(inbox') /\ IsGone(final, c)'
        BY <3>1, <3>2, Saying
      <3>4. Coming(c)'
        BY <3>3 DEF Coming
      <3>. QED BY <3>1, <3>4 DEF IInv, Line!TypeOK
    <2>2. CASE Line!Invite(c) \/ Line!PickUp(c) \/ Line!Leaves(c)
      BY <2>2 DEF Line!Invite, Line!PickUp, Line!Leaves, IInv, Line!TypeOK
    <2>. QED BY <2>1, <2>2 DEF Line!Gateway
  <1>6. \A d \in Calls : Engaged(d)' <=> Engaged(d)
    BY <1>2 DEF Engaged, Unpiped, Piped, Settling, Starts
  <1>7. EndingInv'
    BY <1>2, <1>4, <1>5, <1>6 DEF OneInv, EndingInv
  <1>. QED BY <1>1, <1>3, <1>7 DEF OneInv

(* What a step of a bring-up does, the way on it is on aside: it is the one *)
(* in flight; it hangs up only as it ends; its claim is let go of unless it *)
(* is to ask or to build.                                                   *)
LEMMA BringUpSays ==
  ASSUME None \notin Calls, IInv, NEW c \in Calls, Line!BringUp(c)
  PROVE  /\ setup = c /\ bring[c] \notin {"none", "over"} /\ bring'[c] # "none"
         /\ \A d \in Calls : d # c => bring'[d] = bring[d]
         /\ setup' = IF bring'[c] = "over" THEN None ELSE c
         /\ UNCHANGED <<overlap, gw, inbox, reader, ring, answered, down, busy>>
         /\ bring'[c] \in Before => bring[c] \in Before
         /\ \/ hung' = hung
            \/ /\ hung' = hung \cup {c} /\ bring'[c] \in {"ending", "over"}
               /\ bring[c] \in {"busyLine", "confirming", "greeting"}
         /\ active' = active \/ (active' = c /\ bring[c] = "building")
         /\ \A d \in Calls : d \in claims' => d \in claims \/ d = c
         /\ c \in claims' /\ active' # c =>
              \/ bring'[c] \in {"asking", "building"} /\ bring[c] \in Before
              \/ bring[c] = "building" /\ bring'[c] = "over"
              \/ c \in claims /\ bring[c] \notin {"asking", "building"}
         /\ \/ declined' = declined
            \/ /\ declined' = declined \cup {c} /\ bring[c] = "asking" /\ bring'[c] = "over"
               /\ c \notin claims' /\ active' = active /\ hung' = hung
  <1>0. \A s \in Before \cup After : bring[c] = s => setup = c
    BY DEF IInv, SetupInv
  <1>16. ASSUME NEW stage \in Before \cup After, NEW to, Line!Goes(c, stage, to)
         PROVE  /\ setup = c /\ bring[c] = stage /\ bring'[c] = to
                /\ \A d \in Calls : d # c => bring'[d] = bring[d]
                /\ setup' = IF to = "over" THEN None ELSE c
                /\ UNCHANGED <<overlap, gw, inbox, reader, ring, answered, down>>
    BY <1>0, <1>16 DEF Line!Goes, Line!line, Line!kind, IInv, Line!TypeOK
  <1>1. CASE Line!Ask(c)
    <2>1. Line!Goes(c, "waiting", "asking") /\ claims' = claims \cup {c} /\ UNCHANGED <<hung, declined, active, busy>>
      BY <1>1 DEF Line!Ask
    <2>2. /\ setup = c /\ bring[c] = "waiting" /\ bring'[c] = "asking"
          /\ \A d \in Calls : d # c => bring'[d] = bring[d]
          /\ setup' = c
          /\ UNCHANGED <<overlap, gw, inbox, reader, ring, answered, down>>
      BY <1>16, <2>1 DEF Before, After
    <2>. QED BY <2>1, <2>2 DEF Before
  <1>2. CASE Line!Granted(c)
    <2>1. Line!Goes(c, "asking", "building") /\ claims' = {c} /\ UNCHANGED <<hung, declined, active, busy>>
      BY <1>2 DEF Line!Granted
    <2>2. /\ setup = c /\ bring[c] = "asking" /\ bring'[c] = "building"
          /\ \A d \in Calls : d # c => bring'[d] = bring[d]
          /\ setup' = c
          /\ UNCHANGED <<overlap, gw, inbox, reader, ring, answered, down>>
      BY <1>16, <2>1 DEF Before, After
    <2>. QED BY <2>1, <2>2 DEF Before
  <1>3. CASE Line!LeftRinging(c)
    <2>1. Line!Goes(c, "asking", "over") /\ claims' = claims \ {c} /\ declined' = declined \cup {c} /\ UNCHANGED <<hung, active, busy>>
      BY <1>3 DEF Line!LeftRinging
    <2>2. /\ setup = c /\ bring[c] = "asking" /\ bring'[c] = "over"
          /\ \A d \in Calls : d # c => bring'[d] = bring[d]
          /\ setup' = None
          /\ UNCHANGED <<overlap, gw, inbox, reader, ring, answered, down>>
      BY <1>16, <2>1 DEF Before, After
    <2>. QED BY <2>1, <2>2 DEF Before
  <1>4. CASE Line!Refused(c)
    <2>1. Line!Goes(c, "asking", "confirmingBusy") /\ claims' = claims \ {c} /\ UNCHANGED <<hung, declined, active, busy>>
      BY <1>4 DEF Line!Refused
    <2>2. /\ setup = c /\ bring[c] = "asking" /\ bring'[c] = "confirmingBusy"
          /\ \A d \in Calls : d # c => bring'[d] = bring[d]
          /\ setup' = c
          /\ UNCHANGED <<overlap, gw, inbox, reader, ring, answered, down>>
      BY <1>16, <2>1 DEF Before, After
    <2>. QED BY <2>1, <2>2 DEF Before
  <1>5. CASE Line!ConfirmedBusy(c)
    <2>1. Line!Goes(c, "confirmingBusy", "busyLine") /\ UNCHANGED <<hung, declined, active, busy, claims>>
      BY <1>5 DEF Line!ConfirmedBusy
    <2>2. /\ setup = c /\ bring[c] = "confirmingBusy" /\ bring'[c] = "busyLine"
          /\ \A d \in Calls : d # c => bring'[d] = bring[d]
          /\ setup' = c
          /\ UNCHANGED <<overlap, gw, inbox, reader, ring, answered, down>>
      BY <1>16, <2>1 DEF Before, After
    <2>. QED BY <2>1, <2>2 DEF Before
  <1>6. CASE Line!NeverConfirmedBusy(c)
    <2>1. Line!Goes(c, "confirmingBusy", "over") /\ UNCHANGED <<hung, declined, active, busy, claims>>
      BY <1>6 DEF Line!NeverConfirmedBusy
    <2>2. /\ setup = c /\ bring[c] = "confirmingBusy" /\ bring'[c] = "over"
          /\ \A d \in Calls : d # c => bring'[d] = bring[d]
          /\ setup' = None
          /\ UNCHANGED <<overlap, gw, inbox, reader, ring, answered, down>>
      BY <1>16, <2>1 DEF Before, After
    <2>. QED BY <2>1, <2>2 DEF Before
  <1>7. CASE Line!BusyLineEnds(c)
    <2>1. Line!Goes(c, "busyLine", "over") /\ hung' = hung \cup {c} /\ UNCHANGED <<declined, active, busy, claims>>
      BY <1>7 DEF Line!BusyLineEnds
    <2>2. /\ setup = c /\ bring[c] = "busyLine" /\ bring'[c] = "over"
          /\ \A d \in Calls : d # c => bring'[d] = bring[d]
          /\ setup' = None
          /\ UNCHANGED <<overlap, gw, inbox, reader, ring, answered, down>>
      BY <1>16, <2>1 DEF Before, After
    <2>. QED BY <2>1, <2>2 DEF Before
  <1>8. CASE Line!Built(c)
    BY <1>0, <1>8 DEF Line!Built, Before, Line!Goes, Line!line, Line!kind, IInv, Line!TypeOK
  <1>9. CASE Line!BuildFails(c)
    BY <1>0, <1>9 DEF Line!BuildFails, Before, Line!Goes, Line!line, Line!kind, IInv,
       Line!TypeOK
  <1>10. CASE Line!Answer(c)
    <2>1. Line!Goes(c, "headstart", "confirming") /\ UNCHANGED <<hung, declined, active, busy, claims>>
      BY <1>10 DEF Line!Answer
    <2>2. /\ setup = c /\ bring[c] = "headstart" /\ bring'[c] = "confirming"
          /\ \A d \in Calls : d # c => bring'[d] = bring[d]
          /\ setup' = c
          /\ UNCHANGED <<overlap, gw, inbox, reader, ring, answered, down>>
      BY <1>16, <2>1 DEF Before, After
    <2>. QED BY <2>1, <2>2 DEF Before
  <1>11. CASE Line!IsConfirmed(c)
    <2>1. Line!Goes(c, "confirming", "greeting") /\ UNCHANGED <<hung, declined, active, busy, claims>>
      BY <1>11 DEF Line!IsConfirmed
    <2>2. /\ setup = c /\ bring[c] = "confirming" /\ bring'[c] = "greeting"
          /\ \A d \in Calls : d # c => bring'[d] = bring[d]
          /\ setup' = c
          /\ UNCHANGED <<overlap, gw, inbox, reader, ring, answered, down>>
      BY <1>16, <2>1 DEF Before, After
    <2>. QED BY <2>1, <2>2 DEF Before
  <1>12. CASE Line!NeverConfirmed(c)
    <2>1. Line!Goes(c, "confirming", "ending") /\ hung' = hung \cup {c} /\ UNCHANGED <<declined, active, busy, claims>>
      BY <1>12 DEF Line!NeverConfirmed, Line!EndsItsCall
    <2>2. /\ setup = c /\ bring[c] = "confirming" /\ bring'[c] = "ending"
          /\ \A d \in Calls : d # c => bring'[d] = bring[d]
          /\ setup' = c
          /\ UNCHANGED <<overlap, gw, inbox, reader, ring, answered, down>>
      BY <1>16, <2>1 DEF Before, After
    <2>. QED BY <2>1, <2>2 DEF Before
  <1>13. CASE Line!Greeted(c)
    <2>1. Line!Goes(c, "greeting", "over") /\ UNCHANGED <<hung, declined, active, busy, claims>>
      BY <1>13 DEF Line!Greeted
    <2>2. /\ setup = c /\ bring[c] = "greeting" /\ bring'[c] = "over"
          /\ \A d \in Calls : d # c => bring'[d] = bring[d]
          /\ setup' = None
          /\ UNCHANGED <<overlap, gw, inbox, reader, ring, answered, down>>
      BY <1>16, <2>1 DEF Before, After
    <2>. QED BY <2>1, <2>2 DEF Before
  <1>14. CASE Line!CannotTalk(c)
    <2>1. Line!Goes(c, "greeting", "ending") /\ hung' = hung \cup {c} /\ UNCHANGED <<declined, active, busy, claims>>
      BY <1>14 DEF Line!CannotTalk, Line!EndsItsCall
    <2>2. /\ setup = c /\ bring[c] = "greeting" /\ bring'[c] = "ending"
          /\ \A d \in Calls : d # c => bring'[d] = bring[d]
          /\ setup' = c
          /\ UNCHANGED <<overlap, gw, inbox, reader, ring, answered, down>>
      BY <1>16, <2>1 DEF Before, After
    <2>. QED BY <2>1, <2>2 DEF Before
  <1>15. CASE Line!HasEnded(c)
    <2>1. Line!Goes(c, "ending", "over") /\ UNCHANGED <<hung, declined, active, busy, claims>>
      BY <1>15 DEF Line!HasEnded
    <2>2. /\ setup = c /\ bring[c] = "ending" /\ bring'[c] = "over"
          /\ \A d \in Calls : d # c => bring'[d] = bring[d]
          /\ setup' = None
          /\ UNCHANGED <<overlap, gw, inbox, reader, ring, answered, down>>
      BY <1>16, <2>1 DEF Before, After
    <2>. QED BY <2>1, <2>2 DEF Before
  <1>. QED BY <1>1, <1>2, <1>3, <1>4, <1>5, <1>6, <1>7, <1>8, <1>9, <1>10, <1>11, <1>12, <1>13, <1>14, <1>15
           DEF Line!BringUp

\* A step of a bring-up.
LEMMA BringUpOne ==
  ASSUME None \notin Calls, IInv, OneInv, NEW c \in Calls, Line!BringUp(c)
  PROVE  OneInv'
  <1>1. /\ setup = c /\ bring[c] \notin {"none", "over"} /\ bring'[c] # "none"
        /\ \A d \in Calls : d # c => bring'[d] = bring[d]
        /\ setup' = IF bring'[c] = "over" THEN None ELSE c
        /\ UNCHANGED <<overlap, gw, inbox, reader, ring, answered, down, busy>>
        /\ bring'[c] \in Before => bring[c] \in Before
        /\ active' = active \/ (active' = c /\ bring[c] = "building")
        /\ \A d \in Calls : d \in claims' => d \in claims \/ d = c
    BY BringUpSays
  <1>2. \/ hung' = hung
        \/ /\ hung' = hung \cup {c} /\ bring'[c] \in {"ending", "over"}
           /\ bring[c] \in {"busyLine", "confirming", "greeting"}
    BY BringUpSays
  <1>3. c \in claims' /\ active' # c =>
          \/ bring'[c] \in {"asking", "building"} /\ bring[c] \in Before
          \/ bring[c] = "building" /\ bring'[c] = "over"
          \/ c \in claims /\ bring[c] \notin {"asking", "building"}
    BY BringUpSays
  <1>4. \/ declined' = declined
        \/ /\ declined' = declined \cup {c} /\ bring[c] = "asking" /\ bring'[c] = "over"
           /\ c \notin claims' /\ active' = active /\ hung' = hung
    BY BringUpSays
  <1>5. /\ active \in {c, None} /\ (bring[c] \in Before => active = None)
        /\ reader.at # "down" /\ c # None /\ (bring[c] \in Before => c \notin hung)
    BY <1>1 DEF IInv, SetupInv, TearInv, Line!TypeOK, Before, After, OneInv, EndingInv
  <1>6. QueueInv'
    <2>1. \A d \in Calls : (Starts(d)' <=> Starts(d)) /\ (Begun(d)' <=> Begun(d))
      BY <1>1 DEF Starts, Begun
    <2>2. hung' \subseteq Calls /\ ring \in Calls \cup {None} /\ inbox \in Seq(Line!Messages)
      BY <1>2 DEF IInv, Line!TypeOK
    <2>3. \A d \in hung' : d \in hung \/ Begun(d)
      BY <1>1, <1>2 DEF Begun
    <2>. QED BY <1>1, <1>2, <2>1, <2>2, <2>3, QuietKeeps DEF OneInv
  <1>7. EndingInv'
    <2>1. \A d \in Calls : Engaged(d)' => Engaged(d)
      BY <1>1 DEF Engaged, Unpiped, Piped, Settling, Starts
    <2>2. \A d \in Calls : Coming(d)' <=> Coming(d)
      BY <1>1 DEF Coming, IsGone
    <2>3. \A d \in Calls : setup' = d \/ active' = d => ring' = d
      BY <1>1, <1>5 DEF OneInv, EndingInv
    <2>4. \A d \in Calls : bring'[d] \in Before => d \notin hung'
      BY <1>1, <1>2 DEF OneInv, EndingInv, Before
    <2>. QED BY <1>1, <2>1, <2>2, <2>3, <2>4 DEF OneInv, EndingInv
  <1>8. UnpipedInv'
    <2>. SUFFICES ASSUME NEW d \in Calls, Unpiped(d)'
                  PROVE  /\ d \notin hung' /\ bring'[d] \in {"asking", "building", "over"}
                         /\ setup' \in {d, None} /\ active' = None /\ reader'.at # "down"
      BY DEF UnpipedInv
    <2>1. d \in claims' /\ active' # d /\ ~Settling(d)
      BY <1>1 DEF Unpiped, Piped, Settling
    <2>2. d = c
      BY <1>1, <1>5, <2>1 DEF OneInv, UnpipedInv, Unpiped, Piped
    <2>3. ~(c \in claims /\ bring[c] \notin {"asking", "building"})
      BY <1>1, <1>5, <2>1, <2>2 DEF OneInv, UnpipedInv, Unpiped, Piped
    <2>4. \/ bring'[c] \in {"asking", "building"} /\ bring[c] \in Before
          \/ bring[c] = "building" /\ bring'[c] = "over"
      BY <1>3, <2>1, <2>2, <2>3
    <2>. QED BY <1>1, <1>2, <1>5, <2>1, <2>2, <2>4 DEF Before
  <1>9. BusyInv'
    <2>1. busy = {}
      BY <1>1, <1>5 DEF OneInv, BusyInv, IInv, Line!TypeOK
    <2>2. ASSUME NEW d \in declined
          PROVE  /\ bring'[d] = "over" /\ d \notin claims' /\ active' # d
                 /\ d \in hung' => d \in answered' \ busy'
                 /\ ring' = d => setup' = None /\ active' = None
      <3>1. /\ bring[d] = "over" /\ d \notin claims /\ active # d /\ d \in Calls
            /\ d \in hung => d \in answered \ busy
            /\ ring = d => setup = None
        BY DEF OneInv, BusyInv, IInv, Line!TypeOK
      <3>. QED BY <1>1, <1>2, <1>5, <3>1
    <2>3. ASSUME declined' # declined
          PROVE  /\ bring'[c] = "over" /\ c \notin claims' /\ active' # c
                 /\ c \in hung' => c \in answered' \ busy'
                 /\ ring' = c => setup' = None /\ active' = None
      BY <1>1, <1>4, <1>5, <2>3 DEF Before
    <2>. QED BY <1>1, <1>4, <2>1, <2>2, <2>3 DEF BusyInv
  <1>. QED BY <1>6, <1>7, <1>8, <1>9 DEF OneInv

\* A pipeline that ends, and the teardowns: claims are let go, none is made.
LEMMA TeardownOne ==
  ASSUME None \notin Calls, IInv, OneInv, NEW c \in Calls, Line!Teardown(c)
  PROVE  OneInv'
  <1>1. /\ UNCHANGED <<gw, inbox, hung, reader, ring, answered, declined, setup, bring, busy>>
        /\ claims' \subseteq claims /\ active' \in {active, None}
    BY DEF Line!Teardown, Line!RunnerEnds, Line!Settled, Line!TeardownBegins,
       Line!CancelActive,
           Line!line, Line!kind, Line!rings
  <1>2. \A d \in Calls : Unpiped(d)' => Unpiped(d)
    <2>1. CASE Line!RunnerEnds(c)
      BY <2>1 DEF Line!RunnerEnds, Unpiped, Piped, Settling, IInv, Line!TypeOK
    <2>2. CASE Line!Settled(c)
      BY <2>2 DEF Line!Settled, Unpiped, Piped, Settling, IInv, Line!TypeOK
    <2>3. CASE \E who \in Line!Starters : Line!TeardownBegins(<<c, who>>)
      BY <2>3 DEF Line!TeardownBegins, Line!CancelActive, Unpiped, Piped, Settling, IInv,
         Line!TypeOK
    <2>. QED BY <2>1, <2>2, <2>3 DEF Line!Teardown
  <1>3. QueueInv'
    <2>1. \A d \in Calls : (Starts(d)' <=> Starts(d)) /\ (Begun(d)' <=> Begun(d))
      BY <1>1 DEF Starts, Begun
    <2>2. hung' \subseteq Calls /\ ring \in Calls \cup {None} /\ inbox \in Seq(Line!Messages)
      BY <1>1 DEF IInv, Line!TypeOK
    <2>. QED BY <1>1, <2>1, <2>2, QuietKeeps DEF OneInv
  <1>4. EndingInv'
    <2>1. \A d \in Calls : Engaged(d)' => Engaged(d)
      BY <1>1, <1>2 DEF Engaged, Starts, IInv, Line!TypeOK
    <2>2. \A d \in Calls : Coming(d)' <=> Coming(d)
      BY <1>1 DEF Coming, IsGone
    <2>. QED BY <1>1, <2>1, <2>2 DEF OneInv, EndingInv, IInv, Line!TypeOK
  <1>5. UnpipedInv'
    BY <1>1, <1>2 DEF OneInv, UnpipedInv
  <1>6. BusyInv'
    BY <1>1 DEF OneInv, BusyInv, IInv, Line!TypeOK
  <1>. QED BY <1>3, <1>4, <1>5, <1>6 DEF OneInv

\* A pipeline that dies, or a busy line that has been said, hangs its call up.
LEMMA HangsUpOne ==
  ASSUME None \notin Calls, IInv, OneInv, NEW c \in Calls, Line!PipelineDies(c) \/ Line!BusyTaskEnds(c)
  PROVE  OneInv'
  <1>1. /\ UNCHANGED <<gw, inbox, reader, ring, answered, declined, setup, bring, active, down, claims>>
        /\ hung' = hung \cup {c}
        /\ \/ active = c /\ busy' = busy
           \/ c \in busy /\ busy' = busy \ {c}
    BY DEF Line!PipelineDies, Line!BusyTaskEnds, Line!line, Line!kind, Line!rings
  <1>2. /\ Begun(c) /\ bring[c] \notin Before /\ ~Unpiped(c)
        /\ c \in declined => c \in answered \ busy'
    <2>1. CASE active = c
      <3>1. Begun(c)
        BY <2>1 DEF OneInv, QueueInv, CurrentInv, EndingInv
      <3>2. bring[c] \notin Before
        BY <2>1 DEF IInv, SetupInv, Before, After
      <3>. QED BY <2>1, <3>1, <3>2 DEF OneInv, BusyInv, Unpiped, Piped
    <2>2. CASE c \in busy
      <3>1. c \in declined /\ c \in answered /\ bring[c] = "over" /\ c \notin claims
        BY <2>2 DEF OneInv, BusyInv
      <3>2. busy' = busy \ {c}
        BY <1>1, <2>2, <3>1 DEF OneInv, BusyInv
      <3>. QED BY <3>1, <3>2 DEF Begun, Before, Unpiped
    <2>. QED BY <1>1, <2>1, <2>2
  <1>3. QueueInv'
    <2>1. \A d \in Calls : (Starts(d)' <=> Starts(d)) /\ (Begun(d)' <=> Begun(d))
      BY <1>1 DEF Starts, Begun
    <2>2. hung' \subseteq Calls /\ ring \in Calls \cup {None} /\ inbox \in Seq(Line!Messages)
      BY <1>1 DEF IInv, Line!TypeOK
    <2>3. \A d \in hung' : d \in hung \/ Begun(d)
      BY <1>1, <1>2
    <2>. QED BY <1>1, <2>1, <2>2, <2>3, QuietKeeps DEF OneInv
  <1>4. EndingInv'
    <2>1. \A d \in Calls : Engaged(d)' => Engaged(d)
      BY <1>1 DEF Engaged, Starts, Unpiped, Piped, Settling
    <2>2. \A d \in Calls : Coming(d)' <=> Coming(d)
      BY <1>1 DEF Coming, IsGone
    <2>3. \A d \in Calls : bring'[d] \in Before => d \notin hung'
      BY <1>1, <1>2 DEF OneInv, EndingInv
    <2>. QED BY <1>1, <2>1, <2>2, <2>3 DEF OneInv, EndingInv
  <1>5. UnpipedInv'
    BY <1>1, <1>2 DEF OneInv, UnpipedInv, Unpiped, Piped, Settling
  <1>6. BusyInv'
    BY <1>1, <1>2 DEF OneInv, BusyInv
  <1>. QED BY <1>3, <1>4, <1>5, <1>6 DEF OneInv

\* The connection goes: nothing begins any more, and nothing is engaged.
LEMMA EofOne ==
  ASSUME None \notin Calls, IInv, OneInv, Line!Eof
  PROVE  OneInv'
  <1>1. /\ reader = Line!Reading /\ Line!CancelSetup(Calls)
        /\ UNCHANGED <<gw, inbox, hung, ring, answered, declined>>
    BY DEF Line!Eof, Line!line, Line!kind, Line!rings
  <1>2. /\ setup' = None
        /\ \A d \in Calls : bring'[d] = IF setup = d THEN "over" ELSE bring[d]
    BY <1>1, Cancelling DEF IInv, Line!TypeOK
  <1>3. \/ /\ active \in Calls /\ down' = [down EXCEPT ![active] = "runner"]
           /\ reader' = [at |-> "down", old |-> active, job |-> [at |-> "close"]]
           /\ claims' \subseteq claims /\ busy' = busy /\ active' = None
        \/ active = None /\ active' = None /\ reader' = Line!Closed /\ busy' = {} /\ claims' = {}
    BY DEF Line!Eof, Line!CancelActive, Line!CloseLine
  <1>4. busy' = {}
    BY <1>3 DEF OneInv, BusyInv, IInv, Line!TypeOK
  <1>5. \A d \in Calls : ~Unpiped(d)'
    <2>1. CASE active = None
      BY <1>3, <2>1 DEF Unpiped
    <2>2. CASE active # None
      <3>1. \A d \in Calls : ~Unpiped(d)
        BY <2>2 DEF OneInv, UnpipedInv
      <3>2. /\ active \in Calls /\ down' = [down EXCEPT ![active] = "runner"] /\ claims' \subseteq claims
        BY <1>3, <2>2
      <3>. QED BY <3>1, <3>2 DEF Unpiped, Piped, Settling, IInv, Line!TypeOK
    <2>. QED BY <2>1, <2>2
  <1>6. \A d \in Calls : ~Starts(d) /\ ~Starts(d)'
    BY <1>1, <1>3 DEF Starts, Line!Reading, Line!Closed
  <1>7. QueueInv'
    <2>1. \A d \in Calls : Begun(d)' <=> Begun(d)
      BY <1>2 DEF Begun, IInv, SetupInv, Before, After
    <2>2. hung' \subseteq Calls /\ ring \in Calls \cup {None} /\ inbox \in Seq(Line!Messages)
      BY <1>1 DEF IInv, Line!TypeOK
    <2>3. ~(reader.at = "down" /\ reader.job.at = "hangup")'
      BY <1>3 DEF Line!Closed
    <2>. QED BY <1>1, <1>6, <2>1, <2>2, <2>3, QuietKeeps DEF OneInv
  <1>8. EndingInv'
    BY <1>1, <1>2, <1>3, <1>4, <1>5, <1>6 DEF OneInv, EndingInv, Engaged, Before
  <1>9. UnpipedInv'
    BY <1>5 DEF UnpipedInv
  <1>10. BusyInv'
    <2>1. ASSUME NEW d \in declined
          PROVE  bring'[d] = "over" /\ d \notin claims' /\ (d \in hung => d \in answered)
      <3>1. bring[d] = "over" /\ d \notin claims /\ d \in Calls /\ (d \in hung => d \in answered)
        BY DEF OneInv, BusyInv, IInv, Line!TypeOK
      <3>. QED BY <1>2, <1>3, <3>1
    <2>. QED BY <1>1, <1>2, <1>3, <1>4, <2>1 DEF BusyInv, IInv, Line!TypeOK
  <1>. QED BY <1>7, <1>8, <1>9, <1>10 DEF OneInv

\* A call that is heard of and over will be heard to be; so will any other.
LEMMA HeadNew ==
  ASSUME IInv, QueueInv, NEW c \in Calls, NEW what \in {"incoming", "confirmed"}, Line!Hears(what, c)
  PROVE  /\ gw[c] = "gone" => Coming(c)'
         /\ \A d \in Calls : Coming(d) => Coming(d)'
         /\ \A d \in Calls : EndsBefore(d, 1) => d \in hung \/ (gw[d] = "gone" /\ ~Coming(d))
  <1>1. /\ Len(inbox) \in Nat \ {0} /\ Len(inbox') = Len(inbox) - 1
        /\ 1 \in 1..Len(inbox) /\ inbox[1].what = what /\ inbox[1].call = c
        /\ \A i \in 1..Len(inbox') : \A d \in Calls : IsGone(i, d)' <=> IsGone(i + 1, d)
    BY Hearing
  <1>2. \A d \in Calls : ~IsGone(1, d)
    BY <1>1 DEF IsGone
  <1>3. ASSUME NEW d \in Calls, Coming(d) PROVE Coming(d)'
    <2>1. PICK k \in 1..Len(inbox) : IsGone(k, d)
      BY <1>3 DEF Coming
    <2>2. PICK j \in 1..Len(inbox') : j + 1 = k
      <3>1. k # 1
        BY <1>2, <2>1
      <3>2. k - 1 \in 1..Len(inbox') /\ k - 1 + 1 = k
        BY <1>1, <3>1
      <3>. QED BY <3>2
    <2>. QED BY <1>1, <2>1, <2>2 DEF Coming
  <1>4. gw[c] = "gone" => Coming(c)
    BY <1>1 DEF QueueInv, CallInv, Coming
  <1>5. ASSUME NEW d \in Calls, EndsBefore(d, 1) PROVE d \in hung \/ (gw[d] = "gone" /\ ~Coming(d))
    BY <1>1, <1>2, <1>5 DEF EndsBefore, Coming
  <1>. QED BY <1>3, <1>4, <1>5

\* A call heard to be over is heard of no more.
LEMMA HeadGone ==
  ASSUME IInv, QueueInv, NEW c \in Calls, Line!Hears("disconnected", c)
  PROVE  /\ gw[c] = "gone" /\ \A i \in 1..Len(inbox') : inbox'[i].call # c
         /\ \A d \in Calls : d # c /\ Coming(d) => Coming(d)'
  <1>1. /\ Len(inbox) \in Nat \ {0} /\ Len(inbox') = Len(inbox) - 1
        /\ 1 \in 1..Len(inbox) /\ inbox[1].what = "disconnected" /\ inbox[1].call = c
        /\ \A i \in 1..Len(inbox') : /\ i + 1 \in 1..Len(inbox) /\ inbox'[i] = inbox[i + 1]
                                     /\ \A d \in Calls : IsGone(i, d)' <=> IsGone(i + 1, d)
    BY Hearing
  <1>2. gw[c] = "gone"
    BY HearingIsHarmless
  <1>3. \A i \in 1..Len(inbox') : inbox'[i].call # c
    BY <1>1 DEF QueueInv, CallInv
  <1>4. ASSUME NEW d \in Calls, d # c, Coming(d) PROVE Coming(d)'
    <2>1. PICK k \in 1..Len(inbox) : IsGone(k, d)
      BY <1>4 DEF Coming
    <2>2. PICK j \in 1..Len(inbox') : j + 1 = k
      <3>1. k # 1
        BY <1>1, <1>4, <2>1 DEF IsGone
      <3>2. k - 1 \in 1..Len(inbox') /\ k - 1 + 1 = k
        BY <1>1, <3>1
      <3>. QED BY <3>2
    <2>. QED BY <1>1, <2>1, <2>2 DEF Coming
  <1>. QED BY <1>2, <1>3, <1>4

(* Who is still engaged when another call is heard of is being hung up: a   *)
(* claim with no pipeline, or a busy line, is nobody's but the new call's.  *)
LEMMA NobodyElse ==
  ASSUME IInv, OneInv, NEW c \in Calls, NEW what \in {"incoming", "confirmed"}, Line!Hears(what, c),
         what = "confirmed" => ring # c
  PROVE  /\ ~Begun(c) /\ c \notin hung /\ busy = {}
         /\ \A d \in Calls : ~Unpiped(d)
  <1>1. ~Begun(c) /\ c \notin hung
    BY NotBegun DEF OneInv
  <1>2. /\ 1 \in 1..Len(inbox) /\ inbox[1].call = c /\ New(1)
    BY Hearing DEF New
  <1>3. ASSUME NEW d \in Calls, Begun(d), Engaged(d) PROVE d \in hung
    <2>1. EndsBefore(d, 1)
      BY <1>1, <1>2, <1>3 DEF OneInv, QueueInv, OrderInv, Known
    <2>2. d \in hung \/ (gw[d] = "gone" /\ ~Coming(d))
      BY <2>1, HeadNew DEF OneInv
    <2>. QED BY <1>3, <2>2 DEF OneInv, EndingInv
  <1>4. busy = {}
    BY <1>3 DEF Engaged, Begun, OneInv, BusyInv, IInv, Line!TypeOK
  <1>5. \A d \in Calls : ~Unpiped(d)
    BY <1>3 DEF Engaged, Begun, OneInv, UnpipedInv
  <1>. QED BY <1>1, <1>4, <1>5

\* start_call.
LEMMA StartOne ==
  ASSUME None \notin Calls, IInv, OneInv, NEW c \in Calls, NEW upto \in BOOLEAN,
         NEW what \in {"incoming", "confirmed"}, Line!Hears(what, c),
         what = "confirmed" => ring # c, Line!StartCall(c, upto)
  PROVE  OneInv'
  <1>0. /\ reader = Line!Reading /\ UNCHANGED <<gw, hung, busy>> /\ claims' \subseteq claims
        /\ \A d \in Calls : ~Starts(d)
    BY Hearing DEF Line!StartCall
  <1>1. /\ ~Begun(c) /\ c \notin hung /\ busy = {}
        /\ \A d \in Calls : ~Unpiped(d)
    BY NobodyElse
  <1>2. gw[c] = "gone" => Coming(c)'
    BY HeadNew DEF OneInv
  <1>3. CASE active = None /\ Line!BeginCall(c, upto) /\ UNCHANGED <<reader, active, down>>
    <2>1. /\ setup' = c /\ bring'[c] = "waiting" /\ ring' = c
          /\ \A d \in Calls : d # c => bring'[d] = IF setup = d THEN "over" ELSE bring[d]
          /\ \A d \in Calls : d # c => bring'[d] \notin Before \cup After
      BY <1>3, Beginning
    <2>2. /\ answered' \in {answered \cup {c}, answered \ {c}} /\ declined' = declined \ {c}
      BY <1>3 DEF Line!BeginCall
    <2>3. \A d \in Calls : ~Starts(d)' /\ (Begun(d)' <=> Begun(d) \/ d = c)
      <3>1. \A d \in Calls : setup = d => bring[d] # "none"
        BY DEF IInv, SetupInv, Before, After
      <3>. QED BY <1>0, <1>3, <2>1, <3>1 DEF Starts, Begun, Line!Reading
    <2>4. ~(reader.at = "down" /\ reader.job.at = "hangup")'
      BY <1>0, <1>3 DEF Line!Reading
    <2>5. QueueInv'
      BY <2>1, <2>3, <2>4, BeginsKeeps DEF OneInv
    <2>6. \A d \in Calls : ~Unpiped(d)'
      BY <1>0, <1>1, <1>3 DEF Unpiped, Piped, Settling
    <2>7. EndingInv'
      <3>1. \A d \in Calls : Engaged(d)' => d = c
        BY <1>0, <1>1, <1>3, <2>1, <2>3, <2>6 DEF Engaged
      <3>2. \A d \in Calls : bring'[d] \in Before => d \notin hung'
        BY <1>0, <1>1, <2>1
      <3>3. \A d \in Calls : setup' = d \/ active' = d => ring' = d
        BY <1>3, <2>1
      <3>. QED BY <1>0, <1>2, <3>1, <3>2, <3>3 DEF EndingInv
    <2>8. UnpipedInv'
      BY <2>6 DEF UnpipedInv
    <2>9. BusyInv'
      <3>1. ASSUME NEW d \in declined, d # c
            PROVE  /\ bring'[d] = "over" /\ d \notin claims' /\ active' # d
                   /\ d \in hung' => d \in answered' \ busy'
        <4>1. /\ bring[d] = "over" /\ d \notin claims /\ d \in Calls /\ active # d
              /\ d \in hung => d \in answered
          BY DEF OneInv, BusyInv, IInv, Line!TypeOK
        <4>. QED BY <1>0, <1>1, <1>3, <2>1, <2>2, <3>1, <4>1
      <3>. QED BY <1>0, <1>1, <2>1, <2>2, <3>1 DEF BusyInv
    <2>. QED BY <2>5, <2>7, <2>8, <2>9 DEF OneInv
  <1>4. CASE /\ Line!CancelActive(Calls) /\ Line!CancelSetup(Calls)
             /\ reader' = [at |-> "down", old |-> active,
                           job |-> [at |-> "start", call |-> c, up |-> upto]]
             /\ UNCHANGED Line!rings
    <2>1. /\ active \in Calls /\ active' = None /\ down' = [down EXCEPT ![active] = "runner"]
          /\ UNCHANGED <<ring, answered, declined>>
      BY <1>4 DEF Line!CancelActive, Line!rings
    <2>2. /\ setup' = None
          /\ \A d \in Calls : bring'[d] = IF setup = d THEN "over" ELSE bring[d]
      BY <1>4, Cancelling DEF IInv, Line!TypeOK
    <2>3. \A d \in Calls : (Starts(d)' <=> d = c) /\ (Begun(d)' <=> Begun(d))
      <3>1. \A d \in Calls : setup = d => bring[d] # "none"
        BY DEF IInv, SetupInv, Before, After
      <3>. QED BY <1>4, <2>2, <3>1 DEF Starts, Begun
    <2>4. ~(reader.at = "down" /\ reader.job.at = "hangup")'
      BY <1>4
    <2>5. QueueInv'
      BY <2>1, <2>3, <2>4, BeginsKeeps DEF OneInv
    <2>6. \A d \in Calls : ~Unpiped(d)'
      BY <1>0, <1>1, <2>1 DEF Unpiped, Piped, Settling, IInv, Line!TypeOK
    <2>7. EndingInv'
      <3>1. \A d \in Calls : Engaged(d)' => d = c
        BY <1>0, <1>1, <2>1, <2>2, <2>3, <2>6 DEF Engaged
      <3>2. \A d \in Calls : bring'[d] \in Before => d \notin hung'
        BY <1>0, <2>2 DEF OneInv, EndingInv, Before
      <3>. QED BY <1>0, <1>2, <2>1, <2>2, <3>1, <3>2 DEF EndingInv
    <2>8. UnpipedInv'
      BY <2>6 DEF UnpipedInv
    <2>9. BusyInv'
      <3>1. ASSUME NEW d \in declined
            PROVE  bring'[d] = "over" /\ d \notin claims' /\ (d \in hung => d \in answered) /\ d # None
        <4>1. /\ bring[d] = "over" /\ d \notin claims /\ d \in Calls /\ (d \in hung => d \in answered)
          BY DEF OneInv, BusyInv, IInv, Line!TypeOK
        <4>. QED BY <1>0, <2>2, <4>1
      <3>. QED BY <1>0, <1>1, <2>1, <2>2, <3>1 DEF BusyInv
    <2>. QED BY <2>5, <2>7, <2>8, <2>9 DEF OneInv
  <1>. QED BY <1>3, <1>4 DEF Line!StartCall

\* A ring over a call that is up, and a call that is answered.
LEMMA HeardOne ==
  ASSUME None \notin Calls, IInv, OneInv, NEW c \in Calls, NEW what \in {"incoming", "confirmed"},
         Line!Hears(what, c),
         UNCHANGED <<reader, ring, declined, setup, bring, active, down, claims>>,
         \/ UNCHANGED <<answered, busy>>
         \/ /\ ring = c /\ answered' = answered \cup {c}
            /\ busy' = IF c \in declined \ answered THEN busy \cup {c} ELSE busy
  PROVE  OneInv'
  <1>1. UNCHANGED <<gw, hung>> /\ reader = Line!Reading /\ \A d \in Calls : ~Starts(d)
    BY Hearing
  <1>2. \A d \in Calls : ~Starts(d)' /\ (Begun(d)' <=> Begun(d))
    BY <1>1 DEF Starts, Begun
  <1>3. ~(reader.at = "down" /\ reader.job.at = "hangup")'
    BY <1>1 DEF Line!Reading
  <1>4. QueueInv'
    BY <1>1, <1>2, <1>3, SkipKeeps DEF OneInv
  <1>5. UnpipedInv'
    BY <1>1, OneFrames DEF OneInv
  <1>6. /\ gw[c] = "gone" => Coming(c)'
        /\ \A d \in Calls : Coming(d) => Coming(d)'
    BY HeadNew DEF OneInv
  <1>7. EndingInv'
    <2>1. \A d \in Calls : Engaged(d)' => Engaged(d) \/ d = c
      BY <1>1 DEF Engaged, Unpiped, Piped, Settling, Starts
    <2>. QED BY <1>1, <1>6, <2>1 DEF OneInv, EndingInv
  <1>8. BusyInv'
    <2>1. CASE UNCHANGED <<answered, busy>>
      BY <1>1, <2>1, OneFrames DEF OneInv
    <2>2. CASE /\ ring = c /\ answered' = answered \cup {c}
               /\ busy' = IF c \in declined \ answered THEN busy \cup {c} ELSE busy
      <3>1. reader'.at # "down"
        BY <1>1 DEF Line!Reading
      <3>2. ASSUME NEW d \in declined
            PROVE  d \in hung => d \in answered' \ busy'
        BY <2>2, <3>2 DEF OneInv, BusyInv
      <3>3. ASSUME NEW d \in busy'
            PROVE  /\ d \in declined \cap answered'
                   /\ setup = None /\ active = None
        BY <2>2, <3>3 DEF OneInv, BusyInv
      <3>. QED BY <1>1, <3>1, <3>2, <3>3 DEF OneInv, BusyInv
    <2>. QED BY <2>1, <2>2
  <1>. QED BY <1>4, <1>5, <1>7, <1>8 DEF OneInv

\* disconnected.
LEMMA DisconnectedOne ==
  ASSUME None \notin Calls, IInv, OneInv, NEW c \in Calls, Line!Disconnected(c)
  PROVE  OneInv'
  <1>0. /\ Line!Hears("disconnected", c) /\ Line!CancelSetup({c}) /\ {c} \in SUBSET Calls
        /\ UNCHANGED <<answered, declined>> /\ claims' \subseteq claims
    BY DEF Line!Disconnected, Line!Forget, Line!rings
  <1>1. UNCHANGED <<gw, hung>> /\ reader = Line!Reading /\ \A d \in Calls : ~Starts(d)
    BY <1>0, Hearing
  <1>2. /\ gw[c] = "gone" /\ \A i \in 1..Len(inbox') : inbox'[i].call # c
        /\ \A d \in Calls : d # c /\ Coming(d) => Coming(d)'
    BY <1>0, HeadGone DEF OneInv
  <1>3. /\ setup' = IF setup = c THEN None ELSE setup
        /\ \A d \in Calls : bring'[d] = IF setup = d /\ d = c THEN "over" ELSE bring[d]
    BY <1>0, Cancelling
  <1>4. \A d \in Calls : Begun(d)' <=> Begun(d)
    BY <1>3 DEF Begun, IInv, SetupInv, Before, After
  <1>5. \A d \in Calls : bring'[d] \in Before => d \notin hung'
    BY <1>1, <1>3 DEF OneInv, EndingInv, Before
  <1>6. ASSUME NEW d \in declined
        PROVE  /\ bring'[d] = "over" /\ d \notin claims' /\ active # d /\ d # None
               /\ d \in hung' => d \in answered' \ busy
               /\ ring = d => setup = None /\ active = None
    <2>1. /\ bring[d] = "over" /\ d \notin claims /\ d \in Calls /\ active # d
          /\ d \in hung => d \in answered \ busy
          /\ ring = d => setup = None /\ active = None
      BY DEF OneInv, BusyInv, IInv, Line!TypeOK
    <2>. QED BY <1>0, <1>1, <1>3, <2>1
  <1>7. CASE /\ Line!CancelActive({c})
             /\ reader' = [at |-> "down", old |-> c, job |-> [at |-> "hangup", call |-> c]]
             /\ UNCHANGED <<Line!rings, busy>>
    <2>1. /\ active = c /\ active' = None /\ down' = [down EXCEPT ![c] = "runner"]
          /\ UNCHANGED <<ring, busy>>
      BY <1>7 DEF Line!CancelActive, Line!rings
    <2>2. setup' = None /\ busy = {} /\ \A d \in Calls : ~Unpiped(d)
      <3>1. setup' = None
        BY <1>3, <2>1 DEF IInv, SetupInv, Line!TypeOK
      <3>. QED BY <2>1, <3>1 DEF OneInv, BusyInv, UnpipedInv, IInv, Line!TypeOK
    <2>3. \A d \in Calls : ~Unpiped(d)' /\ ~Starts(d)'
      BY <1>0, <1>7, <2>1, <2>2 DEF Unpiped, Piped, Settling, Starts, IInv, Line!TypeOK
    <2>4. QueueInv'
      BY <1>0, <1>2, <1>4, <1>7, <2>1, <2>3, SkipKeeps DEF OneInv
    <2>5. EndingInv'
      BY <1>5, <2>1, <2>2, <2>3 DEF EndingInv, Engaged
    <2>6. UnpipedInv'
      BY <2>3 DEF UnpipedInv
    <2>7. BusyInv'
      BY <1>0, <1>6, <2>1, <2>2 DEF BusyInv
    <2>. QED BY <2>4, <2>5, <2>6, <2>7 DEF OneInv
  <1>8. CASE /\ active # c /\ Line!Forget(c)
             /\ claims' = claims \ (Line!AbandonedAsks({c}) \cup Line!LetGoUnpiped(c))
             /\ UNCHANGED <<reader, active, down>>
    <2>1. busy' = busy \ {c} /\ ring' = IF ring = c THEN None ELSE ring
      BY <1>8 DEF Line!Forget
    <2>2. \A d \in Calls : ~Starts(d)'
      BY <1>1, <1>8 DEF Starts
    <2>3. ~(reader.at = "down" /\ reader.job.at = "hangup")'
      BY <1>1, <1>8 DEF Line!Reading
    <2>4. QueueInv'
      BY <1>0, <1>2, <1>4, <2>1, <2>2, <2>3, SkipKeeps DEF OneInv
    <2>5. \A d \in Calls : Unpiped(d)' => Unpiped(d) /\ d # c
      <3>1. ASSUME Unpiped(c) PROVE c \notin claims'
        <4>1. active = None /\ setup \in {c, None} /\ c \notin hung
          BY <3>1 DEF OneInv, UnpipedInv
        <4>2. Line!Teardowns(c) = {}
          BY <4>1 DEF Line!Teardowns, IInv, SaidInv
        <4>. QED BY <1>8, <4>1, <4>2 DEF Line!LetGoUnpiped
      <3>. QED BY <1>0, <1>8, <3>1 DEF Unpiped, Piped, Settling
    <2>6. EndingInv'
      <3>1. \A d \in Calls : Engaged(d)' => Engaged(d) /\ d # c
        BY <1>3, <1>8, <2>1, <2>2, <2>5 DEF Engaged
      <3>2. \A d \in Calls : setup' = d \/ active' = d => ring' = d
        BY <1>3, <1>8, <2>1 DEF OneInv, EndingInv
      <3>. QED BY <1>1, <1>2, <1>5, <3>1, <3>2 DEF OneInv, EndingInv
    <2>7. UnpipedInv'
      <3>. SUFFICES ASSUME NEW d \in Calls, Unpiped(d)'
                    PROVE  /\ d \notin hung' /\ bring'[d] \in {"asking", "building", "over"}
                           /\ setup' \in {d, None} /\ active' = None /\ reader'.at # "down"
        BY DEF UnpipedInv
      <3>1. /\ d \notin hung /\ bring[d] \in {"asking", "building", "over"} /\ d # c
            /\ setup \in {d, None} /\ active = None /\ reader.at # "down"
        BY <2>5 DEF OneInv, UnpipedInv
      <3>. QED BY <1>1, <1>3, <1>8, <3>1
    <2>8. BusyInv'
      <3>1. ASSUME NEW d \in declined
            PROVE  /\ bring'[d] = "over" /\ d \notin claims' /\ active' # d
                   /\ d \in hung' => d \in answered' \ busy'
                   /\ ring' = d => setup' = None /\ active' = None
        BY <1>3, <1>6, <1>8, <2>1
      <3>2. ASSUME NEW d \in busy'
            PROVE  /\ d \in declined \cap answered
                   /\ setup' = None /\ active' = None /\ reader'.at # "down"
        BY <1>3, <1>8, <2>1, <3>2 DEF OneInv, BusyInv
      <3>. QED BY <1>0, <3>1, <3>2 DEF BusyInv
    <2>. QED BY <2>4, <2>6, <2>7, <2>8 DEF OneInv
  <1>. QED BY <1>0, <1>7, <1>8 DEF Line!Disconnected

\* The pipeline the reader waited for is gone.
LEMMA ReaderSettledOne ==
  ASSUME None \notin Calls, IInv, OneInv, NEW c \in Calls, Line!ReaderSettled(c)
  PROVE  OneInv'
  <1>. DEFINE job == reader.job
  <1>0. /\ down[c] = "settle" /\ down' = [down EXCEPT ![c] = "done"]
        /\ reader.at = "down" /\ reader.old = c
        /\ UNCHANGED <<gw, inbox, hung, active>>
    BY DEF Line!ReaderSettled, Line!WaitedByReader, Line!line
  <1>1. setup = None /\ active = None /\ job \in Line!Jobs
    BY <1>0 DEF IInv, Line!TypeOK, TearInv, Line!Readers, Line!Reading, Line!Closed
  <1>2. busy = {} /\ \A d \in Calls : ~Unpiped(d)
    BY <1>0 DEF OneInv, BusyInv, UnpipedInv, IInv, Line!TypeOK
  <1>3. ASSUME claims' \subseteq claims, c \notin claims' PROVE \A d \in Calls : ~Unpiped(d)'
    BY <1>0, <1>2, <1>3 DEF Unpiped, Piped, Settling, IInv, Line!TypeOK
  <1>4. \A d \in Calls : bring[d] \notin Before \cup After
    BY <1>1 DEF IInv, SetupInv
  <1>5. ASSUME NEW d \in declined
        PROVE  bring[d] = "over" /\ d \notin claims /\ d \in Calls /\ (d \in hung => d \in answered)
    BY DEF OneInv, BusyInv, IInv, Line!TypeOK
  <1>6. \A d \in Calls : Coming(d)' <=> Coming(d)
    BY <1>0 DEF Coming, IsGone
  <1>7. CASE job.at = "start" /\ Line!BeginCall(job.call, job.up) /\ reader' = Line!Reading
             /\ claims' = claims \ {c} /\ UNCHANGED busy
    <2>0. PICK j \in Calls : j = job.call /\ Starts(j)
      BY <1>0, <1>1, <1>7 DEF Line!Jobs, Starts
    <2>1. job.up \in BOOLEAN /\ Line!BeginCall(j, job.up)
      BY <1>1, <1>7, <2>0 DEF Line!Jobs
    <2>2. /\ setup' = j /\ bring'[j] = "waiting" /\ ring' = j
          /\ \A d \in Calls : d # j => bring'[d] = bring[d]
      BY <1>1, <2>1, Beginning
    <2>3. /\ answered' \in {answered \cup {j}, answered \ {j}} /\ declined' = declined \ {j}
      BY <2>1 DEF Line!BeginCall
    <2>4. \A d \in Calls : ~Starts(d)' /\ (Begun(d)' <=> Begun(d) \/ d = j)
      BY <1>7, <2>2 DEF Starts, Begun, Line!Reading
    <2>5. QueueInv'
      <3>1. ~(reader.at = "down" /\ reader.job.at = "hangup")'
        BY <1>7 DEF Line!Reading
      <3>. HIDE DEF job
      <3>. QED BY <1>0, <2>0, <2>2, <2>4, <3>1, StartedKeeps DEF OneInv
    <2>6. \A d \in Calls : ~Unpiped(d)'
      BY <1>3, <1>7
    <2>7. j \notin hung
      BY <2>0 DEF OneInv, QueueInv, CallInv, CurrentInv
    <2>8. EndingInv'
      <3>1. \A d \in Calls : Engaged(d)' => d = j
        BY <1>0, <1>1, <1>2, <1>7, <2>2, <2>4, <2>6 DEF Engaged
      <3>2. Engaged(j)
        BY <2>0 DEF Engaged
      <3>3. \A d \in Calls : bring'[d] \in Before => d \notin hung'
        BY <1>0, <1>4, <2>2, <2>7
      <3>. QED BY <1>0, <1>1, <1>6, <2>2, <3>1, <3>2, <3>3 DEF OneInv, EndingInv
    <2>9. UnpipedInv'
      BY <2>6 DEF UnpipedInv
    <2>10. BusyInv'
      <3>1. ASSUME NEW d \in declined'
            PROVE  /\ bring'[d] = "over" /\ d \notin claims' /\ active' # d
                   /\ d \in hung' => d \in answered' \ busy'
                   /\ ring' # d
        BY <1>0, <1>1, <1>2, <1>5, <1>7, <2>2, <2>3, <3>1
      <3>. QED BY <1>2, <1>7, <3>1 DEF BusyInv
    <2>. QED BY <2>5, <2>8, <2>9, <2>10 DEF OneInv
  <1>8. CASE job.at = "hangup" /\ Line!Forget(c) /\ reader' = Line!Reading
             /\ claims' = claims \ {c} /\ UNCHANGED <<setup, bring>>
    <2>1. /\ busy' = {} /\ ring' = (IF ring = c THEN None ELSE ring)
          /\ UNCHANGED <<answered, declined>>
      BY <1>2, <1>8 DEF Line!Forget
    <2>2. \A d \in Calls : (Starts(d)' <=> Starts(d)) /\ (Begun(d)' <=> Begun(d)) /\ ~Starts(d)
      BY <1>8 DEF Starts, Begun, Line!Reading
    <2>3. QueueInv'
      <3>1. gw[c] = "gone" /\ \A i \in 1..Len(inbox) : inbox[i].call # c
        BY <1>0, <1>8 DEF OneInv, QueueInv, CurrentInv
      <3>2. ~(reader.at = "down" /\ reader.job.at = "hangup")'
        BY <1>8 DEF Line!Reading
      <3>3. hung' \subseteq Calls /\ ring \in Calls \cup {None} /\ inbox \in Seq(Line!Messages)
        BY <1>0 DEF IInv, Line!TypeOK
      <3>. QED BY <1>0, <2>1, <2>2, <3>1, <3>2, <3>3, QuietKeeps DEF OneInv
    <2>4. \A d \in Calls : ~Unpiped(d)'
      BY <1>3, <1>8
    <2>5. EndingInv'
      BY <1>0, <1>1, <1>4, <1>8, <2>1, <2>2, <2>4 DEF EndingInv, Engaged
    <2>6. UnpipedInv'
      BY <2>4 DEF UnpipedInv
    <2>7. BusyInv'
      BY <1>0, <1>1, <1>5, <1>8, <2>1 DEF BusyInv, IInv, Line!TypeOK
    <2>. QED BY <2>3, <2>5, <2>6, <2>7 DEF OneInv
  <1>9. CASE job.at = "close" /\ Line!CloseLine /\ UNCHANGED <<Line!rings, setup, bring>>
    <2>1. /\ busy' = {} /\ claims' = {} /\ reader' = Line!Closed
          /\ UNCHANGED <<ring, answered, declined>>
      BY <1>9 DEF Line!CloseLine, Line!rings
    <2>2. \A d \in Calls : (Starts(d)' <=> Starts(d)) /\ (Begun(d)' <=> Begun(d)) /\ ~Starts(d)
      BY <1>9, <2>1 DEF Starts, Begun, Line!Closed
    <2>3. QueueInv'
      <3>2. ~(reader.at = "down" /\ reader.job.at = "hangup")'
        BY <2>1 DEF Line!Closed
      <3>3. hung' \subseteq Calls /\ ring \in Calls \cup {None} /\ inbox \in Seq(Line!Messages)
        BY <1>0 DEF IInv, Line!TypeOK
      <3>. QED BY <1>0, <2>1, <2>2, <3>2, <3>3, QuietKeeps DEF OneInv
    <2>4. \A d \in Calls : ~Unpiped(d)'
      BY <2>1 DEF Unpiped
    <2>5. EndingInv'
      BY <1>0, <1>1, <1>4, <1>9, <2>1, <2>2, <2>4 DEF EndingInv, Engaged
    <2>6. UnpipedInv'
      BY <2>4 DEF UnpipedInv
    <2>7. BusyInv'
      BY <1>0, <1>1, <1>5, <1>9, <2>1 DEF BusyInv, IInv, Line!TypeOK
    <2>. QED BY <2>3, <2>5, <2>6, <2>7 DEF OneInv
  <1>. QED BY <1>7, <1>8, <1>9 DEF Line!ReaderSettled

\* The reader.
LEMMA ReaderOne ==
  ASSUME None \notin Calls, IInv, OneInv, NEW c \in Calls, Line!Reader(c)
  PROVE  OneInv'
  <1>. USE DEF Line!rings
  <1>1. CASE Line!Incoming(c)
    <2>1. CASE Line!Hears("incoming", c) /\ UNCHANGED <<reader, ring, answered, declined, setup, bring,
                                                        active, down, busy, claims>>
      BY <2>1, HeardOne
    <2>2. CASE Line!Hears("incoming", c) /\ Line!StartCall(c, FALSE)
      BY <2>2, StartOne
    <2>. QED BY <1>1, <2>1, <2>2 DEF Line!Incoming
  <1>2. CASE Line!Confirmed(c)
    <2>1. CASE /\ Line!Hears("confirmed", c) /\ ring = c /\ answered' = answered \cup {c}
               /\ busy' = IF c \in declined \ answered THEN busy \cup {c} ELSE busy
               /\ UNCHANGED <<reader, ring, declined, setup, bring, active, down, claims>>
      BY <2>1, HeardOne
    <2>2. CASE Line!Hears("confirmed", c) /\ ring # c /\ Line!StartCall(c, TRUE)
      BY <2>2, StartOne
    <2>. QED BY <1>2, <2>1, <2>2 DEF Line!Confirmed
  <1>. QED BY <1>1, <1>2, DisconnectedOne, ReaderSettledOne DEF Line!Reader

\* What the gateway is like stays so, and nobody can tell but by its calls.
LEMMA OneKeeps ==
  ASSUME None \notin Calls, IInv, ~overlap => OneInv, [Line!Next]_Line!vars
  PROVE  ~overlap' => OneInv'
  <1>1. UNCHANGED overlap
    <2>1. CASE UNCHANGED Line!vars
      BY <2>1 DEF Line!vars, Line!line, Line!kind
    <2>2. ASSUME NEW c \in Calls, Line!Gateway(c) PROVE UNCHANGED overlap
      BY <2>2 DEF Line!Gateway, Line!Invite, Line!PickUp, Line!Leaves, Line!CallEnds,
         Line!kind
    <2>3. ASSUME NEW c \in Calls, Line!Reader(c) PROVE UNCHANGED overlap
      BY <2>3 DEF Line!Reader, Line!Incoming, Line!Confirmed, Line!Disconnected,
         Line!Hears, Line!ReaderSettled,
                  Line!line, Line!kind
    <2>4. ASSUME NEW c \in Calls, Line!BringUp(c) PROVE UNCHANGED overlap
      BY <2>4, BringUpSays
    <2>5. ASSUME NEW c \in Calls, Line!Teardown(c) \/ Line!PipelineDies(c) \/ Line!BusyTaskEnds(c)
          PROVE  UNCHANGED overlap
      BY <2>5 DEF Line!Teardown, Line!RunnerEnds, Line!Settled, Line!TeardownBegins,
         Line!PipelineDies,
                  Line!BusyTaskEnds, Line!line, Line!kind
    <2>6. CASE Line!Eof
      BY <2>6 DEF Line!Eof, Line!line, Line!kind
    <2>. QED BY <2>1, <2>2, <2>3, <2>4, <2>5, <2>6 DEF Line!Next, Line!AllOver
  <1>. SUFFICES ASSUME ~overlap, OneInv PROVE OneInv'
    BY <1>1
  <1>2. CASE UNCHANGED Line!vars
    <2>1. /\ UNCHANGED <<gw, inbox, hung, reader, ring, answered, declined, setup, bring, active, down, claims, busy>>
      BY <1>2 DEF Line!vars, Line!line, Line!kind
    <2>2. QueueInv'
      <3>1. \A d \in Calls : (Starts(d)' <=> Starts(d)) /\ (Begun(d)' <=> Begun(d))
        BY <2>1 DEF Starts, Begun
      <3>2. hung' \subseteq Calls /\ ring \in Calls \cup {None} /\ inbox \in Seq(Line!Messages)
        BY <2>1 DEF IInv, Line!TypeOK
      <3>. QED BY <2>1, <3>1, <3>2, QuietKeeps DEF OneInv
    <2>3. UnpipedInv' /\ BusyInv'
      BY <2>1, OneFrames DEF OneInv
    <2>4. EndingInv'
      BY <2>1 DEF OneInv, EndingInv, Engaged, Unpiped, Piped, Settling, Starts, Coming,
         IsGone
    <2>. QED BY <2>2, <2>3, <2>4 DEF OneInv
  <1>. QED BY <1>2, GatewayOne, ReaderOne, BringUpOne, TeardownOne, HangsUpOne, EofOne
           DEF Line!Next, Line!AllOver

\* A brain started afresh has it, and so has one started under a call.
LEMMA InitOne == None \notin Calls /\ Line!Init => OneInv
  <1>. SUFFICES ASSUME None \notin Calls, Line!Init PROVE OneInv
    OBVIOUS
  <1>1. /\ reader = Line!Reading /\ hung = {} /\ answered = {} /\ declined = {} /\ busy = {} /\ claims = {}
        /\ ring = None /\ setup = None /\ active = None
        /\ \A d \in Calls : bring[d] = "none"
    BY DEF Line!Init
  <1>2. \A d \in Calls : ~Known(d) /\ ~Begun(d) /\ ~Starts(d)
    BY <1>1 DEF Known, Begun, Starts, Line!Reading
  <1>3. \/ inbox = <<>> /\ \A d \in Calls : gw[d] = "none"
        \/ \E c \in Calls : /\ \A d \in Calls : gw[d] = IF d = c THEN "up" ELSE "none"
                            /\ inbox = <<[what |-> "confirmed", call |-> c]>>
    BY DEF Line!Init
  <1>4. \A d \in Calls : gw[d] \in {"none", "up"}
    BY <1>3
  <1>5. \A d, e \in Line!Carried : d = e
    BY <1>3 DEF Line!Carried
  <1>6. /\ \A i \in 1..Len(inbox) : /\ i = 1 /\ inbox[i].what = "confirmed" /\ inbox[i].call \in Calls
                                    /\ gw[inbox[i].call] = "up"
        /\ \A d \in Line!Carried, i \in 1..Len(inbox) : inbox[i].call = d
    <2>1. CASE inbox = <<>>
      BY <2>1
    <2>2. ASSUME NEW c \in Calls, \A d \in Calls : gw[d] = IF d = c THEN "up" ELSE "none",
                 inbox = <<[what |-> "confirmed", call |-> c]>>
          PROVE  /\ \A i \in 1..Len(inbox) : /\ i = 1 /\ inbox[i].what = "confirmed" /\ inbox[i].call \in Calls
                                             /\ gw[inbox[i].call] = "up"
                 /\ \A d \in Line!Carried, i \in 1..Len(inbox) : inbox[i].call = d
      <3>1. Len(inbox) = 1 /\ inbox[1].what = "confirmed" /\ inbox[1].call = c
        BY <2>2
      <3>. QED BY <2>2, <3>1 DEF Line!Carried
    <2>. QED BY <1>3, <2>1, <2>2
  <1>7. CallInv
    BY <1>1, <1>2, <1>4, <1>6 DEF CallInv
  <1>8. OrderInv
    BY <1>2, <1>5, <1>6 DEF OrderInv, Line!Carried
  <1>9. CurrentInv
    BY <1>1, <1>2, <1>6 DEF CurrentInv, Line!Reading, Line!Carried
  <1>10. EndingInv /\ UnpipedInv /\ BusyInv
    BY <1>1, <1>2, <1>4 DEF EndingInv, UnpipedInv, BusyInv, Before, Unpiped
  <1>. QED BY <1>7, <1>8, <1>9, <1>10 DEF OneInv, QueueInv

(* A call asks the arbiter alone, a claim does not outlive its call, and    *)
(* the busy line is sent to nobody else; an old gateway aside, whose calls  *)
(* overlap, and with any gateway a pipeline runs under its claim, alone.    *)
(* (start_call, cancel_setup, CallClaim._release and on_call_state.)        *)
THEOREM OneCallAtATime == ASSUME None \notin Calls PROVE Spec => []ClaimsFollowCalls
  <1>1. Init => (~overlap => OneInv)
    BY InitOne DEF Init
  <1>2. IInv /\ (~overlap => OneInv) /\ [Next]_vars => (~overlap => OneInv)'
    BY OneKeeps, LineAlone
  <1>3. IInv => Line!SlotIsClaimed /\ Line!OnePipeline
    BY DEF IInv, PipeInv, ClaimInv, Line!SlotIsClaimed, Line!OnePipeline, Piped, Settling
  <1>4. ASSUME IInv, OneInv PROVE Line!AskAlone
    <2>. SUFFICES ASSUME NEW c \in Calls, bring[c] = "asking" PROVE claims = {c}
      BY DEF Line!AskAlone
    <2>1. /\ bring[c] \in Before \ {"waiting"} /\ setup = c
      BY <1>4 DEF Before, IInv, SetupInv
    <2>2. /\ active = None /\ reader # Line!Closed
          /\ \A d \in Calls : ~Settling(d)
      BY <1>4, <2>1, NobodyHolds
    <2>3. c \in claims
      BY <1>4, <2>2 DEF IInv, ClaimInv
    <2>4. \A d \in claims : d = c
      BY <1>4, <2>1, <2>2 DEF OneInv, UnpipedInv, Unpiped, Piped, IInv, Line!TypeOK
    <2>. QED BY <2>3, <2>4
  <1>5. ASSUME IInv, OneInv PROVE Line!NoClaimLeftBehind
    <2>. SUFFICES ASSUME reader = Line!Reading, NEW c \in claims, gw[c] = "gone", Line!Teardowns(c) = {}
                  PROVE  [what |-> "disconnected", call |-> c] \in {inbox[i] : i \in DOMAIN inbox}
      BY DEF Line!NoClaimLeftBehind
    <2>1. ~Settling(c) /\ c \in Calls
      BY <1>5 DEF IInv, TearInv, Line!Teardowns, Line!WaitedByReader, Line!Reading,
         Line!TypeOK
    <2>2. Coming(c)
      BY <1>5, <2>1 DEF OneInv, EndingInv, Engaged, Unpiped, Piped
    <2>3. PICK i \in 1..Len(inbox) : IsGone(i, c)
      BY <2>2 DEF Coming
    <2>4. inbox \in Seq(Line!Messages)
      BY <1>5 DEF IInv, Line!TypeOK
    <2>5. inbox[i] \in Line!Messages /\ i \in DOMAIN inbox
      BY <2>3, <2>4
    <2>6. inbox[i] = [what |-> "disconnected", call |-> c]
      BY <2>3, <2>5 DEF IsGone, Line!Messages
    <2>. QED BY <2>5, <2>6
  <1>6. ASSUME IInv, OneInv PROVE Line!BusyLineAlone
    <2>. SUFFICES ASSUME NEW c \in Calls
                  PROVE  /\ c \in busy => active = None /\ setup = None
                         /\ bring[c] = "busyLine" => active = None /\ busy = {}
      BY DEF Line!BusyLineAlone
    <2>1. c \in busy => active = None /\ setup = None
      BY <1>6 DEF OneInv, BusyInv
    <2>2. ASSUME bring[c] = "busyLine" PROVE setup = c /\ c # None /\ active = None
      BY <1>6, <2>2 DEF IInv, SetupInv, Line!TypeOK, Before, After
    <2>3. ASSUME bring[c] = "busyLine" PROVE busy = {}
      BY <1>6, <2>2, <2>3 DEF OneInv, BusyInv, IInv, Line!TypeOK
    <2>. QED BY <2>1, <2>2, <2>3
  <1>7. IInv /\ (~overlap => OneInv) => ClaimsFollowCalls
    BY <1>3, <1>4, <1>5, <1>6 DEF ClaimsFollowCalls, Line!LineInv
  <1>. QED BY <1>1, <1>2, <1>7, IInvHolds, PTL DEF Spec

-----------------------------------------------------------------------------
(* The conversation a call puts on hold, however many calls ask: all a hold,   *)
(* a question or a notice switches follows where the arbiter, the question and *)
(* the notice are.                                                             *)

(* Where the arbiter is says what of the hold is on, and whether the engine is. *)
HoldInv ==
  /\ holding <=> arb \in {"holding", "closing", "held"}
  /\ held <=> arb \in {"held", "back"}
  /\ gateHeld <=> arb \in {"closing", "held", "back"}
  /\ arb = "held" <=> stt = "off"
  /\ arb = "back" <=> stt = "connecting"
  /\ stt = "failed" => arb = "idle"

(* Every line in the air is that of a question, a hold or a notice under way.  *)
LineInv ==
  /\ askAt # "no" <=> arb = "asking"
  /\ holdOff <=> askAt = "asking"
  /\ line["question"] # "no" <=> askAt = "asking"
  /\ line["step"] # "no" <=> arb = "holding"
  /\ line["notice"] # "no" <=> greeting = "saying"
  /\ ownCut => line["question"] # "no" \/ line["step"] # "no" \/ line["notice"] # "no"

(* Nobody is heard on hold; and only a notice, a hold or a session that cannot  *)
(* hear keeps the room unheard.                                                *)
MuteInv ==
  /\ arb \in {"holding", "closing", "held"} => mute
  /\ mute => greeting = "saying" \/ arb \in {"holding", "closing", "held", "back"}
             \/ stt = "failed"

(* A question that is open has had no answer; one that was taken stays taken.  *)
AnswerInv ==
  /\ arb = "asking" =>
       /\ closed = "none" /\ caller = "rings" /\ fut \in {"open", "taken", "declined"}
       /\ fut = "open" => told = "none"
       /\ fut = "taken" => told \in {"taken", "NONE"}
  /\ arb \in {"take", "holding", "closing", "held"} /\ caller = "rings" =>
       /\ closed = "closed-taken" /\ fut # "open"
       /\ told \in {"none", "NONE", "taken", "closed-taken"}

(* A question and its hold interrupt once each, a notice once.                 *)
PassingInv ==
  passing + (IF arb \in {"asking", "take"} THEN 1 ELSE 0)
    <= 2 * questions + (IF greeting = "due" THEN 0 ELSE 1)

HeldInv == Held!TypeOK /\ HoldInv /\ LineInv /\ MuteInv /\ AnswerInv /\ PassingInv

\* Every step of the session, its switchboard and its callers keeps them.
LEMMA HeldKeeps ==
  ASSUME MaxQuestions \in Nat, HeldInv, [Held!Next]_Held!vars
  PROVE  HeldInv'
  <1>. USE DEF HeldInv, Held!TypeOK, HoldInv, LineInv, MuteInv, AnswerInv, PassingInv, Held!Lines,
               Held!arbVars, Held!promptVars, Held!holdVars, Held!lineVars
  <1>1. CASE Held!Interruption
    <2>1. Held!TypeOK'
      <3>1. passing' \in 0..(2 * MaxQuestions + 1)
        BY <1>1 DEF Held!Interruption
      <3>2. line' \in [Held!Lines -> {"no", "clearing", "playing", "played", "cut"}]
            /\ waited' \subseteq Held!Lines
        BY <1>1 DEF Held!Interruption
      <3>. QED BY <1>1, <3>1, <3>2 DEF Held!Interruption
    <2>2. HoldInv'
      BY <1>1 DEF Held!Interruption
    <2>3. LineInv'
      BY <1>1 DEF Held!Interruption
    <2>4. MuteInv'
      BY <1>1 DEF Held!Interruption
    <2>5. AnswerInv'
      BY <1>1 DEF Held!Interruption
    <2>6. PassingInv'
      BY <1>1 DEF Held!Interruption
    <2>. QED BY <2>1, <2>2, <2>3, <2>4, <2>5, <2>6
  <1>2. ASSUME NEW l \in Held!Lines, Held!PutLine(l) PROVE HeldInv'
    BY <1>2 DEF Held!PutLine
  <1>3. ASSUME NEW l \in Held!Lines, Held!LinePlayed(l) PROVE HeldInv'
    BY <1>3 DEF Held!LinePlayed
  <1>4. CASE Held!NoticeBegins
    BY <1>4 DEF Held!NoticeBegins, Held!BeginLine
  <1>5. CASE Held!NoticeEnds
    <2>1. Held!TypeOK'
      <3>1. mute' \in BOOLEAN
        BY <1>5, Zenon DEF Held!NoticeEnds, Held!Unmuted
      <3>2. line' \in [Held!Lines -> {"no", "clearing", "playing", "played", "cut"}]
        BY <1>5 DEF Held!NoticeEnds, Held!EndLine
      <3>3. /\ greeting' = "over" /\ ownCut' \in BOOLEAN
            /\ UNCHANGED <<Held!arbVars, Held!promptVars, passing, waited, Held!holdVars, holdOff>>
        BY <1>5 DEF Held!NoticeEnds, Held!EndLine
      <3>. QED BY <3>1, <3>2, <3>3
    <2>2. HoldInv'
      BY <1>5 DEF Held!NoticeEnds, Held!EndLine, Held!Unmuted, Held!on_hold
    <2>3. LineInv'
      BY <1>5 DEF Held!NoticeEnds, Held!EndLine, Held!Unmuted, Held!on_hold
    <2>4. MuteInv'
      BY <1>5 DEF Held!NoticeEnds, Held!EndLine, Held!Unmuted, Held!on_hold
    <2>5. AnswerInv'
      BY <1>5 DEF Held!NoticeEnds, Held!EndLine, Held!Unmuted, Held!on_hold
    <2>6. PassingInv'
      BY <1>5 DEF Held!NoticeEnds, Held!EndLine, Held!Unmuted, Held!on_hold
    <2>. QED BY <2>1, <2>2, <2>3, <2>4, <2>5, <2>6
  <1>6. CASE Held!Ask
    BY <1>6 DEF Held!Ask, Held!BeginLine
  <1>7. CASE Held!Asked
    BY ZenonT(60), <1>7 DEF Held!Asked, Held!EndLine
  <1>8. CASE Held!Answered
    BY <1>8 DEF Held!Answered, Held!Returns, Held!Closing
  <1>9. CASE Held!Deadline
    BY <1>9 DEF Held!Deadline, Held!Returns, Held!Closing
  <1>10. CASE Held!answer
    BY <1>10 DEF Held!answer, Held!AnswerTo
  <1>11. CASE Held!Withdrawn
    <2>1. Held!TypeOK'
      BY ZenonT(60), <1>11 DEF Held!Withdrawn, Held!Cancelled, Held!EndLine
    <2>2. HoldInv'
      BY <1>11 DEF Held!Withdrawn, Held!Cancelled, Held!EndLine
    <2>3. LineInv'
      BY <1>11 DEF Held!Withdrawn, Held!Cancelled, Held!EndLine
    <2>4. MuteInv'
      BY <1>11 DEF Held!Withdrawn, Held!Cancelled, Held!EndLine
    <2>5. AnswerInv'
      BY <1>11 DEF Held!Withdrawn, Held!Cancelled, Held!EndLine
    <2>6. PassingInv'
      BY <1>11 DEF Held!Withdrawn, Held!Cancelled, Held!EndLine
    <2>. QED BY <2>1, <2>2, <2>3, <2>4, <2>5, <2>6
  <1>12. CASE Held!Connected
    BY ZenonT(60), <1>12 DEF Held!Connected, Held!Cancelled, Held!EndLine
  <1>13. CASE Held!HoldBegins
    BY <1>13 DEF Held!HoldBegins, Held!BeginLine
  <1>14. CASE Held!HoldSaid
    <2>1. Held!TypeOK'
      BY ZenonT(60), <1>14 DEF Held!HoldSaid, Held!EndLine
    <2>2. HoldInv'
      BY <1>14 DEF Held!HoldSaid, Held!EndLine
    <2>3. LineInv'
      BY <1>14 DEF Held!HoldSaid, Held!EndLine
    <2>4. MuteInv'
      BY <1>14 DEF Held!HoldSaid, Held!EndLine
    <2>5. AnswerInv'
      BY <1>14 DEF Held!HoldSaid, Held!EndLine
    <2>6. PassingInv'
      BY <1>14 DEF Held!HoldSaid, Held!EndLine
    <2>. QED BY <2>1, <2>2, <2>3, <2>4, <2>5, <2>6
  <1>15. CASE Held!HoldDone
    BY <1>15 DEF Held!HoldDone
  <1>16. CASE Held!HangUp
    BY <1>16 DEF Held!HangUp
  <1>17. CASE Held!ResumeBegins
    BY ZenonT(60), <1>17 DEF Held!ResumeBegins
  <1>18. CASE Held!Resumed
    <2>1. Held!TypeOK'
      <3>1. mute' \in BOOLEAN
        BY <1>18, Zenon DEF Held!Resumed
      <3>2. stt' \in {"on", "failed"}
        BY <1>18 DEF Held!Resumed
      <3>3. /\ arb' = "idle" /\ held' \in BOOLEAN /\ gateHeld' \in BOOLEAN
            /\ UNCHANGED <<questions, caller, Held!promptVars, Held!lineVars, holding, holdOff, ownCut,
                           greeting>>
        BY <1>18 DEF Held!Resumed
      <3>. QED BY <3>1, <3>2, <3>3
    <2>2. HoldInv'
      BY <1>18 DEF Held!Resumed
    <2>3. LineInv'
      BY <1>18 DEF Held!Resumed
    <2>4. MuteInv'
      BY <1>18 DEF Held!Resumed
    <2>5. AnswerInv'
      BY <1>18 DEF Held!Resumed
    <2>6. PassingInv'
      BY <1>18 DEF Held!Resumed
    <2>. QED BY <2>1, <2>2, <2>3, <2>4, <2>5, <2>6
  <1>19. CASE UNCHANGED Held!vars
    BY <1>19 DEF Held!vars
  <1>. QED
    BY <1>1, <1>2, <1>3, <1>4, <1>5, <1>6, <1>7, <1>8, <1>9, <1>10, <1>11, <1>12, <1>13, <1>14, <1>15, <1>16, <1>17, <1>18, <1>19 DEF Held!Next, Held!Over

(* Of the parts of the box, the session goes its own way. *)
LEMMA HeldAlone == [Next]_vars => [Held!Next]_Held!vars
BY DEF Next, HeldGoes, LineGoes, PairGoes, DeviceGoes, KeyGoes, PhoneGoes, WifiGoes,
   EngineGoes, VenvsGoes, lineOnly, pairOnly, deviceOnly, keyOnly, phoneOnly, wifiOnly,
   engineOnly, venvsOnly, vars, heldVars, Held!vars, Held!arbVars, Held!promptVars,
   Held!holdVars, Held!lineVars

\* So they hold throughout.
LEMMA HeldInvHolds == ASSUME MaxQuestions \in Nat PROVE Spec => []HeldInv
  <1>1. Init => HeldInv
    <2>. SUFFICES ASSUME Held!Init PROVE HeldInv
      BY DEF Init
    <2>1. /\ mute \in BOOLEAN /\ holding \in BOOLEAN /\ held \in BOOLEAN /\ gateHeld \in BOOLEAN
          /\ holdOff \in BOOLEAN /\ ownCut \in BOOLEAN
      BY Zenon DEF Held!Init
    <2>2. Held!TypeOK
      BY <2>1 DEF Held!Init, Held!TypeOK, Held!Lines
    <2>3. HoldInv /\ LineInv /\ MuteInv /\ AnswerInv /\ PassingInv
      BY DEF Held!Init, HoldInv, LineInv, MuteInv, AnswerInv, PassingInv, Held!Lines
    <2>. QED BY <2>2, <2>3 DEF HeldInv
  <1>2. HeldInv /\ [Next]_vars => HeldInv'
    BY HeldKeeps, HeldAlone
  <1>. QED BY <1>1, <1>2, PTL DEF Spec

-----------------------------------------------------------------------------

(* AgentSession and CallPrompt keep to their states. *)
THEOREM HeldTypeHolds == ASSUME MaxQuestions \in Nat PROVE Spec => []Held!TypeOK
  BY HeldInvHolds, PTL DEF HeldInv

(* Back from a call, a question or a notice, whatever came in between, all it  *)
(* switched is as it was (AgentSession.resume, CallPrompt.ask's finally); from *)
(* the step-away line to the way back nobody in the room is heard              *)
(* (AgentSession.hold, greet's own unmuting); and what the model was told of   *)
(* its answer is what happens to the call (CallPrompt.answer, _last).          *)
THEOREM NothingIsLeftOn == ASSUME MaxQuestions \in Nat PROVE Spec => []NothingLeftOn
  <1>1. HeldInv => Held!NothingLeftOn
    BY DEF HeldInv, Held!TypeOK, HoldInv, LineInv, MuteInv, Held!NothingLeftOn, Held!on_hold
  <1>2. HeldInv => Held!UnheardOnHold
    BY DEF HeldInv, MuteInv, Held!UnheardOnHold
  <1>3. HeldInv => Held!AnswerIsWhatHappens
    BY DEF HeldInv, AnswerInv, Held!AnswerIsWhatHappens
  <1>4. HeldInv => NothingLeftOn
    BY <1>1, <1>2, <1>3 DEF NothingLeftOn
  <1>. QED BY <1>4, HeldInvHolds, PTL

=============================================================================
