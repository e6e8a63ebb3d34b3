--------------------------- MODULE ListeningProofs ---------------------------
(***************************************************************************)
(* What holds of the parts that listen to the caller, for all values of    *)
(* their constants. They share no state: each is an instance of its own.   *)
(***************************************************************************)
EXTENDS Listening, Integers, Sequences, SequenceTheorems, WellFoundedInduction,
        TLAPS

-----------------------------------------------------------------------------
(* The pause: nobody's silence.                                             *)

(* While the caller speaks or words are being decided no resume is to come. *)
WaitsInv == speaking \/ holds # {} => resumeTask = "none"

PauseInv == Pause!SilenceIsOwned /\ WaitsInv

LEMMA PauseKeeps ==
  ASSUME PauseInv, [Pause!Next]_Pause!vars
  PROVE  PauseInv'
<1>. USE DEF PauseInv, Pause!SilenceIsOwned, WaitsInv, Pause!outVars, Pause!pauserVars,
             Pause!sttVars, Pause!gateVars, Pause!viewVars
<1>1. CASE Pause!SpeechStarts
  <2>1. resumeTask' = "none" /\ cutAt' = cutAt
    BY <1>1 DEF Pause!SpeechStarts
  <2>2. CASE Pause!Pauses
    BY <2>1, <2>2 DEF Pause!Pauses
  <2>3. CASE Pause!LeavesPlaying
    BY <2>1, <2>3 DEF Pause!LeavesPlaying
  <2> QED
    BY <1>1, <2>2, <2>3 DEF Pause!SpeechStarts
<1>2. CASE Pause!SpeechStops
  BY <1>2 DEF Pause!SpeechStops
<1>3. CASE Pause!Interim
  BY <1>3 DEF Pause!Interim
<1>4. CASE Pause!Transcribed
  BY <1>4 DEF Pause!Transcribed, Pause!HoldOff
<1>5. CASE Pause!ReportsHeard
  BY <1>5 DEF Pause!ReportsHeard
<1>6. CASE Pause!Gate
  BY <1>6 DEF Pause!Gate, Pause!Lets, Pause!Count, Pause!HoldOff, Pause!NoTurnIn,
     Pause!Schedules, Pause!HeardOut, Pause!Holds, Pause!HoldOn
<1>7. CASE Pause!Verdict
  BY <1>7 DEF Pause!Verdict, Pause!CarriesOn, Pause!HoldOff, Pause!Lets, Pause!Count,
     Pause!NoTurnIn, Pause!Schedules, Pause!HeardOut
<1>8. CASE Pause!Releases
  BY <1>8 DEF Pause!Releases, Pause!Lets, Pause!Count, Pause!HoldOff, Pause!NoTurnIn,
     Pause!Schedules, Pause!HeardOut
<1>9. CASE Pause!TailRunsOut
  BY <1>9 DEF Pause!TailRunsOut
<1>10. CASE Pause!GraceOver
  BY <1>10 DEF Pause!GraceOver, Pause!Timer, Pause!Resume, Pause!End
<1>11. CASE Pause!WindowOver
  BY <1>11 DEF Pause!WindowOver, Pause!Timer, Pause!Resume, Pause!End
<1>12. CASE Pause!Cap
  BY <1>12 DEF Pause!Cap, Pause!Resume, Pause!End
<1>13. CASE Pause!CapGrace
  BY <1>13 DEF Pause!CapGrace, Pause!Resume, Pause!End
<1>14. CASE Pause!Hears
  BY <1>14 DEF Pause!Hears, Pause!PauserHears, Pause!ResumedItself, Pause!End
<1>15. CASE Pause!CutPauser
  BY <1>15 DEF Pause!CutPauser, Pause!End
<1>16. CASE Pause!CutOutput
  BY <1>16 DEF Pause!CutOutput
<1>17. CASE Pause!ReplyStarts
  BY <1>17 DEF Pause!ReplyStarts
<1>18. CASE Pause!ReplyEnds
  BY <1>18 DEF Pause!ReplyEnds
<1>19. CASE Pause!WriteGuard
  BY <1>19 DEF Pause!WriteGuard
<1>20. CASE UNCHANGED Pause!vars
  BY <1>20 DEF Pause!vars
<1> QED
  BY <1>1, <1>2, <1>3, <1>4, <1>5, <1>6, <1>7, <1>8, <1>9, <1>10, <1>11, <1>12, <1>13,
     <1>14, <1>15, <1>16, <1>17, <1>18, <1>19, <1>20
     DEF Pause!Next, Pause!Quiet

-----------------------------------------------------------------------------
(* The turn: a caller who is quiet can be heard anew.                       *)

(* A turn whose words went to the model is open past the closing step only  *)
(* where the caller speaks and the refusal is noted, for their next stop.   *)
TurnInv ==
  /\ gap => inferred
  /\ open /\ inferred /\ ~gap => speaking_turn /\ refused

LEMMA TurnKeeps ==
  ASSUME TurnInv, [Turn!Next]_Turn!vars
  PROVE  TurnInv'
<1>. USE DEF TurnInv, Turn!callerVars, Turn!engineVars, Turn!sttVars, Turn!stratVars, Turn!turnVars,
             Turn!wordVars
<1>1. CASE Turn!Starts
  BY <1>1 DEF Turn!Starts
<1>2. CASE Turn!SaysWord
  BY <1>2 DEF Turn!SaysWord
<1>3. CASE Turn!Stops
  BY <1>3 DEF Turn!Stops
<1>4. CASE Turn!BotStarts
  BY <1>4 DEF Turn!BotStarts
<1>5. CASE Turn!BotEnds
  BY <1>5 DEF Turn!BotEnds
<1>6. CASE Turn!SttStop
  BY <1>6 DEF Turn!SttStop
<1>7. CASE Turn!SttStart
  BY <1>7 DEF Turn!SttStart
<1>8. CASE Turn!SttVerdict
  BY <1>8 DEF Turn!SttVerdict
<1>9. CASE Turn!SttPaused
  BY <1>9 DEF Turn!SttPaused
<1>10. CASE Turn!HoldExpires
  BY <1>10 DEF Turn!HoldExpires
<1>11. CASE Turn!StrandedFires
  BY <1>11 DEF Turn!StrandedFires
<1>12. CASE Turn!Delta
  BY <1>12 DEF Turn!Delta
<1>13. CASE Turn!DoneAsked
  BY <1>13 DEF Turn!DoneAsked
<1>14. CASE Turn!DoneUnasked
  BY <1>14 DEF Turn!DoneUnasked
<1>15. CASE Turn!SessionLost
  BY <1>15 DEF Turn!SessionLost
<1>16. CASE Turn!ReadsInterim
  BY <1>16 DEF Turn!ReadsInterim, Turn!Reads, Turn!Opens, Turn!readUnchanged
<1>17. CASE Turn!ReadsFinal
  BY <1>17 DEF Turn!ReadsFinal, Turn!Reads, Turn!Opens, Turn!Triggers,
     Turn!readUnchanged
<1>18. CASE Turn!ReadsDone
  BY <1>18 DEF Turn!ReadsDone, Turn!Reads, Turn!Paid, Turn!Triggers,
     Turn!readUnchanged
<1>19. CASE Turn!ReadsReset
  BY <1>19 DEF Turn!ReadsReset, Turn!Reads, Turn!Paid, Turn!Triggers,
     Turn!readUnchanged
<1>20. CASE Turn!TimerFires
  BY <1>20 DEF Turn!TimerFires, Turn!Triggers
<1>21. CASE Turn!Finalizes
  BY <1>21 DEF Turn!Finalizes, Turn!Closed, Turn!Resets, Turn!Commits
<1>22. CASE Turn!EdgeStart
  BY <1>22 DEF Turn!EdgeStart
<1>23. CASE Turn!EdgeStop
  BY <1>23 DEF Turn!EdgeStop, Turn!ReApplies, Turn!Closed, Turn!Resets, Turn!Commits
<1>24. CASE Turn!Ceiling
  BY <1>24 DEF Turn!Ceiling, Turn!Commits, Turn!Closed, Turn!Resets
<1>25. CASE UNCHANGED Turn!vars
  BY <1>25 DEF Turn!vars
<1> QED
  BY <1>1, <1>2, <1>3, <1>4, <1>5, <1>6, <1>7, <1>8, <1>9, <1>10, <1>11, <1>12, <1>13,
     <1>14, <1>15, <1>16, <1>17, <1>18, <1>19, <1>20, <1>21, <1>22, <1>23, <1>24, <1>25
     DEF Turn!Next, Turn!Caller, Turn!Stt, Turn!Engine, Turn!Texts, Turn!Edges, Turn!Quiet

-----------------------------------------------------------------------------
(* Spoken Wi-Fi setup.                                                      *)

(* One call of the helper at a time, and a poller only after it.            *)
Order ==
  /\ state \in {"idle", "confirm", "running"}
  /\ starting \in {"no", "said", "called", "ran"}
  /\ cancelling # "no" => starting = "no"
  /\ polling => live_voice /\ state = "running" /\ starting = "no" /\ mine
  /\ live_voice /\ starting # "no" => state = "running"
  /\ live_voice /\ starting = "ran" => mine

(* A setup begins with no unit up or due; the file is what it was until the *)
(* run that is this session's writes it.                                    *)
Runs ==
  /\ run \in Nat /\ file.run \in Nat /\ before.run \in Nat /\ file.run <= run
  /\ starting \in {"said", "called"} => unit = "off" /\ ~timer /\ file = before
  /\ cancelling = "ran" => ~timer /\ unit # "up"
  /\ mine /\ starting \in {"no", "ran"} =>
       /\ timer => unit = "off" /\ file = before
       /\ unit # "off" => run > before.run
       /\ file # before => file.run = run /\ run > before.run

Counts ==
  /\ starts_voice \in Nat /\ ends \in Nat
  /\ live_voice /\ state = "running" => ends + 1 = starts_voice
  /\ live_voice /\ state # "running" => ends = starts_voice
  /\ live_voice /\ owed_voice => byModel /\ state # "idle"

SetupInv == Order /\ Runs /\ Counts /\ Voice!Followed /\ Voice!NewsIsOurs

(* A setup that is over may only be stopped. *)
LEMMA EndsAreLast == \A e \in Voice!Unit!Ends : Voice!Unit!After[e] \subseteq {"stopped"}
BY SMTT(30) DEF Voice!Unit!Ends, Voice!Unit!After

LEMMA SetupKeeps ==
  ASSUME ~slow, ~Orphans, SetupInv, [Voice!Next]_Voice!vars
  PROVE  SetupInv'
<1>. USE DEF SetupInv, Order, Runs, Counts, Voice!Followed, Voice!NewsIsOurs, Voice!Phase, Voice!Nobody,
             Voice!asking, Voice!boot, Voice!box, Voice!calls, Voice!told, Voice!follow
<1>1. CASE Voice!Phrase
  BY <1>1 DEF Voice!Phrase, Voice!Begin
<1>2. CASE Voice!Tool
  BY <1>2 DEF Voice!Tool, Voice!Begin
<1>3. CASE Voice!Lapses
  BY <1>3 DEF Voice!Lapses, Voice!Answered, Voice!Ended
<1>4. CASE Voice!SaysNo
  BY <1>4 DEF Voice!SaysNo, Voice!Answered, Voice!Ended
<1>5. CASE Voice!SaysWhat
  <2>1. CASE Voice!Answered
    BY <1>5, <2>1 DEF Voice!SaysWhat, Voice!Answered, Voice!Ended
  <2>2. CASE UNCHANGED <<slow, live_voice, state, byModel, first, Voice!calls, Voice!follow, Voice!boot, Voice!box, Voice!told>>
    BY <2>2
  <2> QED
    BY <1>5, <2>1, <2>2 DEF Voice!SaysWhat
<1>6. CASE Voice!SaysYes
  BY <1>6 DEF Voice!SaysYes, Voice!Start, Voice!Quiet
<1>7. CASE Voice!CallHelper
  BY <1>7 DEF Voice!CallHelper
<1>8. CASE Voice!HelperRestarts
  BY <1>8 DEF Voice!HelperRestarts
<1>9. CASE Voice!Started
  <2>1. polling' => live_voice
    BY <1>9, Zenon DEF Voice!Started
  <2>2. polling' => mine
    BY <1>9, <2>1 DEF Voice!Started
  <2> QED
    BY <1>9, <2>1, <2>2 DEF Voice!Started
<1>10. CASE Voice!NotStarted
  <2>1. timer' = timer
    BY <1>10 DEF Voice!NotStarted
  <2>2. owed_voice' => owed_voice /\ ~byModel
    BY <1>10, Zenon DEF Voice!NotStarted, Voice!End, Voice!Ended
  <2> QED
    BY <1>10, <2>1, <2>2 DEF Voice!NotStarted, Voice!End
<1>11. CASE Voice!Cancel
  BY <1>11 DEF Voice!Cancel
<1>12. CASE Voice!HelperStops
  BY <1>12 DEF Voice!HelperStops, Voice!StopUnit
<1>13. CASE Voice!Cancelled
  <2>1. CASE state = "running"
    <3>1. owed_voice' => owed_voice /\ ~byModel
      BY <1>13, <2>1, Zenon DEF Voice!Cancelled, Voice!End, Voice!Ended
    <3> QED
      BY <1>13, <2>1, <3>1 DEF Voice!Cancelled, Voice!End
  <2>2. CASE state # "running"
    BY <1>13, <2>2 DEF Voice!Cancelled
  <2> QED
    BY <2>1, <2>2
<1>14. CASE Voice!NotCancelled
  BY <1>14 DEF Voice!NotCancelled
<1>15. CASE Voice!Announce
  BY <1>15 DEF Voice!Announce, Voice!Polls, Voice!Read, Voice!News, Voice!End,
     Voice!Ended
<1>16. CASE Voice!GivesUp
  <2>1. CASE Voice!StopUnit /\ mine' = mine
    BY <1>16, <2>1 DEF Voice!GivesUp, Voice!Polls, Voice!StopUnit, Voice!End, Voice!Ended
  <2>2. CASE mine' = FALSE /\ UNCHANGED <<timer, unit>>
    BY <1>16, <2>2 DEF Voice!GivesUp, Voice!Polls, Voice!End, Voice!Ended
  <2> QED
    BY <1>16, <2>1, <2>2 DEF Voice!GivesUp, Voice!StopIsTried
<1>17. CASE Voice!Gone
  BY <1>17 DEF Voice!Gone, Voice!Polls, Voice!Read, Voice!News, Voice!End, Voice!Ended
<1>18. CASE Voice!LeaveOnline
  <2>1. CASE Voice!StopUnit /\ mine' = mine
    BY <1>18, <2>1 DEF Voice!LeaveOnline, Voice!Polls, Voice!StopUnit, Voice!End, Voice!Ended
  <2>2. CASE mine' = FALSE /\ UNCHANGED <<timer, unit>>
    BY <1>18, <2>2 DEF Voice!LeaveOnline, Voice!Polls, Voice!End, Voice!Ended
  <2> QED
    BY <1>18, <2>1, <2>2 DEF Voice!LeaveOnline, Voice!StopIsTried
<1>19. CASE Voice!PollOver
  BY <1>19 DEF Voice!PollOver, Voice!Polls
<1>20. CASE Voice!Looks
  BY <1>20 DEF Voice!Looks
<1>21. CASE Voice!FirstBoot
  BY <1>21 DEF Voice!FirstBoot, Voice!Start, Voice!Quiet
<1>22. CASE Voice!ReachedOnline
  BY <1>22 DEF Voice!ReachedOnline
<1>23. CASE Voice!UnitStarts
  <2>1. CASE unit = "off"
    BY <1>23, <2>1 DEF Voice!UnitStarts
  <2>2. CASE unit # "off"
    BY <1>23, <2>2 DEF Voice!UnitStarts
  <2> QED
    BY <2>1, <2>2
<1>24. CASE Voice!UnitWrites
  BY <1>24, EndsAreLast DEF Voice!UnitWrites
<1>25. CASE Voice!UnitEnds
  BY <1>25 DEF Voice!UnitEnds
<1>26. CASE Voice!FromOutside
  BY <1>26 DEF Voice!FromOutside, Voice!StopUnit
<1>27. CASE Voice!SessionEnds
  BY <1>27 DEF Voice!SessionEnds
<1>28. CASE Voice!SessionOpens
  BY <1>28 DEF Voice!SessionOpens
<1>29. CASE UNCHANGED Voice!vars
  BY <1>29 DEF Voice!vars
<1> QED
  BY <1>1, <1>2, <1>3, <1>4, <1>5, <1>6, <1>7, <1>8, <1>9, <1>10, <1>11, <1>12, <1>13,
     <1>14, <1>15, <1>16, <1>17, <1>18, <1>19, <1>20, <1>21, <1>22, <1>23, <1>24, <1>25,
     <1>26, <1>27, <1>28, <1>29
     DEF Voice!Next, Voice!Voice

LEMMA SlowStays ==
  ASSUME [Voice!Next]_Voice!vars
  PROVE  slow' = slow
BY DEF Voice!Next, Voice!Voice, Voice!vars, Voice!Phrase, Voice!Tool, Voice!Begin,
   Voice!Lapses, Voice!SaysNo, Voice!SaysWhat, Voice!Answered, Voice!Ended, Voice!SaysYes,
   Voice!Start, Voice!CallHelper, Voice!HelperRestarts, Voice!Started, Voice!NotStarted,
   Voice!End, Voice!Cancel, Voice!HelperStops, Voice!Cancelled, Voice!NotCancelled,
   Voice!Announce, Voice!GivesUp, Voice!Gone, Voice!LeaveOnline, Voice!PollOver,
   Voice!Looks, Voice!FirstBoot, Voice!ReachedOnline, Voice!UnitStarts, Voice!UnitWrites,
   Voice!UnitEnds, Voice!FromOutside, Voice!SessionEnds, Voice!SessionOpens

(* Until it has tried, a new box's session has begun no setup. *)
FirstInv == starts_voice \in Nat /\ (new /\ ~tried => starts_voice = 0)

LEMMA FirstKeeps ==
  ASSUME FirstInv, [Voice!Next]_Voice!vars
  PROVE  FirstInv' /\ (first' /\ ~first => starts_voice' = 1)
<1>. USE DEF FirstInv, Voice!asking, Voice!boot, Voice!box, Voice!calls, Voice!told, Voice!follow
<1>1. CASE UNCHANGED <<starts_voice, new, tried>> /\ (first' => first)
  BY <1>1
<1>2. CASE Voice!Phrase
  BY <1>1, <1>2 DEF Voice!Phrase, Voice!Begin
<1>3. CASE Voice!Tool
  BY <1>1, <1>3 DEF Voice!Tool, Voice!Begin
<1>4. CASE Voice!Lapses
  BY <1>1, <1>4 DEF Voice!Lapses, Voice!Answered, Voice!Ended
<1>5. CASE Voice!SaysNo
  BY <1>1, <1>5 DEF Voice!SaysNo, Voice!Answered, Voice!Ended
<1>6. CASE Voice!SaysWhat
  <2>1. CASE Voice!Answered
    BY <1>1, <1>6, <2>1 DEF Voice!SaysWhat, Voice!Answered, Voice!Ended
  <2>2. CASE UNCHANGED <<slow, live_voice, state, byModel, first, Voice!calls, Voice!follow, Voice!boot,
                         Voice!box, Voice!told>>
    BY <1>1, <2>2
  <2> QED
    BY <1>6, <2>1, <2>2 DEF Voice!SaysWhat
<1>7. CASE Voice!CallHelper
  BY <1>1, <1>7 DEF Voice!CallHelper
<1>8. CASE Voice!HelperRestarts
  BY <1>1, <1>8 DEF Voice!HelperRestarts
<1>9. CASE Voice!Started
  BY <1>1, <1>9 DEF Voice!Started
<1>10. CASE Voice!NotStarted
  BY <1>1, <1>10 DEF Voice!NotStarted, Voice!End, Voice!Ended
<1>11. CASE Voice!Cancel
  BY <1>1, <1>11 DEF Voice!Cancel
<1>12. CASE Voice!HelperStops
  BY <1>1, <1>12 DEF Voice!HelperStops, Voice!StopUnit
<1>13. CASE Voice!Cancelled
  BY <1>1, <1>13 DEF Voice!Cancelled, Voice!End, Voice!Ended
<1>14. CASE Voice!NotCancelled
  BY <1>1, <1>14 DEF Voice!NotCancelled
<1>15. CASE Voice!Announce
  BY <1>1, <1>15 DEF Voice!Announce, Voice!Polls, Voice!Read, Voice!News, Voice!End,
     Voice!Ended
<1>16. CASE Voice!GivesUp
  BY <1>1, <1>16 DEF Voice!GivesUp, Voice!Polls, Voice!StopIsTried, Voice!StopUnit, Voice!End, Voice!Ended
<1>17. CASE Voice!Gone
  BY <1>1, <1>17 DEF Voice!Gone, Voice!Polls, Voice!Read, Voice!News, Voice!End, Voice!Ended
<1>18. CASE Voice!LeaveOnline
  BY <1>1, <1>18 DEF Voice!LeaveOnline, Voice!Polls, Voice!StopIsTried, Voice!StopUnit, Voice!End, Voice!Ended
<1>19. CASE Voice!PollOver
  BY <1>1, <1>19 DEF Voice!PollOver, Voice!Polls
<1>20. CASE Voice!Looks
  BY <1>1, <1>20 DEF Voice!Looks
<1>21. CASE Voice!UnitStarts
  BY <1>1, <1>21 DEF Voice!UnitStarts
<1>22. CASE Voice!UnitWrites
  BY <1>1, <1>22 DEF Voice!UnitWrites
<1>23. CASE Voice!UnitEnds
  BY <1>1, <1>23 DEF Voice!UnitEnds
<1>24. CASE Voice!FromOutside
  BY <1>1, <1>24 DEF Voice!FromOutside, Voice!StopUnit
<1>25. CASE Voice!SessionEnds
  BY <1>1, <1>25 DEF Voice!SessionEnds
<1>26. CASE Voice!SaysYes
  <2>1. (new' => tried') /\ ~first'
    BY <1>26, Zenon DEF Voice!SaysYes, Voice!Start
  <2> QED
    BY <1>26, <2>1 DEF Voice!SaysYes, Voice!Start
<1>27. CASE Voice!FirstBoot
  <2>1. new' => tried'
    BY <1>27, Zenon DEF Voice!FirstBoot, Voice!Start
  <2>2. CASE starts_voice' = starts_voice + 1 /\ new /\ ~tried
    BY <2>1, <2>2
  <2>3. CASE UNCHANGED <<starts_voice, first>>
    BY <2>1, <2>3
  <2> QED
    BY <1>27, <2>2, <2>3 DEF Voice!FirstBoot, Voice!Start
<1>28. CASE Voice!ReachedOnline
  BY <1>28 DEF Voice!ReachedOnline
<1>29. CASE Voice!SessionOpens
  BY <1>29 DEF Voice!SessionOpens
<1>30. CASE UNCHANGED Voice!vars
  BY <1>1, <1>30 DEF Voice!vars
<1> QED
  BY <1>2, <1>3, <1>4, <1>5, <1>6, <1>7, <1>8, <1>9, <1>10, <1>11, <1>12, <1>13, <1>14,
     <1>15, <1>16, <1>17, <1>18, <1>19, <1>20, <1>21, <1>22, <1>23, <1>24, <1>25, <1>26,
     <1>27, <1>28, <1>29, <1>30 DEF Voice!Next, Voice!Voice

-----------------------------------------------------------------------------
(* Run control: the frames held while the plugin is asked.                  *)

(* Numbers and sequences.                                                   *)
LEMMA Least == ASSUME NEW T, T \subseteq Nat, T # {} PROVE \E x \in T : \A y \in T : x <= y
<1>1. PICK x \in T : \A y \in T : <<y, x>> \notin OpToRel(<, Nat)
  BY NatLessThanWellFounded, WFMin, Zenon
<1>2. \A y \in T : ~(y < x)
  BY <1>1, Zenon DEF OpToRel
<1> QED
  BY <1>2

LEMMA CutInTwo ==
  ASSUME NEW S, NEW s \in Seq(S), NEW k \in 2..Len(s)
  PROVE  /\ SubSeq(s, 1, k - 1) \in Seq(S) /\ SubSeq(s, k, Len(s)) \in Seq(S)
         /\ SubSeq(s, 1, k - 1) \o SubSeq(s, k, Len(s)) = s
<1>1. Len(s) \in Nat /\ \A i \in 1..Len(s) : s[i] \in S
  BY LenProperties, ElementOfSeq
<1>2. SubSeq(s, 1, k - 1) \in Seq(S) /\ SubSeq(s, k, Len(s)) \in Seq(S)
  BY <1>1, SubSeqProperties
<1>3. \E j \in 0..Len(s) : j = k - 1 /\ j + 1 = k
  BY <1>1
<1>4. PICK j \in 0..Len(s) : j = k - 1 /\ j + 1 = k
  BY <1>3
<1>5. SubSeq(s, 1, j) \o SubSeq(s, j + 1, Len(s)) = SubSeq(s, 1, Len(s))
  <2>1. 1 \in 1..(Len(s) + 1) /\ j \in (1 - 1)..Len(s) /\ Len(s) \in j..Len(s)
    BY <1>1
  <2> QED
    BY <2>1, ConcatAdjacentSubSeq, Zenon
<1>6. SubSeq(s, 1, Len(s)) = s
  BY SubSeqFull
<1> QED
  BY <1>2, <1>4, <1>5, <1>6

(* Every frame sent has gone on, is held or is arriving, in order.         *)
HeldInv ==
  /\ held \in Seq(Run!Frames) /\ out \in Seq(Run!Frames) /\ arriving \in Run!Frames \cup {0}
  /\ said_control \in Nat
  /\ Run!InOrder

LEMMA GoingIs ==
  ASSUME NEW ending, held \in Seq(Run!Frames)
  PROVE  \/ Run!Going(ending) = 0
         \/ /\ Run!Going(ending) \in 2..Len(held)
            /\ Run!Asks(held[Run!Going(ending)]) /\ ~ending
<1> DEFINE I == {i \in 2..Len(held) : ~ending /\ Run!Asks(held[i])}
<1>1. Run!Going(ending) = IF I # {} THEN Run!Min(I) ELSE 0
  BY DEF Run!Going, Run!SelectInSubSeq
<1>2. I # {} => Run!Min(I) \in I
  <2> SUFFICES ASSUME I # {} PROVE Run!Min(I) \in I
    OBVIOUS
  <2>1. I \subseteq Nat
    OBVIOUS
  <2>2. \E x \in I : \A y \in I : x <= y
    BY <2>1, Least
  <2> QED
    BY <2>2 DEF Run!Min
<1> QED
  BY <1>1, <1>2

LEMMA Joins ==
  \A a \in Seq(Run!Frames), b \in Seq(Run!Frames), c \in Seq(Run!Frames) :
     (a \o b) \o c = a \o (b \o c) /\ a \o b \in Seq(Run!Frames)
BY ConcatProperties, ConcatAssociative

(* What is decided goes on, and what is held keeps its place. *)
LEMMA DecidePlaces ==
  ASSUME HeldInv, NEW claimed, NEW ending, Run!Decide(claimed, ending)
  PROVE  /\ held' \in Seq(Run!Frames) /\ out' \in Seq(Run!Frames) /\ out' \o held' = out \o held
         /\ UNCHANGED <<arriving, said_control>>
<1> DEFINE next == Run!Going(ending)
<1>1. CASE next = 0
  <2>1. out' = out \o held /\ held' = <<>>
    BY <1>1 DEF Run!Decide, Run!NotAsking
  <2> QED
    BY <2>1, ConcatProperties, ConcatEmptySeq, EmptySeq DEF HeldInv, Run!Decide
<1>2. CASE next \in 2..Len(held)
  <2>1. out' = out \o SubSeq(held, 1, next - 1) /\ held' = SubSeq(held, next, Len(held))
    <3>1. next # 0
      BY <1>2
    <3> QED
      BY <3>1, Zenon DEF Run!Decide, Run!AskAbout
  <2>2. /\ SubSeq(held, 1, next - 1) \in Seq(Run!Frames) /\ SubSeq(held, next, Len(held)) \in Seq(Run!Frames)
        /\ SubSeq(held, 1, next - 1) \o SubSeq(held, next, Len(held)) = held
    BY <1>2, CutInTwo DEF HeldInv
  <2>3. out' \o held' = out \o held /\ out' \in Seq(Run!Frames) /\ held' \in Seq(Run!Frames)
    <3> HIDE DEF next
    <3>1. out \in Seq(Run!Frames)
      BY DEF HeldInv
    <3>2. (out \o SubSeq(held, 1, next - 1)) \o SubSeq(held, next, Len(held))
             = out \o (SubSeq(held, 1, next - 1) \o SubSeq(held, next, Len(held)))
      BY <2>2, Joins, <3>1, Zenon
    <3>3. out \o SubSeq(held, 1, next - 1) \in Seq(Run!Frames)
      BY <2>2, Joins, <3>1, Zenon
    <3> QED
      BY <2>1, <2>2, <3>2, <3>3, Zenon
  <2> QED
    BY <2>3 DEF Run!Decide
<1> QED
  BY <1>1, <1>2, GoingIs DEF HeldInv

LEMMA NextOne ==
  ASSUME NEW S, NEW s \in Seq(S), NEW n \in Nat, n + 1 \in S, s = [i \in 1..n |-> i]
  PROVE  s \o <<n + 1>> = [i \in 1..(n + 1) |-> i]
<1>1. Append(s, n + 1) = s \o <<n + 1>>
  BY AppendIsConcat
<1>2. Len(s) = n
  BY LenProperties
<1>3. Append(s, n + 1) = [i \in 1..(n + 1) |-> i]
  BY <1>2, AppendProperties, LenProperties
<1> QED
  BY <1>1, <1>3

LEMMA TakePlaces ==
  ASSUME HeldInv, Run!Take
  PROVE  /\ held' \in Seq(Run!Frames) /\ out' \in Seq(Run!Frames) /\ arriving' = 0 /\ said_control' = said_control
         /\ out' \o held' = (out \o held) \o <<arriving>>
<1>1. arriving \in Run!Frames /\ arriving' = 0 /\ said_control' = said_control
      /\ out \in Seq(Run!Frames) /\ held \in Seq(Run!Frames) /\ <<arriving>> \in Seq(Run!Frames)
  BY DEF HeldInv, Run!Take
<1>2. out \o <<>> = out /\ <<>> \o <<arriving>> = <<arriving>>
  BY <1>1, ConcatEmptySeq, Zenon
<1>3. (out \o held) \o <<arriving>> = out \o (held \o <<arriving>>)
  BY <1>1, Joins, Zenon
<1>4. Append(held, arriving) = held \o <<arriving>> /\ Append(out, arriving) = out \o <<arriving>>
  BY <1>1, AppendIsConcat, Zenon
<1>5. Append(held, arriving) \in Seq(Run!Frames) /\ Append(out, arriving) \in Seq(Run!Frames)
  BY <1>1, AppendProperties, Zenon
<1>6. Append(out, arriving) \o <<>> = Append(out, arriving)
  BY <1>5, ConcatEmptySeq, Zenon
<1>7. CASE held # <<>> /\ held' = Append(held, arriving) /\ out' = out
  BY <1>1, <1>3, <1>4, <1>5, <1>7, Zenon
<1>8. CASE held = <<>> /\ held' = <<arriving>> /\ out' = out
  BY <1>1, <1>2, <1>8, Zenon
<1>9. CASE held = <<>> /\ held' = held /\ out' = Append(out, arriving)
  BY <1>1, <1>2, <1>4, <1>5, <1>6, <1>9, Zenon
<1> QED
  BY <1>7, <1>8, <1>9 DEF Run!Take, Run!AskAbout

LEMMA HeldKeeps ==
  ASSUME LastFrame \in Nat, HeldInv, [Run!Next]_Run!vars
  PROVE  HeldInv'
<1>. USE DEF Run!given, Run!brainVars, Run!pluginVars, Run!relayVars, Run!history
<1>1. CASE UNCHANGED <<held, out, arriving, said_control>>
  BY <1>1 DEF HeldInv, Run!InOrder, Run!Frames
<1>2. ASSUME held' \in Seq(Run!Frames), out' \in Seq(Run!Frames), out' \o held' = out \o held,
             UNCHANGED <<arriving, said_control>>
      PROVE  HeldInv'
  BY <1>2 DEF HeldInv, Run!InOrder, Run!Frames
<1>3. CASE Run!Say
  <2>1. /\ arriving = 0 /\ said_control + 1 \in Run!Frames /\ said_control' = said_control + 1
        /\ arriving' = said_control + 1 /\ UNCHANGED <<held, out>>
    BY <1>3 DEF Run!Say, Run!Settled
  <2>2. out \o held \in Seq(Run!Frames)
    BY ConcatProperties DEF HeldInv
  <2>3. out \o held = [i \in 1..said_control |-> i]
    BY <2>1, <2>2, ConcatEmptySeq DEF HeldInv, Run!InOrder
  <2>4. (out \o held) \o <<said_control + 1>> = [i \in 1..(said_control + 1) |-> i]
    BY <2>1, <2>2, <2>3, NextOne DEF HeldInv
  <2>5. arriving' # 0 /\ said_control' \in Nat /\ arriving' \in Run!Frames
    BY <2>1 DEF HeldInv
  <2>6. Run!InOrder'
    BY <2>1, <2>4, <2>5 DEF Run!InOrder
  <2> QED
    BY <2>1, <2>5, <2>6 DEF HeldInv
<1>4. CASE Run!Take
  <2>1. arriving # 0
    BY <1>4 DEF Run!Take
  <2>2. /\ held' \in Seq(Run!Frames) /\ out' \in Seq(Run!Frames) /\ arriving' = 0 /\ said_control' = said_control
        /\ out' \o held' = (out \o held) \o <<arriving>>
    BY <1>4, TakePlaces
  <2>3. (out' \o held') \o <<>> = out' \o held'
    BY <2>2, ConcatProperties, ConcatEmptySeq
  <2> QED
    BY <2>1, <2>2, <2>3 DEF HeldInv, Run!InOrder, Run!Frames
<1>5. ASSUME NEW claimed, NEW ending, Run!Decide(claimed, ending)
      PROVE  HeldInv'
  BY <1>2, <1>5, DecidePlaces
<1>6. CASE Run!Answered
  BY <1>1, <1>5, <1>6 DEF Run!Answered
<1>7. CASE Run!Expire
  BY <1>5, <1>7 DEF Run!Expire
<1>8. CASE Run!End
  BY <1>1, <1>5, <1>8 DEF Run!End
<1>9. CASE Run!Emit \/ Run!StartConsult \/ Run!ConsultWorking \/ Run!ConsultAnswered
           \/ Run!ConsultTimesOut \/ Run!ConsultAnsweredDirectly
  BY <1>1, <1>9 DEF Run!Emit, Run!StartConsult, Run!ConsultWorking, Run!ConsultAnswered,
     Run!ConsultTimesOut, Run!ConsultAnsweredDirectly, Run!Counting
<1>10. CASE Run!Hear \/ Run!Question \/ Run!Unconfirmed \/ Run!ToolCall \/ Run!ToolCancel
  BY <1>1, <1>10 DEF Run!Hear, Run!Question, Run!Unconfirmed, Run!ToolCall, Run!ToolCancel
<1>11. CASE Run!Relay \/ Run!RelayReplies
  BY <1>1, <1>11 DEF Run!Relay, Run!RelayReplies, Run!Ack, Run!RunCounts, Run!RunForgotten,
     Run!Result, Run!ActCancel, Run!ActReply
<1>12. CASE Run!AllOver \/ UNCHANGED Run!vars
  BY <1>1, <1>12 DEF Run!AllOver, Run!vars
<1> QED
  BY <1>3, <1>4, <1>6, <1>7, <1>8, <1>9, <1>10, <1>11, <1>12 DEF Run!Next, Run!Brain,
     Run!Plugin

-----------------------------------------------------------------------------
(* Claims, where a question does not cross its final's transcript. *)

ToPlugin == [what : {"transcript"}, on : Run!Frames] \cup [what : {"question"}, id : Nat, on : Run!Frames]
              \cup [what : {"tool_call", "tool_cancel"}, call : Nat]
ToBrain == [what : {"answer"}, id : Nat, claimed : BOOLEAN] \cup [what : {"working", "tool_result"}, call : Nat]

In(m, s) == \E i \in 1..Len(s) : s[i] = m

LEMMA InAppend ==
  ASSUME NEW S, NEW s \in Seq(S), NEW e \in S
  PROVE  /\ Append(s, e) \in Seq(S) /\ \A m : In(m, Append(s, e)) => In(m, s) \/ m = e
BY AppendProperties DEF In

LEMMA InTail ==
  ASSUME NEW S, NEW s \in Seq(S), s # <<>>
  PROVE  /\ Tail(s) \in Seq(S) /\ In(Head(s), s) /\ Head(s) \in S
         /\ \A m : In(m, Tail(s)) => In(m, s)
BY HeadTailProperties, LenProperties DEF In

LEMMA InConcat ==
  ASSUME NEW S, NEW s \in Seq(S), NEW e \in S
  PROVE  /\ s \o <<e>> \in Seq(S) /\ \A m : In(m, s \o <<e>>) => In(m, s) \/ m = e
<1>1. Append(s, e) = s \o <<e>>
  BY AppendIsConcat
<1>2. Append(s, e) \in Seq(S) /\ \A m : In(m, Append(s, e)) => In(m, s) \/ m = e
  BY InAppend
<1> QED
  BY <1>1, <1>2, Zenon

MsgInv ==
  /\ toPlugin \in Seq(ToPlugin) /\ toBrain \in Seq(ToBrain)
  /\ consult \in Nat /\ calls \in Nat /\ asks \in Nat /\ claim.id \in Nat
  /\ emitting \in Run!Frames \cup {0}

LEMMA MsgKeeps ==
  ASSUME LastFrame \in Nat, MaxConsults \in Nat, HeldInv, MsgInv, [Run!Next]_Run!vars
  PROVE  MsgInv'
<1>. USE DEF MsgInv, Run!given, Run!brainVars, Run!pluginVars, Run!relayVars, Run!history
<1>1. CASE Run!Say
  BY <1>1 DEF Run!Say, HeldInv, Run!Frames
<1>2. CASE Run!Emit
  <2>1. [what |-> "transcript", on |-> emitting] \in ToPlugin
    BY <1>2 DEF Run!Emit, ToPlugin
  <2> QED
    BY <1>2, <2>1, InAppend DEF Run!Emit
<1>3. ASSUME NEW fs, Run!AskAbout(fs), Head(fs) \in Run!Frames
      PROVE  toPlugin' \in Seq(ToPlugin) /\ asks' \in Nat
  <2>1. [what |-> "question", id |-> asks + 1, on |-> Head(fs)] \in ToPlugin
    BY <1>3 DEF ToPlugin
  <2> QED
    BY <1>3, <2>1, InAppend DEF Run!AskAbout
<1>4. CASE Run!Take
  <2>1. arriving \in Run!Frames /\ Head(<<arriving>>) = arriving
    BY <1>4 DEF Run!Take, HeldInv
  <2> QED
    BY <1>3, <1>4, <2>1 DEF Run!Take
<1>5. ASSUME NEW claimed, NEW ending, Run!Decide(claimed, ending)
      PROVE  /\ toPlugin' \in Seq(ToPlugin) /\ asks' \in Nat
             /\ UNCHANGED <<emitting, consult, calls, claim>>
  <2>1. CASE Run!Going(ending) = 0
    BY <1>5, <2>1 DEF Run!Decide, Run!NotAsking
  <2>2. CASE Run!Going(ending) \in 2..Len(held)
    <3>1. Head(SubSeq(held, Run!Going(ending), Len(held))) = held[Run!Going(ending)]
      BY <2>2, HeadTailOfSubSeq, LenProperties DEF HeldInv
    <3>2. held[Run!Going(ending)] \in Run!Frames
      BY <2>2, ElementOfSeq, LenProperties DEF HeldInv
    <3>3. Run!AskAbout(SubSeq(held, Run!Going(ending), Len(held)))
      BY <1>5, <2>2 DEF Run!Decide
    <3> QED
      BY <1>3, <1>5, <3>1, <3>2, <3>3 DEF Run!Decide
  <2> QED
    BY <2>1, <2>2, GoingIs DEF HeldInv
<1>6. CASE Run!Answered
  BY <1>5, <1>6, InTail DEF Run!Answered, Run!FromPlugin
<1>7. CASE Run!Expire
  BY <1>5, <1>7 DEF Run!Expire
<1>8. CASE Run!End
  BY <1>5, <1>8 DEF Run!End
<1>9. CASE Run!StartConsult
  <2>1. [what |-> "tool_call", call |-> calls + 1] \in ToPlugin
    BY DEF ToPlugin
  <2> QED
    BY <1>9, <2>1, InAppend DEF Run!StartConsult, Run!Counting
<1>10. CASE Run!ConsultTimesOut
  <2>1. [what |-> "tool_cancel", call |-> consult] \in ToPlugin
    BY DEF ToPlugin
  <2> QED
    BY <1>10, <2>1, InAppend DEF Run!ConsultTimesOut, Run!Counting
<1>21. toBrain # <<>> => Tail(toBrain) \in Seq(ToBrain)
  BY InTail
<1>22. toPlugin # <<>> => Tail(toPlugin) \in Seq(ToPlugin) /\ Head(toPlugin) \in ToPlugin
  BY InTail
<1>11. CASE Run!ConsultWorking \/ Run!ConsultAnswered \/ Run!ConsultAnsweredDirectly
  <2>1. CASE Run!ConsultWorking
    BY <1>21, <2>1 DEF Run!ConsultWorking, Run!Counting, Run!FromPlugin
  <2>2. CASE Run!ConsultAnswered
    BY <1>21, <2>2 DEF Run!ConsultAnswered, Run!Counting, Run!FromPlugin
  <2>3. CASE Run!ConsultAnsweredDirectly
    BY <2>3 DEF Run!ConsultAnsweredDirectly, Run!Counting
  <2> QED
    BY <1>11, <2>1, <2>2, <2>3
<1>12. CASE Run!Hear \/ Run!ToolCall \/ Run!ToolCancel
  <2>1. CASE Run!Hear
    BY <1>22, <2>1 DEF Run!Hear, Run!ToPlugin
  <2>2. CASE Run!ToolCall \/ Run!ToolCancel
    BY <1>22, <2>2 DEF Run!ToolCall, Run!ToolCancel, Run!ToPlugin
  <2> QED
    BY <1>12, <2>1, <2>2
<1>13. ASSUME NEW q, NEW c \in BOOLEAN, Run!Reply(q, c), q.id \in Nat
       PROVE  toBrain' \in Seq(ToBrain)
  <2>1. Run!Answer(q, c) \in ToBrain
    BY <1>13 DEF Run!Answer, ToBrain
  <2> QED
    BY <1>13, <2>1, InAppend DEF Run!Reply
<1>14. CASE Run!Question
  <2>1. toPlugin # <<>> /\ toPlugin' = Tail(toPlugin) /\ Head(toPlugin).what = "question"
    BY <1>14 DEF Run!Question, Run!ToPlugin
  <2>2. toPlugin' \in Seq(ToPlugin) /\ Head(toPlugin).id \in Nat
    BY <1>22, <2>1 DEF ToPlugin
  <2> DEFINE m == Head(toPlugin)
             matched == heard_control.at > usedUp /\ Run!SameWords(heard_control.on, m.on)
             q == [id |-> m.id, on |-> m.on, matched |-> matched, since |-> IF matched THEN heard_control.at ELSE 0]
             ruled == IF matched THEN q ELSE [q EXCEPT !.since = order + 1]
  <2>3. q.id \in Nat /\ ruled.id \in Nat
    BY <2>2
  <2>4. CASE Run!Reply(q, FALSE) /\ claim' = claim
    BY <1>13, <1>14, <2>2, <2>3, <2>4 DEF Run!Question
  <2>5. CASE Run!Reply(ruled, TRUE) /\ claim' = claim
    BY <1>13, <1>14, <2>2, <2>3, <2>5 DEF Run!Question
  <2>6. CASE claim' = ruled /\ (toBrain' = toBrain \/ Run!Reply(claim, FALSE))
    BY <1>13, <1>14, <2>2, <2>3, <2>6 DEF Run!Question
  <2>7. \/ Run!Reply(q, FALSE) /\ claim' = claim
        \/ Run!Reply(ruled, TRUE) /\ claim' = claim
        \/ claim' = ruled /\ (toBrain' = toBrain \/ Run!Reply(claim, FALSE))
    BY <1>14, Zenon DEF Run!Question
  <2> QED
    BY <2>4, <2>5, <2>6, <2>7
<1>15. CASE Run!Unconfirmed
  BY <1>13, <1>15 DEF Run!Unconfirmed, Run!NoQuestion
<1>16. ASSUME NEW c \in Run!Consults, Run!Ack(c) \/ Run!Result(c)
       PROVE  MsgInv'
  <2>1. [what |-> "working", call |-> c] \in ToBrain /\ [what |-> "tool_result", call |-> c] \in ToBrain
    BY DEF ToBrain, Run!Consults
  <2>2. \A m \in ToBrain : Append(toBrain, m) \in Seq(ToBrain)
    BY InAppend
  <2>3. toBrain' \in Seq(ToBrain)
    BY <1>16, <2>1, <2>2, Zenon DEF Run!Ack, Run!Result
  <2> QED
    BY <1>16, <2>3 DEF Run!Ack, Run!Result
<1>17. ASSUME NEW c \in Run!Consults, Run!RunCounts(c) \/ Run!RunForgotten(c)
       PROVE  MsgInv'
  BY <1>17 DEF Run!RunCounts, Run!RunForgotten
<1>18. ASSUME NEW f \in Run!Frames, Run!ActReply(f)
       PROVE  MsgInv'
  <2>1. Run!Answer(claim, TRUE) \in ToBrain
    BY DEF Run!Answer, ToBrain
  <2>2. \A s \in Seq(ToBrain) : s \o <<>> = s
    BY ConcatEmptySeq
  <2>3. Append(toBrain, Run!Answer(claim, TRUE)) \in Seq(ToBrain)
    BY <2>1, InAppend
  <2>4. toBrain' = toBrain \o <<>> \/ toBrain' = Append(toBrain, Run!Answer(claim, TRUE)) \o <<>>
    BY <1>18 DEF Run!ActReply, Run!RelayActed
  <2>5. toBrain' \in Seq(ToBrain)
    BY <2>2, <2>3, <2>4
  <2> QED
    BY <1>18, <2>5 DEF Run!ActReply, Run!RelayActed, Run!NoQuestion
<1>19. ASSUME NEW f \in Run!Frames, NEW c \in Run!Consults, Run!ActCancel(f, c)
       PROVE  MsgInv'
  <2>1. Run!Answer(claim, TRUE) \in ToBrain /\ [what |-> "tool_result", call |-> c] \in ToBrain
    BY DEF Run!Answer, ToBrain, Run!Consults
  <2> DEFINE result == [what |-> "tool_result", call |-> c]
  <2>2. \A s \in Seq(ToBrain) : s \o <<result>> \in Seq(ToBrain)
    BY <2>1, InConcat
  <2>3. Append(toBrain, Run!Answer(claim, TRUE)) \in Seq(ToBrain)
    BY <2>1, InAppend
  <2>4. toBrain' = toBrain \o <<result>> \/ toBrain' = Append(toBrain, Run!Answer(claim, TRUE)) \o <<result>>
    BY <1>19 DEF Run!ActCancel, Run!RelayActed
  <2>5. toBrain' \in Seq(ToBrain)
    BY <2>2, <2>3, <2>4
  <2> QED
    BY <1>19, <2>5 DEF Run!ActCancel, Run!RelayActed, Run!NoQuestion
<1>20. CASE Run!AllOver \/ UNCHANGED Run!vars
  BY <1>20 DEF Run!AllOver, Run!vars
<1> QED
  BY <1>1, <1>2, <1>4, <1>6, <1>7, <1>8, <1>9, <1>10, <1>11, <1>12, <1>14, <1>15, <1>16,
     <1>17, <1>18, <1>19, <1>20
     DEF Run!Next, Run!Brain, Run!Plugin, Run!Relay, Run!RelayReplies

(* The transcript of the words f is read, or is ahead of the n-th message. *)
Transcript(f) == [what |-> "transcript", on |-> f]
Earlier(n, f) == f \in read \/ \E i \in 1..(n - 1) : toPlugin[i] = Transcript(f)
Sent(f) == f \in read \/ In(Transcript(f), toPlugin)

(* Every question is behind its final's transcript. *)
Questioned == \A j \in 1..Len(toPlugin) : toPlugin[j].what = "question" => Earlier(j, toPlugin[j].on)

(* Every final's transcript goes ahead of what is asked about it. *)
SentInv ==
  /\ emitting # 0 => emitting = arriving
  /\ arriving # 0 /\ text_control[arriving] # NoWords => emitting = arriving \/ Sent(arriving)
  /\ \A j \in 1..Len(held) : text_control[held[j]] # NoWords => Sent(held[j])
  /\ Questioned

LEMMA AheadStays ==
  ASSUME MsgInv, NEW m \in ToPlugin, toPlugin' = Append(toPlugin, m), read' = read
  PROVE  /\ \A f : Sent(f) \/ m = Transcript(f) => Sent(f)'
         /\ (m.what = "question" => Sent(m.on))
            /\ (\A j \in 1..Len(toPlugin) : toPlugin[j].what = "question" => Earlier(j, toPlugin[j].on))
            => (\A j \in 1..Len(toPlugin') : toPlugin'[j].what = "question" => Earlier(j, toPlugin[j].on)')
<1>1. /\ Len(toPlugin) \in Nat /\ Len(toPlugin') = Len(toPlugin) + 1 /\ toPlugin'[Len(toPlugin) + 1] = m
      /\ \A i \in 1..Len(toPlugin) : toPlugin'[i] = toPlugin[i]
  BY AppendProperties, LenProperties DEF MsgInv
<1>2. \A f : Sent(f) \/ m = Transcript(f) => Sent(f)'
  BY <1>1 DEF Sent, In
<1>3. ASSUME m.what = "question" => Sent(m.on),
             \A j \in 1..Len(toPlugin) : toPlugin[j].what = "question" => Earlier(j, toPlugin[j].on),
             NEW j \in 1..Len(toPlugin'), toPlugin'[j].what = "question"
      PROVE  Earlier(j, toPlugin[j].on)'
  BY <1>1, <1>3 DEF Earlier, Sent, In
<1> QED
  BY <1>2, <1>3

LEMMA AheadIsRead ==
  ASSUME MsgInv, toPlugin # <<>>, toPlugin' = Tail(toPlugin), read \subseteq read',
         \A f : Head(toPlugin) = Transcript(f) => f \in read'
  PROVE  /\ \A f : Sent(f) => Sent(f)'
         /\ (\A j \in 1..Len(toPlugin) : toPlugin[j].what = "question" => Earlier(j, toPlugin[j].on))
            => (\A j \in 1..Len(toPlugin') : toPlugin'[j].what = "question" => Earlier(j, toPlugin[j].on)')
<1>1. /\ Len(toPlugin) \in Nat /\ Len(toPlugin') = Len(toPlugin) - 1 /\ Head(toPlugin) = toPlugin[1]
      /\ \A i \in 1..Len(toPlugin') : toPlugin'[i] = toPlugin[i + 1]
  BY HeadTailProperties, LenProperties DEF MsgInv
<1>2. ASSUME NEW n \in 1..Len(toPlugin), NEW f, Earlier(n + 1, f)
      PROVE  Earlier(n, f)'
  <2>1. CASE f \in read \/ toPlugin[1] = Transcript(f)
    BY <1>1, <2>1 DEF Earlier
  <2>2. ASSUME NEW i \in 2..n, toPlugin[i] = Transcript(f)
        PROVE  Earlier(n, f)'
    <3>1. i - 1 \in 1..(n - 1) /\ toPlugin'[i - 1] = Transcript(f)
      BY <1>1, <2>2
    <3> QED
      BY <3>1 DEF Earlier, Transcript
  <2> QED
    BY <1>2, <2>1, <2>2 DEF Earlier
<1>3. ASSUME NEW f, Sent(f)
      PROVE  Sent(f)'
  <2>1. CASE f \in read
    BY <2>1 DEF Sent
  <2>2. ASSUME NEW i \in 1..Len(toPlugin), toPlugin[i] = Transcript(f)
        PROVE  Sent(f)'
    <3>1. CASE i = 1
      BY <1>1, <2>2, <3>1 DEF Sent
    <3>2. CASE i # 1
      <4>1. i - 1 \in 1..Len(toPlugin') /\ toPlugin'[i - 1] = Transcript(f)
        BY <1>1, <2>2, <3>2
      <4> QED
        BY <4>1 DEF Sent, In, Transcript
    <3> QED
      BY <3>1, <3>2
  <2> QED
    BY <1>3, <2>1, <2>2 DEF Sent, In
<1>4. ASSUME \A j \in 1..Len(toPlugin) : toPlugin[j].what = "question" => Earlier(j, toPlugin[j].on),
             NEW j \in 1..Len(toPlugin'), toPlugin'[j].what = "question"
      PROVE  Earlier(j, toPlugin[j].on)'
  <2>1. j \in 1..Len(toPlugin) /\ j + 1 \in 1..Len(toPlugin) /\ toPlugin'[j] = toPlugin[j + 1]
    BY <1>1
  <2>2. Earlier(j + 1, toPlugin[j + 1].on)
    BY <1>4, <2>1
  <2>3. \A f : Earlier(j + 1, f) => Earlier(j, f)'
    BY <1>2, <2>1
  <2> QED
    BY <2>1, <2>2, <2>3
<1> QED
  BY <1>3, <1>4

(* What _ask holds, and what it asks about, has had its transcript sent. *)
LEMMA AskIsSent ==
  ASSUME MsgInv, Questioned, NEW fs, Head(fs) \in Run!Frames, Sent(Head(fs)),
         Run!AskAbout(fs), read' = read
  PROVE  Questioned' /\ \A f : Sent(f) => Sent(f)'
<1> DEFINE m == [what |-> "question", id |-> asks + 1, on |-> Head(fs)]
<1>1. m \in ToPlugin /\ m.what = "question" /\ m.on = Head(fs)
  BY DEF ToPlugin, MsgInv
<1>2. toPlugin' = Append(toPlugin, m)
  BY DEF Run!AskAbout
<1> HIDE DEF m
<1> QED
  BY <1>1, <1>2, AheadStays DEF Questioned

LEMMA DecideSent ==
  ASSUME LastFrame \in Nat, HeldInv, MsgInv, SentInv, NEW claimed, NEW ending, Run!Decide(claimed, ending),
         Run!Settled
  PROVE  SentInv'
<1>. USE DEF Run!Settled, Run!given, Run!brainVars, Run!pluginVars, Run!relayVars, Run!history
<1>1. UNCHANGED <<emitting, arriving, read, text_control>> /\ emitting = 0 /\ arriving = 0
  BY DEF Run!Decide
<1>2. CASE Run!Going(ending) = 0
  <2>1. toPlugin' = toPlugin /\ held' = <<>>
    BY <1>2 DEF Run!Decide, Run!NotAsking
  <2>2. Questioned' /\ \A f : Sent(f)' <=> Sent(f)
    BY <1>1, <2>1 DEF SentInv, Questioned, Earlier, Sent, In, Transcript
  <2> QED
    BY <1>1, <2>1, <2>2 DEF SentInv
<1>3. CASE Run!Going(ending) \in 2..Len(held) /\ Run!Asks(held[Run!Going(ending)])
  <2> DEFINE next == Run!Going(ending)
  <2>1. Run!AskAbout(SubSeq(held, next, Len(held))) /\ held' = SubSeq(held, next, Len(held))
    <3>1. next # 0
      BY <1>3
    <3> QED
      BY <3>1, Zenon DEF Run!Decide, Run!AskAbout
  <2>2. Head(SubSeq(held, next, Len(held))) = held[next] /\ held[next] \in Run!Frames
    BY <1>3, HeadTailOfSubSeq, ElementOfSeq, LenProperties DEF HeldInv
  <2>3. Sent(held[next])
    BY <1>3, LenProperties DEF SentInv, Run!Asks
  <2>4. Questioned' /\ \A f : Sent(f) => Sent(f)'
    BY <1>1, <2>1, <2>2, <2>3, AskIsSent DEF SentInv, Questioned
  <2>5. Len(held) \in Nat /\ Len(held') = Len(held) - next + 1
        /\ \A j \in 1..Len(held') : held'[j] = held[j + next - 1] /\ j + next - 1 \in 1..Len(held)
    <3>1. Len(held) \in Nat
      BY LenProperties DEF HeldInv
    <3>2. /\ Len(SubSeq(held, next, Len(held))) = Len(held) - next + 1
          /\ \A j \in 1..(Len(held) - next + 1) : SubSeq(held, next, Len(held))[j] = held[next + j - 1]
      BY <1>3, <3>1, SubSeqProperties DEF HeldInv
    <3> QED
      BY SMTT(30), <1>3, <2>1, <3>1, <3>2
  <2> HIDE DEF next
  <2>6. ASSUME NEW j \in 1..Len(held'), NEW f, f = held'[j], text_control'[f] # NoWords
        PROVE  Sent(f)'
    <3>1. PICK i \in 1..Len(held) : f = held[i]
      BY <2>5, <2>6
    <3>2. Sent(f)
      BY <1>1, <2>6, <3>1 DEF SentInv
    <3> QED
      BY <2>4, <3>2
  <2> QED
    BY <1>1, <2>4, <2>6 DEF SentInv, Questioned
<1> QED
  BY <1>2, <1>3, GoingIs DEF HeldInv

LEMMA SentKeeps ==
  ASSUME ~mayCross, LastFrame \in Nat, MaxConsults \in Nat, HeldInv, MsgInv, SentInv, [Run!Next]_Run!vars
  PROVE  SentInv'
<1>. USE DEF Run!given, Run!brainVars, Run!pluginVars, Run!relayVars, Run!history
<1>1. CASE UNCHANGED <<text_control, emitting, arriving, held, toPlugin, read>>
  BY <1>1 DEF SentInv, Questioned, Earlier, Sent, Transcript, In
<1>2. CASE Run!Say
  <2>1. /\ arriving' = said_control + 1 /\ emitting' = (IF text_control[arriving'] = NoWords THEN 0 ELSE arriving')
        /\ UNCHANGED <<text_control, held, toPlugin, read>>
    BY <1>2 DEF Run!Say
  <2>2. said_control + 1 # 0
    BY DEF HeldInv
  <2> QED
    BY <2>1, <2>2 DEF SentInv, Questioned, Earlier, Sent, Transcript, In
<1>3. ASSUME NEW m \in ToPlugin, toPlugin' = Append(toPlugin, m), m.what # "question",
             UNCHANGED <<text_control, held, read>>,
             \/ UNCHANGED <<emitting, arriving>>
             \/ emitting # 0 /\ m = Transcript(emitting) /\ emitting' = 0 /\ arriving' = arriving
      PROVE  SentInv'
  <2>1. Questioned' /\ \A f : Sent(f) \/ m = Transcript(f) => Sent(f)'
    BY <1>3, AheadStays DEF SentInv, Questioned
  <2> QED
    BY <1>3, <2>1 DEF SentInv, Questioned
<1>4. CASE Run!Emit
  <2>1. Transcript(emitting) \in ToPlugin /\ Transcript(emitting).what # "question"
    BY <1>4 DEF Run!Emit, ToPlugin, Transcript, MsgInv
  <2> QED
    BY <1>3, <1>4, <2>1 DEF Run!Emit, Transcript
<1>5. CASE Run!StartConsult \/ Run!ConsultTimesOut
  <2>1. /\ [what |-> "tool_call", call |-> calls + 1] \in ToPlugin
        /\ [what |-> "tool_cancel", call |-> consult] \in ToPlugin
    BY DEF ToPlugin, MsgInv
  <2>2. CASE Run!StartConsult
    BY <1>3, <2>1, <2>2 DEF Run!StartConsult, Run!Counting
  <2>3. CASE Run!ConsultTimesOut
    BY <1>3, <2>1, <2>3 DEF Run!ConsultTimesOut, Run!Counting
  <2> QED
    BY <1>5, <2>2, <2>3
<1>6. CASE Run!Take
  <2>1. /\ arriving \in Run!Frames /\ emitting = 0 /\ arriving' = 0 /\ emitting' = 0
        /\ UNCHANGED <<text_control, read>>
    BY <1>6 DEF Run!Take, HeldInv
  <2>2. text_control[arriving] # NoWords => Sent(arriving)
    BY <2>1 DEF SentInv, Run!Frames
  <2>3. CASE held # <<>> /\ held' = Append(held, arriving) /\ toPlugin' = toPlugin
    <3>1. Len(held) \in Nat /\ Len(held') = Len(held) + 1 /\ held'[Len(held) + 1] = arriving
          /\ \A j \in 1..Len(held) : held'[j] = held[j]
      BY <2>1, <2>3, AppendProperties, LenProperties DEF HeldInv
    <3>2. \A f : Sent(f)' <=> Sent(f)
      BY <2>1, <2>3 DEF Sent, In, Transcript
    <3>3. Questioned'
      BY <2>1, <2>3 DEF SentInv, Questioned, Earlier, Transcript
    <3>4. ASSUME NEW j \in 1..Len(held'), NEW f, f = held'[j], text_control'[f] # NoWords
          PROVE  Sent(f)'
      <4>1. CASE j = Len(held) + 1
        BY <2>1, <2>2, <3>1, <3>2, <3>4, <4>1
      <4>2. CASE j \in 1..Len(held)
        <5>1. f = held[j] /\ Sent(f)
          BY <2>1, <3>1, <3>4, <4>2 DEF SentInv
        <5> QED
          BY <3>2, <5>1
      <4> QED
        BY <3>1, <3>4, <4>1, <4>2
    <3> QED
      BY <2>1, <3>3, <3>4 DEF SentInv, Questioned
  <2>4. CASE Run!AskAbout(<<arriving>>) /\ Run!Asks(arriving)
    <3>1. Head(<<arriving>>) = arriving /\ held' = <<arriving>> /\ Sent(arriving)
      BY <2>2, <2>4 DEF Run!AskAbout, Run!Asks
    <3>2. Questioned' /\ \A f : Sent(f) => Sent(f)'
      BY <2>1, <2>4, <3>1, AskIsSent DEF SentInv, Questioned
    <3> QED
      BY <2>1, <3>1, <3>2 DEF SentInv, Questioned
  <2>5. CASE UNCHANGED <<held, toPlugin>>
    BY <2>1, <2>5 DEF SentInv, Questioned, Earlier, Sent, Transcript, In
  <2> QED
    BY <1>6, <2>3, <2>4, <2>5 DEF Run!Take
<1>7. CASE Run!Answered
  BY <1>1, <1>7, DecideSent DEF Run!Answered, Run!FromPlugin
<1>8. CASE Run!Expire
  BY <1>8, DecideSent DEF Run!Expire
<1>9. CASE Run!End
  BY <1>1, <1>9, DecideSent DEF Run!End
<1>10. CASE Run!ConsultWorking \/ Run!ConsultAnswered \/ Run!ConsultAnsweredDirectly
  BY <1>1, <1>10 DEF Run!ConsultWorking, Run!ConsultAnswered, Run!ConsultAnsweredDirectly,
     Run!Counting
<1>11. CASE Run!Hear \/ Run!Question \/ Run!ToolCall \/ Run!ToolCancel
  <2>1. /\ toPlugin # <<>> /\ toPlugin' = Tail(toPlugin) /\ read \subseteq read'
        /\ UNCHANGED <<text_control, emitting, arriving, held>>
    BY <1>11 DEF Run!Hear, Run!Question, Run!ToolCall, Run!ToolCancel, Run!ToPlugin
  <2>2. ASSUME NEW f, Head(toPlugin) = Transcript(f)
        PROVE  f \in read'
    <3>1. Head(toPlugin).what = "transcript" /\ Head(toPlugin).on = f
      BY <2>2 DEF Transcript
    <3>2. Run!Hear
      BY <1>11, <3>1 DEF Run!Question, Run!ToolCall, Run!ToolCancel, Run!ToPlugin
    <3> QED
      BY <3>1, <3>2 DEF Run!Hear
  <2>3. Questioned' /\ \A f : Sent(f) => Sent(f)'
    BY <2>1, <2>2, AheadIsRead DEF SentInv, Questioned
  <2> QED
    BY <2>1, <2>3 DEF SentInv, Questioned
<1>12. CASE Run!Unconfirmed
  BY <1>1, <1>12 DEF Run!Unconfirmed
<1>13. CASE Run!Relay \/ Run!RelayReplies
  BY ZenonT(60), <1>1, <1>13 DEF Run!Relay, Run!RelayReplies, Run!Ack, Run!RunCounts, Run!RunForgotten,
     Run!Result, Run!ActCancel, Run!ActReply
<1>14. CASE Run!AllOver \/ UNCHANGED Run!vars
  BY <1>1, <1>14 DEF Run!AllOver, Run!vars
<1> QED
  BY <1>2, <1>4, <1>5, <1>6, <1>7, <1>8, <1>9, <1>10, <1>11, <1>12, <1>13, <1>14
     DEF Run!Next, Run!Brain, Run!Plugin

(* A question's number stands for one final, in the brain, in the plugin and on the socket, *)
(* and none is claimed unless an act came after its words were read.                        *)
IdsInv ==
  /\ asks \in Nat /\ asked_control \in 0..asks
  /\ asked_control # 0 => held # <<>>
  /\ \A m : In(m, toPlugin) /\ m.what = "question"
              => m.id \in 1..asks /\ (m.id = asked_control => m.on = Head(held))
  /\ claim.id \in 0..asks
  /\ claim.id = asked_control /\ asked_control # 0 => claim.on = Head(held)
  /\ claim # Run!NoQuestion => claim.on \in read
  /\ \A m : In(m, toBrain) /\ m.what = "answer"
              => /\ m.id \in 0..asks
                 /\ m.id = asked_control /\ asked_control # 0 /\ m.claimed => Head(held) \in confirmed

ActInv ==
  /\ order \in Nat /\ actedAt \in 0..order /\ heard_control.at \in 0..order
  /\ actedAt > heard_control.at => read \subseteq confirmed
  /\ taken \subseteq confirmed

LEMMA AskIds ==
  ASSUME IdsInv, MsgInv, NEW fs, fs # <<>>, Head(fs) \in Run!Frames, Run!AskAbout(fs),
         \A m : In(m, toBrain)' => In(m, toBrain), UNCHANGED <<claim, read, confirmed>>
  PROVE  IdsInv'
<1> DEFINE q == [what |-> "question", id |-> asks + 1, on |-> Head(fs)]
<1>1. q \in ToPlugin /\ toPlugin' = Append(toPlugin, q)
  BY DEF ToPlugin, MsgInv, Run!AskAbout
<1>2. \A m : In(m, toPlugin)' => In(m, toPlugin) \/ m = q
  BY <1>1, InAppend DEF MsgInv, In
<1>3. asks' = asks + 1 /\ asked_control' = asks + 1 /\ held' = fs
  BY DEF Run!AskAbout
<1>4. ASSUME NEW m, In(m, toPlugin)', m.what = "question"
      PROVE  m.id \in 1..asks' /\ (m.id = asked_control' => m.on = Head(held'))
  BY <1>2, <1>3, <1>4 DEF IdsInv
<1>5. ASSUME NEW m, In(m, toBrain)', m.what = "answer"
      PROVE  m.id \in 0..asks' /\ m.id # asked_control'
  BY <1>3, <1>5 DEF IdsInv
<1> QED
  BY <1>3, <1>4, <1>5 DEF IdsInv

LEMMA DropIds ==
  ASSUME IdsInv, Run!NotAsking,
         \A m : In(m, toBrain)' => In(m, toBrain), UNCHANGED <<claim, read, confirmed>>
  PROVE  IdsInv'
<1>1. asks' = asks /\ asked_control' = 0 /\ toPlugin' = toPlugin
  BY DEF Run!NotAsking
<1>2. \A m : In(m, toPlugin)' <=> In(m, toPlugin)
  BY <1>1 DEF In
<1> QED
  BY <1>1, <1>2 DEF IdsInv

LEMMA DecideIds ==
  ASSUME LastFrame \in Nat, HeldInv, MsgInv, IdsInv, ActInv, NEW claimed \in BOOLEAN, NEW ending,
         Run!Decide(claimed, ending),
         \A m : In(m, toBrain)' => In(m, toBrain),
         claimed => Head(held) \in confirmed
  PROVE  IdsInv' /\ ActInv'
<1>. USE DEF Run!given, Run!brainVars, Run!pluginVars, Run!relayVars, Run!history
<1>1. UNCHANGED <<claim, read, confirmed, order, actedAt, heard_control>>
  BY DEF Run!Decide
<1>2. taken' \subseteq confirmed
  BY DEF Run!Decide, ActInv
<1>3. ActInv'
  BY <1>1, <1>2 DEF ActInv
<1>4. CASE Run!Going(ending) = 0
  <2>1. Run!NotAsking
    BY <1>4 DEF Run!Decide
  <2> QED
    BY <1>1, <1>3, <2>1, DropIds
<1>5. CASE Run!Going(ending) \in 2..Len(held)
  <2> DEFINE next == Run!Going(ending)
             fs == SubSeq(held, next, Len(held))
  <2>1. next # 0
    BY <1>5
  <2>2. Run!AskAbout(fs)
    BY <2>1, Zenon DEF Run!Decide
  <2>3. Head(fs) = held[next] /\ held[next] \in Run!Frames /\ Len(held) \in Nat
    BY <1>5, HeadTailOfSubSeq, ElementOfSeq, LenProperties DEF HeldInv
  <2>4. fs \in Seq(Run!Frames) /\ Len(fs) = Len(held) - next + 1
    BY <1>5, <2>3, SubSeqProperties DEF HeldInv
  <2>5. fs # <<>>
    BY <1>5, <2>3, <2>4, EmptySeq
  <2> HIDE DEF fs, next
  <2> QED
    BY <1>1, <1>3, <2>2, <2>3, <2>5, AskIds
<1> QED
  BY <1>4, <1>5, GoingIs DEF HeldInv

(* The plugin's and the relay's steps leave what is asked. *)
LEMMA SameIds ==
  ASSUME IdsInv, UNCHANGED <<asked_control, asks, held>>,
         \A m : In(m, toPlugin)' /\ m.what = "question" => In(m, toPlugin),
         \/ claim' = claim \/ claim' = Run!NoQuestion
         \/ /\ claim'.id \in 0..asks /\ claim'.on \in read'
            /\ claim'.id = asked_control => claim'.on = Head(held),
         read \subseteq read', confirmed \subseteq confirmed',
         \A m : In(m, toBrain)' /\ m.what = "answer" =>
            \/ In(m, toBrain)
            \/ /\ m.id \in 0..asks
               /\ m.id = asked_control /\ asked_control # 0 /\ m.claimed => Head(held) \in confirmed'
  PROVE  IdsInv'
<1>1. claim'.id \in 0..asks
  BY DEF IdsInv, Run!NoQuestion
<1>2. claim'.id = asked_control /\ asked_control # 0 => claim'.on = Head(held)
  BY DEF IdsInv, Run!NoQuestion
<1>3. claim' # Run!NoQuestion => claim'.on \in read'
  BY DEF IdsInv
<1> QED
  BY <1>1, <1>2, <1>3 DEF IdsInv, Run!NoQuestion

LEMMA IdsKeep ==
  ASSUME ~mayCross, LastFrame \in Nat, MaxConsults \in Nat,
         HeldInv, MsgInv, SentInv, IdsInv, ActInv, [Run!Next]_Run!vars
  PROVE  IdsInv' /\ ActInv'
<1>. USE DEF Run!given, Run!brainVars, Run!pluginVars, Run!relayVars, Run!history
<1> DEFINE Asked == UNCHANGED <<asked_control, asks, held>>
           Known == UNCHANGED <<claim, read, confirmed>>
           Acts == UNCHANGED <<order, actedAt, heard_control, read, confirmed, taken>>
<1>1. Acts => ActInv'
  BY DEF ActInv
<1>2. Asked /\ Known /\ UNCHANGED <<toPlugin, toBrain>> => IdsInv'
  BY DEF IdsInv, In
<1>3. ASSUME NEW m \in ToPlugin, toPlugin' = Append(toPlugin, m), m.what # "question",
             Asked, Known, toBrain' = toBrain
      PROVE  IdsInv'
  <2>1. \A n : In(n, toPlugin)' => In(n, toPlugin) \/ n = m
    BY <1>3, InAppend DEF MsgInv, In
  <2>2. \A n : In(n, toBrain)' <=> In(n, toBrain)
    BY <1>3 DEF In
  <2> QED
    BY <1>3, <2>1, <2>2 DEF IdsInv
<1>4. ASSUME toBrain # <<>>, toBrain' = Tail(toBrain)
      PROVE  In(Head(toBrain), toBrain) /\ \A m : In(m, toBrain)' => In(m, toBrain)
  BY <1>4, InTail DEF MsgInv, In
<1>5. ASSUME toPlugin # <<>>, toPlugin' = Tail(toPlugin)
      PROVE  In(Head(toPlugin), toPlugin) /\ \A m : In(m, toPlugin)' => In(m, toPlugin)
  BY <1>5, InTail DEF MsgInv, In
<1>6. CASE Run!Say
  BY <1>1, <1>2, <1>6 DEF Run!Say
<1>7. CASE Run!Emit
  <2>1. Transcript(emitting) \in ToPlugin /\ Transcript(emitting).what # "question"
    BY <1>7 DEF Run!Emit, ToPlugin, Transcript, MsgInv
  <2> QED
    BY <1>1, <1>3, <1>7, <2>1 DEF Run!Emit, Transcript
<1>8. CASE Run!StartConsult
  <2>1. [what |-> "tool_call", call |-> calls + 1] \in ToPlugin
    BY DEF ToPlugin, MsgInv
  <2> QED
    BY <1>1, <1>3, <1>8, <2>1 DEF Run!StartConsult, Run!Counting
<1>9. CASE Run!ConsultTimesOut
  <2>1. [what |-> "tool_cancel", call |-> consult] \in ToPlugin
    BY DEF ToPlugin, MsgInv
  <2> QED
    BY <1>1, <1>3, <1>9, <2>1 DEF Run!ConsultTimesOut, Run!Counting
<1>10. CASE Run!Take
  <2>1. arriving \in Run!Frames /\ UNCHANGED <<toBrain, order, actedAt, heard_control, taken>> /\ Known
    BY <1>10 DEF Run!Take, HeldInv
  <2>2. ActInv'
    BY <1>1, <2>1
  <2>3. CASE held # <<>> /\ held' = Append(held, arriving) /\ UNCHANGED <<asked_control, asks, toPlugin>>
    <3>1. held' # <<>> /\ Head(held') = Head(held)
      BY <2>1, <2>3, AppendProperties, HeadTailProperties, LenProperties, EmptySeq DEF
         HeldInv
    <3> QED
      BY <2>1, <2>2, <2>3, <3>1 DEF IdsInv, In
  <2>4. CASE Run!AskAbout(<<arriving>>)
    <3>1. Head(<<arriving>>) = arriving /\ <<arriving>> # <<>> /\ \A m : In(m, toBrain)' => In(m, toBrain)
      BY <2>1 DEF In
    <3> QED
      BY <2>1, <2>2, <2>4, <3>1, AskIds
  <2>5. CASE UNCHANGED <<held, asked_control, asks, toPlugin>>
    BY <1>2, <2>1, <2>2, <2>5
  <2> QED
    BY <1>10, <2>3, <2>4, <2>5 DEF Run!Take
<1>11. CASE Run!Answered
  <2> DEFINE m == Head(toBrain)
  <2>1. toBrain # <<>> /\ toBrain' = Tail(toBrain) /\ m.what = "answer"
    BY <1>11 DEF Run!Answered, Run!FromPlugin
  <2>2. In(m, toBrain) /\ (\A n : In(n, toBrain)' => In(n, toBrain)) /\ m \in ToBrain
    BY <1>4, <2>1, InTail DEF MsgInv
  <2>3. CASE m.id = asked_control /\ asked_control # 0 /\ Run!Decide(m.claimed, FALSE)
    <3>1. m.claimed \in BOOLEAN
      BY <2>1, <2>2 DEF ToBrain
    <3>2. m.claimed => Head(held) \in confirmed
      BY <2>1, <2>2, <2>3 DEF IdsInv
    <3> HIDE DEF m
    <3> QED
      BY <2>2, <2>3, <3>1, <3>2, DecideIds
  <2>4. CASE Asked /\ Known /\ Acts /\ toPlugin' = toPlugin
    <3>1. \A n : In(n, toPlugin)' <=> In(n, toPlugin)
      BY <2>4 DEF In
    <3> QED
      BY <1>1, <2>2, <2>4, <3>1, SameIds
  <2> QED
    BY <1>11, <2>3, <2>4 DEF Run!Answered
<1>12. CASE Run!Expire
  <2>1. \A n : In(n, toBrain)' => In(n, toBrain)
    BY <1>12 DEF Run!Expire, In
  <2> QED
    BY <1>12, <2>1, DecideIds DEF Run!Expire
<1>13. CASE Run!End
  <2>1. \A n : In(n, toBrain)' => In(n, toBrain)
    BY <1>13 DEF Run!End, In
  <2> QED
    BY <1>1, <1>2, <1>13, <2>1, DecideIds DEF Run!End
<1>14. CASE Run!ConsultWorking \/ Run!ConsultAnswered \/ Run!ConsultAnsweredDirectly
  <2>1. Asked /\ Known /\ Acts /\ toPlugin' = toPlugin
    BY <1>14 DEF Run!ConsultWorking, Run!ConsultAnswered, Run!ConsultAnsweredDirectly,
       Run!Counting
  <2>2. toBrain' = toBrain \/ (toBrain # <<>> /\ toBrain' = Tail(toBrain))
    BY <1>14 DEF Run!ConsultWorking, Run!ConsultAnswered, Run!ConsultAnsweredDirectly,
       Run!FromPlugin
  <2>3. (\A n : In(n, toBrain)' => In(n, toBrain)) /\ \A n : In(n, toPlugin)' <=> In(n, toPlugin)
    BY <1>4, <2>1, <2>2 DEF In
  <2> QED
    BY <1>1, <2>1, <2>3, SameIds
<1>15. CASE Run!Hear
  <2>1. /\ Asked /\ UNCHANGED <<claim, confirmed, toBrain, actedAt, taken>> /\ read \subseteq read'
        /\ order' = order + 1 /\ heard_control'.at = order + 1 /\ toPlugin # <<>> /\ toPlugin' = Tail(toPlugin)
    BY <1>15 DEF Run!Hear, Run!ToPlugin
  <2>2. (\A n : In(n, toBrain)' <=> In(n, toBrain)) /\ \A n : In(n, toPlugin)' => In(n, toPlugin)
    BY <1>5, <2>1 DEF In
  <2>3. ActInv'
    BY <2>1 DEF ActInv
  <2> QED
    BY <2>1, <2>2, <2>3, SameIds
<1>16. CASE Run!ToolCall \/ Run!ToolCancel
  <2>1. Asked /\ Known /\ Acts /\ toBrain' = toBrain /\ toPlugin # <<>> /\ toPlugin' = Tail(toPlugin)
    BY <1>16 DEF Run!ToolCall, Run!ToolCancel, Run!ToPlugin
  <2>2. (\A n : In(n, toBrain)' <=> In(n, toBrain)) /\ \A n : In(n, toPlugin)' => In(n, toPlugin)
    BY <1>5, <2>1 DEF In
  <2> QED
    BY <1>1, <2>1, <2>2, SameIds
<1>17. ASSUME NEW q, NEW c \in BOOLEAN, q.id \in Nat, Run!Reply(q, c)
       PROVE  \A n : In(n, toBrain)' => In(n, toBrain) \/ n = Run!Answer(q, c)
  <2>1. Run!Answer(q, c) \in ToBrain
    BY <1>17 DEF Run!Answer, ToBrain
  <2> QED
    BY <1>17, <2>1, InAppend DEF Run!Reply, MsgInv, In
<1>18. CASE Run!Unconfirmed
  <2>1. Asked /\ Acts /\ toPlugin' = toPlugin /\ claim' = Run!NoQuestion /\ Run!Reply(claim, FALSE)
    BY <1>18 DEF Run!Unconfirmed
  <2>2. \A n : In(n, toBrain)' => In(n, toBrain) \/ n = Run!Answer(claim, FALSE)
    BY <1>17, <2>1 DEF MsgInv
  <2>3. Run!Answer(claim, FALSE).id \in 0..asks /\ Run!Answer(claim, FALSE).claimed = FALSE
    BY DEF IdsInv, Run!Answer
  <2>4. \A n : In(n, toPlugin)' <=> In(n, toPlugin)
    BY <2>1 DEF In
  <2> QED
    BY <1>1, <2>1, <2>2, <2>3, <2>4, SameIds
<1>19. CASE Run!Question
  <2> DEFINE m == Head(toPlugin)
             matched == heard_control.at > usedUp /\ Run!SameWords(heard_control.on, m.on)
             q == [id |-> m.id, on |-> m.on, matched |-> matched, since |-> IF matched THEN heard_control.at ELSE 0]
             ruled == IF matched THEN q ELSE [q EXCEPT !.since = order + 1]
  <2>1. /\ toPlugin # <<>> /\ toPlugin' = Tail(toPlugin) /\ m.what = "question"
        /\ Asked /\ UNCHANGED <<actedAt, heard_control, confirmed, taken>> /\ read' = read \cup {m.on}
    BY <1>19 DEF Run!Question, Run!ToPlugin
  <2>2. In(m, toPlugin) /\ (\A n : In(n, toPlugin)' => In(n, toPlugin)) /\ m \in ToPlugin
    BY <1>5, <2>1, InTail DEF MsgInv
  <2>3. m.id \in 1..asks /\ (m.id = asked_control => m.on = Head(held))
    BY <2>1, <2>2 DEF IdsInv
  <2>4. m.on \in read
    <3>1. 1 \in 1..Len(toPlugin) /\ m = toPlugin[1]
      BY <2>1, HeadTailProperties, LenProperties, EmptySeq DEF MsgInv
    <3>2. Earlier(1, toPlugin[1].on)
      BY <2>1, <3>1 DEF SentInv, Questioned
    <3> QED
      BY <3>1, <3>2 DEF Earlier
  <2>5. read' = read
    BY <2>1, <2>4
  <2>6. order' \in {order, order + 1}
    BY <1>19 DEF Run!Question
  <2>7. ActInv'
    BY <2>1, <2>5, <2>6 DEF ActInv
  <2>8. q.id = m.id /\ ruled.id = m.id /\ ruled.on = m.on
    OBVIOUS
  <2>9. actedAt > ruled.since => m.on \in confirmed
    <3>1. CASE matched
      BY <2>4, <3>1 DEF ActInv
    <3>2. CASE ~matched
      BY <3>2 DEF ActInv
    <3> QED
      BY <3>1, <3>2
  <2>10. \/ Run!Reply(q, FALSE) /\ claim' = claim
         \/ actedAt > ruled.since /\ Run!Reply(ruled, TRUE) /\ claim' = claim
         \/ claim' = ruled /\ (toBrain' = toBrain \/ Run!Reply(claim, FALSE))
    BY <1>19, Zenon DEF Run!Question
  <2>14. q.id \in Nat /\ ruled.id \in Nat
    BY <2>3, <2>8 DEF MsgInv
  <2> HIDE DEF m, matched, q, ruled
  <2>11. CASE Run!Reply(q, FALSE) /\ claim' = claim
    <3>1. \A n : In(n, toBrain)' => In(n, toBrain) \/ n = Run!Answer(q, FALSE)
      BY <1>17, <2>8, <2>14, <2>11
    <3>2. Run!Answer(q, FALSE).id \in 0..asks /\ Run!Answer(q, FALSE).claimed = FALSE
      BY <2>3, <2>8 DEF Run!Answer
    <3> QED
      BY <2>1, <2>2, <2>5, <2>7, <2>11, <3>1, <3>2, SameIds
  <2>12. CASE actedAt > ruled.since /\ Run!Reply(ruled, TRUE) /\ claim' = claim
    <3>1. \A n : In(n, toBrain)' => In(n, toBrain) \/ n = Run!Answer(ruled, TRUE)
      BY <1>17, <2>8, <2>14, <2>12
    <3>2. /\ Run!Answer(ruled, TRUE).id \in 0..asks
          /\ Run!Answer(ruled, TRUE).id = asked_control => Head(held) \in confirmed
      BY <2>3, <2>8, <2>9, <2>12 DEF Run!Answer
    <3> QED
      BY <2>1, <2>2, <2>5, <2>7, <2>12, <3>1, <3>2, SameIds
  <2>13. CASE claim' = ruled /\ (toBrain' = toBrain \/ Run!Reply(claim, FALSE))
    <3>1. \A n : In(n, toBrain)' => In(n, toBrain) \/ n = Run!Answer(claim, FALSE)
      BY <1>17, <2>13 DEF MsgInv, In
    <3>2. Run!Answer(claim, FALSE).id \in 0..asks /\ Run!Answer(claim, FALSE).claimed = FALSE
      BY DEF IdsInv, Run!Answer
    <3>3. claim'.id \in 0..asks /\ claim'.on \in read' /\ (claim'.id = asked_control => claim'.on = Head(held))
      BY <2>3, <2>4, <2>5, <2>8, <2>13
    <3> QED
      BY <2>1, <2>2, <2>5, <2>7, <3>1, <3>2, <3>3, SameIds
  <2> QED
    BY <2>10, <2>11, <2>12, <2>13
<1>20. ASSUME Run!RelayActed(<<>>) \/ \E c \in Run!Consults : Run!RelayActed(<<[what |-> "tool_result", call |-> c]>>),
              Asked, UNCHANGED <<toPlugin, read, heard_control, taken>>
       PROVE  IdsInv' /\ ActInv'
  <2>1. /\ order' = order + 1 /\ actedAt' = order' /\ confirmed' = confirmed \cup read
        /\ claim' = Run!NoQuestion
    BY <1>20 DEF Run!RelayActed
  <2>2. ActInv'
    BY <1>20, <2>1 DEF ActInv
  <2>3. \A n : In(n, toBrain)' /\ n.what = "answer" => In(n, toBrain) \/ (claim # Run!NoQuestion /\ n = Run!Answer(claim, TRUE))
    <3> DEFINE s == IF claim = Run!NoQuestion THEN toBrain ELSE Append(toBrain, Run!Answer(claim, TRUE))
    <3>1. Run!Answer(claim, TRUE) \in ToBrain
      BY DEF Run!Answer, ToBrain, MsgInv
    <3>2. s \in Seq(ToBrain) /\ \A n : In(n, s) => In(n, toBrain) \/ (claim # Run!NoQuestion /\ n = Run!Answer(claim, TRUE))
      BY <3>1, InAppend DEF MsgInv
    <3> HIDE DEF s
    <3>3. CASE toBrain' = s \o <<>>
      <4>1. toBrain' = s
        BY <3>2, <3>3, ConcatEmptySeq, Zenon
      <4> QED
        BY <3>2, <4>1 DEF In
    <3>4. ASSUME NEW c \in Run!Consults, toBrain' = s \o <<[what |-> "tool_result", call |-> c]>>
          PROVE  \A n : In(n, toBrain)' /\ n.what = "answer" => In(n, s)
      <4> DEFINE t == [what |-> "tool_result", call |-> c]
      <4>1. t \in ToBrain /\ t.what # "answer"
        BY DEF ToBrain, Run!Consults
      <4> HIDE DEF t
      <4>2. toBrain' = s \o <<t>>
        BY <3>4 DEF t
      <4>3. \A n : In(n, s \o <<t>>) => In(n, s) \/ n = t
        BY <3>2, <4>1, InConcat
      <4> QED
        BY <4>1, <4>2, <4>3 DEF In
    <3>5. toBrain' = s \o <<>> \/ \E c \in Run!Consults : toBrain' = s \o <<[what |-> "tool_result", call |-> c]>>
      BY <1>20 DEF Run!RelayActed, s
    <3> QED
      BY <3>2, <3>3, <3>4, <3>5
  <2>4. claim # Run!NoQuestion /\ claim.id = asked_control /\ asked_control # 0 => Head(held) \in confirmed'
    BY <2>1 DEF IdsInv
  <2>5. Run!Answer(claim, TRUE).id = claim.id /\ claim.id \in 0..asks
    BY DEF Run!Answer, IdsInv
  <2>6. \A n : In(n, toPlugin)' <=> In(n, toPlugin)
    BY <1>20 DEF In
  <2> QED
    BY <1>20, <2>1, <2>2, <2>3, <2>4, <2>5, <2>6, SameIds
<1>21. ASSUME NEW f \in Run!Frames, Run!ActReply(f) PROVE IdsInv' /\ ActInv'
  BY <1>20, <1>21 DEF Run!ActReply
<1>22. ASSUME NEW f \in Run!Frames, NEW c \in Run!Consults, Run!ActCancel(f, c) PROVE IdsInv' /\ ActInv'
  BY <1>20, <1>22 DEF Run!ActCancel
<1>23. ASSUME NEW c \in Run!Consults, Run!Ack(c) \/ Run!Result(c) PROVE IdsInv' /\ ActInv'
  <2>1. [what |-> "working", call |-> c] \in ToBrain /\ [what |-> "tool_result", call |-> c] \in ToBrain
    BY DEF ToBrain, Run!Consults
  <2>2. Asked /\ Known /\ Acts /\ toPlugin' = toPlugin
    BY <1>23 DEF Run!Ack, Run!Result
  <2>3. PICK t \in ToBrain : t.what # "answer" /\ toBrain' = Append(toBrain, t)
    BY <1>23, <2>1 DEF Run!Ack, Run!Result
  <2>4. \A n : In(n, toBrain)' => In(n, toBrain) \/ n = t
    BY <2>3, InAppend DEF MsgInv, In
  <2>5. \A n : In(n, toPlugin)' <=> In(n, toPlugin)
    BY <2>2 DEF In
  <2> QED
    BY <1>1, <2>2, <2>3, <2>4, <2>5, SameIds
<1>24. ASSUME NEW c \in Run!Consults, Run!RunCounts(c) \/ Run!RunForgotten(c) PROVE IdsInv' /\ ActInv'
  BY <1>1, <1>2, <1>24 DEF Run!RunCounts, Run!RunForgotten
<1>25. CASE Run!AllOver \/ UNCHANGED Run!vars
  BY SMTT(30), <1>1, <1>2, <1>25 DEF Run!AllOver, Run!vars
<1> HIDE DEF Asked, Known, Acts
<1> QED
  BY <1>6, <1>7, <1>8, <1>9, <1>10, <1>11, <1>12, <1>13, <1>14, <1>15, <1>16, <1>18, <1>19,
     <1>21, <1>22, <1>23, <1>24, <1>25 DEF Run!Next, Run!Brain, Run!Plugin, Run!Relay, Run!RelayReplies

LEMMA LineStays ==
  ASSUME [Run!Next]_Run!vars
  PROVE  UNCHANGED <<mayCross, timely>>
BY DEF Run!Next, Run!Brain, Run!Plugin, Run!Relay, Run!RelayReplies, Run!AllOver, Run!vars,
   Run!given, Run!brainVars, Run!Say, Run!Emit, Run!Take, Run!Hear, Run!Answered,
   Run!Decide, Run!Expire, Run!End, Run!StartConsult, Run!ConsultWorking,
   Run!ConsultAnswered, Run!ConsultTimesOut, Run!ConsultAnsweredDirectly, Run!Counting,
   Run!Question, Run!Unconfirmed, Run!ToolCall, Run!ToolCancel, Run!Ack, Run!RunCounts,
   Run!RunForgotten, Run!Result, Run!ActCancel, Run!ActReply

ControlInv ==
  /\ HeldInv /\ MsgInv
  /\ ~mayCross => SentInv /\ IdsInv /\ ActInv

LEMMA ControlStarts == Run!Init => ControlInv
<1> SUFFICES ASSUME Run!Init PROVE ControlInv
  OBVIOUS
<1>1. HeldInv
  <2>1. \A s \in Seq(Run!Frames) : s \o <<>> = s
    BY ConcatEmptySeq
  <2>2. <<>> \in Seq(Run!Frames) /\ (<<>> \o <<>>) \o <<>> = <<>>
    BY <2>1, EmptySeq
  <2>3. <<>> = [i \in 1..0 |-> i]
    OBVIOUS
  <2> QED
    BY <2>2, <2>3 DEF Run!Init, HeldInv, Run!InOrder
<1>2. MsgInv
  BY DEF Run!Init, MsgInv, Run!NoQuestion
<1>3. SentInv
  BY DEF Run!Init, SentInv, Questioned
<1>4. IdsInv
  BY DEF Run!Init, IdsInv, In, Run!NoQuestion
<1>5. ActInv
  BY DEF Run!Init, ActInv, Run!NotHeard
<1> QED
  BY <1>1, <1>2, <1>3, <1>4, <1>5 DEF ControlInv

LEMMA ControlKeeps ==
  ASSUME LastFrame \in Nat, MaxConsults \in Nat, ControlInv, [Run!Next]_Run!vars
  PROVE  ControlInv'
<1>1. HeldInv' /\ MsgInv'
  BY HeldKeeps, MsgKeeps DEF ControlInv
<1>2. ~mayCross => SentInv' /\ IdsInv' /\ ActInv'
  BY SentKeeps, IdsKeep DEF ControlInv
<1> QED
  BY <1>1, <1>2, LineStays DEF ControlInv

-----------------------------------------------------------------------------
(* What run control acts on is not answered as well: one question is under  *)
(* way at a time, and a question denied is about words that are past.       *)

(* The transcripts in s are in order, each past low and none past top. *)
Rising(s, low, top) ==
  /\ \A i \in 1..Len(s) : s[i].what = "transcript" => low < s[i].on /\ s[i].on <= top
  /\ \A i, j \in 1..Len(s) : i < j /\ s[i].what = "transcript" /\ s[j].what = "transcript"
                                => s[i].on < s[j].on

NoneOf(s, what) == \A i \in 1..Len(s) : s[i].what # what
OneOf(s, what)  == \A i, j \in 1..Len(s) : s[i].what = what /\ s[j].what = what => i = j

LEMMA AfterAppend ==
  ASSUME NEW S, NEW s \in Seq(S), NEW e \in S
  PROVE  /\ Len(s) \in Nat /\ Len(Append(s, e)) = Len(s) + 1 /\ Append(s, e)[Len(s) + 1] = e
         /\ \A i \in 1..Len(s) : Append(s, e)[i] = s[i]
BY AppendProperties, LenProperties

LEMMA AfterTail ==
  ASSUME NEW S, NEW s \in Seq(S), s # <<>>
  PROVE  /\ Len(Tail(s)) \in Nat /\ Len(s) = Len(Tail(s)) + 1 /\ Head(s) = s[1] /\ Head(s) \in S
         /\ \A i \in 1..Len(Tail(s)) : Tail(s)[i] = s[i + 1]
BY HeadTailProperties, LenProperties, EmptySeq

(* None and one of a kind of message, when one comes or goes. *)
LEMMA OneComes ==
  ASSUME NEW S, NEW s \in Seq(S), NEW e \in S, NEW what
  PROVE  /\ NoneOf(s, what) /\ e.what # what => NoneOf(Append(s, e), what)
         /\ NoneOf(s, what) \/ (OneOf(s, what) /\ e.what # what) => OneOf(Append(s, e), what)
<1> DEFINE t == Append(s, e)
<1>1. /\ Len(s) \in Nat /\ Len(t) = Len(s) + 1 /\ t[Len(s) + 1] = e
      /\ \A i \in 1..Len(s) : t[i] = s[i]
  BY AfterAppend
<1> HIDE DEF t
<1>2. NoneOf(s, what) /\ e.what # what => NoneOf(t, what)
  BY <1>1 DEF NoneOf
<1>3. NoneOf(s, what) \/ (OneOf(s, what) /\ e.what # what) => OneOf(t, what)
  BY <1>1 DEF NoneOf, OneOf
<1> QED
  BY <1>2, <1>3 DEF t

LEMMA OneGoes ==
  ASSUME NEW S, NEW s \in Seq(S), s # <<>>, NEW what
  PROVE  /\ NoneOf(s, what) => NoneOf(Tail(s), what) /\ Head(s).what # what
         /\ OneOf(s, what) => OneOf(Tail(s), what) /\ (Head(s).what = what => NoneOf(Tail(s), what))
<1> DEFINE t == Tail(s)
<1>1. /\ Len(t) \in Nat /\ Len(s) = Len(t) + 1 /\ Head(s) = s[1]
      /\ \A i \in 1..Len(t) : t[i] = s[i + 1]
  BY AfterTail
<1> HIDE DEF t
<1>2. NoneOf(s, what) => NoneOf(t, what) /\ Head(s).what # what
  BY <1>1 DEF NoneOf
<1>3. OneOf(s, what) => OneOf(t, what)
  BY <1>1 DEF OneOf
<1>4. OneOf(s, what) /\ Head(s).what = what => NoneOf(t, what)
  BY <1>1 DEF OneOf, NoneOf
<1> QED
  BY <1>2, <1>3, <1>4 DEF t

LEMMA RisingOn ==
  ASSUME LastFrame \in Nat, NEW s \in Seq(ToPlugin), NEW m \in ToPlugin, NEW low \in Nat, NEW top \in Nat,
         low <= top, Rising(s, low, top)
  PROVE  /\ m.what # "transcript" => Rising(Append(s, m), low, top)
         /\ m.what = "transcript" /\ m.on = top + 1 => Rising(Append(s, m), low, top + 1)
<1> DEFINE t == Append(s, m)
<1>1. /\ Len(s) \in Nat /\ Len(t) = Len(s) + 1 /\ t[Len(s) + 1] = m
      /\ \A i \in 1..Len(s) : t[i] = s[i]
  BY AfterAppend
<1>2. \A i \in 1..Len(s) : s[i].what = "transcript" => s[i].on \in Nat
  BY ElementOfSeq DEF ToPlugin, Run!Frames
<1> HIDE DEF t
<1>3. m.what # "transcript" => Rising(t, low, top)
  BY SMTT(30), <1>1 DEF Rising
<1>4. ASSUME m.what = "transcript", m.on = top + 1 PROVE Rising(t, low, top + 1)
  <2>1. \A i \in 1..Len(s) : s[i].what = "transcript" => low < s[i].on /\ s[i].on <= top /\ s[i].on < top + 1
    BY <1>2 DEF Rising
  <2>2. ASSUME NEW i \in 1..Len(t), t[i].what = "transcript" PROVE low < t[i].on /\ t[i].on <= top + 1
    BY <1>1, <1>2, <1>4, <2>1, <2>2
  <2>3. ASSUME NEW i \in 1..Len(t), NEW j \in 1..Len(t), i < j, t[i].what = "transcript", t[j].what = "transcript"
        PROVE  t[i].on < t[j].on
    <3>4. i \in 1..Len(s) /\ (j \in 1..Len(s) \/ j = Len(s) + 1)
      BY <1>1, <2>3
    <3>1. t[i] = s[i]
      BY <1>1, <3>4
    <3>2. CASE j \in 1..Len(s)
      BY <1>1, <2>3, <3>1, <3>2, <3>4 DEF Rising
    <3>3. CASE j = Len(s) + 1
      BY <1>1, <1>4, <2>1, <2>3, <3>1, <3>3, <3>4
    <3> QED
      BY <3>2, <3>3, <3>4
  <2> QED
    BY <2>2, <2>3 DEF Rising
<1> QED
  BY <1>3, <1>4 DEF t

LEMMA RisingOff ==
  ASSUME LastFrame \in Nat, NEW s \in Seq(ToPlugin), s # <<>>, NEW low \in Nat, NEW top \in Nat, Rising(s, low, top)
  PROVE  /\ Rising(Tail(s), low, top)
         /\ Head(s).what = "transcript"
              => /\ Head(s).on \in Nat /\ low < Head(s).on /\ Head(s).on <= top
                 /\ Rising(Tail(s), Head(s).on, top)
<1> DEFINE t == Tail(s)
<1>1. /\ Len(t) \in Nat /\ Len(s) = Len(t) + 1 /\ Head(s) = s[1] /\ Head(s) \in ToPlugin
      /\ \A i \in 1..Len(t) : t[i] = s[i + 1]
  BY AfterTail
<1>2. Head(s).what = "transcript" => Head(s).on \in Nat
  BY <1>1 DEF ToPlugin, Run!Frames
<1> HIDE DEF t
<1>5. 1 \in 1..Len(s) /\ \A i \in 1..Len(t) : i + 1 \in 1..Len(s) /\ 1 < i + 1
  BY <1>1
<1>6. /\ \A i \in 1..Len(s) : s[i].what = "transcript" => low < s[i].on /\ s[i].on <= top
      /\ \A i, j \in 1..Len(s) : i < j /\ s[i].what = "transcript" /\ s[j].what = "transcript"
                                    => s[i].on < s[j].on
  BY DEF Rising
<1>7. \A i, j \in 1..Len(t) : i < j /\ t[i].what = "transcript" /\ t[j].what = "transcript"
                                 => t[i].on < t[j].on
  <2>1. SUFFICES ASSUME NEW i \in 1..Len(t), NEW j \in 1..Len(t), i < j, t[i].what = "transcript",
                        t[j].what = "transcript"
                 PROVE  t[i].on < t[j].on
    OBVIOUS
  <2>2. t[i] = s[i + 1] /\ t[j] = s[j + 1] /\ i + 1 < j + 1
    BY <1>1, <2>1
  <2> QED
    BY <1>5, <1>6, <2>1, <2>2
<1>3. Rising(t, low, top)
  BY <1>1, <1>5, <1>6, <1>7 DEF Rising
<1>4. Head(s).what = "transcript" => /\ low < Head(s).on /\ Head(s).on <= top
                                     /\ Rising(t, Head(s).on, top)
  BY <1>1, <1>5, <1>6, <1>7 DEF Rising
<1> QED
  BY <1>2, <1>3, <1>4 DEF t

(* Each final's transcript goes out once, in order: one heard is not heard  *)
(* again, nor is an earlier one.                                            *)
Sentences == IF emitting = 0 THEN said_control ELSE said_control - 1

FreshInv ==
  /\ emitting \in {0, said_control} /\ heard_control.on \in Nat /\ heard_control.on <= Sentences
  /\ Rising(toPlugin, heard_control.on, Sentences)

LEMMA FreshKeeps ==
  ASSUME LastFrame \in Nat, MaxConsults \in Nat, HeldInv, MsgInv, FreshInv, [Run!Next]_Run!vars
  PROVE  FreshInv'
<1>. USE DEF Run!given, Run!brainVars, Run!pluginVars, Run!relayVars, Run!history
<1>0. Sentences \in Nat /\ said_control \in Nat
  BY DEF Sentences, FreshInv, HeldInv
<1>1. CASE UNCHANGED <<emitting, said_control, heard_control, toPlugin>>
  BY <1>1 DEF FreshInv, Sentences
<1>2. ASSUME NEW m \in ToPlugin, m.what # "transcript", toPlugin' = Append(toPlugin, m),
             UNCHANGED <<emitting, said_control, heard_control>>
      PROVE  FreshInv'
  <2>1. Rising(Append(toPlugin, m), heard_control.on, Sentences)
    BY <1>0, <1>2, RisingOn DEF FreshInv, MsgInv
  <2> QED
    BY <1>2, <2>1 DEF FreshInv, Sentences
<1>3. ASSUME toPlugin # <<>>, toPlugin' = Tail(toPlugin),
             UNCHANGED <<emitting, said_control, heard_control>>
      PROVE  FreshInv'
  <2>1. Rising(Tail(toPlugin), heard_control.on, Sentences)
    BY <1>0, <1>3, RisingOff DEF FreshInv, MsgInv
  <2> QED
    BY <1>3, <2>1 DEF FreshInv, Sentences
<1>4. CASE Run!Say
  <2>1. /\ emitting = 0 /\ said_control' = said_control + 1 /\ emitting' \in {0, said_control'}
        /\ UNCHANGED <<heard_control, toPlugin>>
    BY <1>4 DEF Run!Say, Run!Settled
  <2>2. Rising(toPlugin, heard_control.on, said_control)
    BY <2>1 DEF FreshInv, Sentences
  <2>3. Sentences = said_control /\ Sentences' \in {said_control, said_control + 1}
    BY <1>0, <2>1 DEF Sentences
  <2>4. Rising(toPlugin, heard_control.on, Sentences)'
    <3>1. \A i \in 1..Len(toPlugin) : toPlugin[i].what = "transcript" => toPlugin[i].on \in Nat
      BY ElementOfSeq DEF ToPlugin, Run!Frames, MsgInv
    <3> QED
      BY <1>0, <2>1, <2>2, <2>3, <3>1 DEF Rising
  <2> QED
    BY <1>0, <2>1, <2>3, <2>4 DEF FreshInv
<1>5. CASE Run!Emit
  <2>1. /\ emitting # 0 /\ emitting' = 0 /\ UNCHANGED <<said_control, heard_control>>
        /\ toPlugin' = Append(toPlugin, Transcript(emitting))
    BY <1>5 DEF Run!Emit, Transcript
  <2>2. Transcript(emitting) \in ToPlugin
    BY <2>1 DEF ToPlugin, Transcript, MsgInv
  <2>3. emitting = said_control /\ Sentences = said_control - 1 /\ Sentences' = said_control
    BY <2>1 DEF FreshInv, Sentences
  <2>4. Transcript(emitting).what = "transcript" /\ Transcript(emitting).on = Sentences + 1
    BY <1>0, <2>3 DEF Transcript
  <2>5. Rising(toPlugin', heard_control.on, Sentences + 1)
    BY <1>0, <2>1, <2>2, <2>4, RisingOn DEF FreshInv, MsgInv
  <2> QED
    BY <1>0, <2>1, <2>3, <2>5 DEF FreshInv
<1>6. CASE Run!Hear
  <2>1. /\ toPlugin # <<>> /\ toPlugin' = Tail(toPlugin) /\ Head(toPlugin).what = "transcript"
        /\ heard_control'.on = Head(toPlugin).on /\ UNCHANGED <<emitting, said_control>>
    BY <1>6 DEF Run!Hear, Run!ToPlugin
  <2>2. /\ Head(toPlugin).on \in Nat /\ Head(toPlugin).on <= Sentences
        /\ Rising(toPlugin', Head(toPlugin).on, Sentences)
    BY <1>0, <2>1, RisingOff DEF FreshInv, MsgInv
  <2> QED
    BY <2>1, <2>2 DEF FreshInv, Sentences
<1>7. ASSUME NEW fs, Head(fs) \in Run!Frames, Run!AskAbout(fs)
      PROVE  \E m \in ToPlugin : m.what # "transcript" /\ toPlugin' = Append(toPlugin, m)
  <2>1. [what |-> "question", id |-> asks + 1, on |-> Head(fs)] \in ToPlugin
    BY <1>7 DEF ToPlugin, MsgInv
  <2> QED
    BY <1>7, <2>1 DEF Run!AskAbout
<1>8. CASE Run!Take
  <2>1. arriving \in Run!Frames /\ Head(<<arriving>>) = arriving
    BY <1>8 DEF Run!Take, HeldInv
  <2> QED
    BY <1>1, <1>2, <1>7, <1>8, <2>1 DEF Run!Take
<1>9. ASSUME NEW claimed, NEW ending, Run!Decide(claimed, ending)
      PROVE  FreshInv'
  <2>1. CASE Run!Going(ending) = 0
    BY <1>1, <1>9, <2>1 DEF Run!Decide, Run!NotAsking
  <2>2. CASE Run!Going(ending) \in 2..Len(held)
    <3>1. Head(SubSeq(held, Run!Going(ending), Len(held))) = held[Run!Going(ending)]
      BY <2>2, HeadTailOfSubSeq, LenProperties DEF HeldInv
    <3>2. held[Run!Going(ending)] \in Run!Frames
      BY <2>2, ElementOfSeq, LenProperties DEF HeldInv
    <3>3. Run!AskAbout(SubSeq(held, Run!Going(ending), Len(held)))
      BY <1>9, <2>2 DEF Run!Decide
    <3> QED
      BY <1>2, <1>7, <1>9, <3>1, <3>2, <3>3 DEF Run!Decide
  <2> QED
    BY <2>1, <2>2, GoingIs DEF HeldInv
<1>10. CASE Run!Answered \/ Run!Expire \/ Run!End
  BY <1>1, <1>9, <1>10 DEF Run!Answered, Run!Expire, Run!End
<1>11. CASE Run!StartConsult \/ Run!ConsultTimesOut
  <2>1. [what |-> "tool_call", call |-> calls + 1] \in ToPlugin /\ [what |-> "tool_cancel", call |-> consult] \in ToPlugin
    BY DEF ToPlugin, MsgInv
  <2> QED
    BY <1>2, <1>11, <2>1 DEF Run!StartConsult, Run!ConsultTimesOut, Run!Counting
<1>12. CASE Run!ConsultWorking \/ Run!ConsultAnswered \/ Run!ConsultAnsweredDirectly \/ Run!Unconfirmed
  BY <1>1, <1>12 DEF Run!ConsultWorking, Run!ConsultAnswered, Run!ConsultAnsweredDirectly,
     Run!Counting, Run!Unconfirmed
<1>13. CASE Run!Question \/ Run!ToolCall \/ Run!ToolCancel
  BY <1>3, <1>13 DEF Run!Question, Run!ToolCall, Run!ToolCancel, Run!ToPlugin
<1>14. CASE Run!Relay \/ Run!RelayReplies
  BY <1>1, <1>14 DEF Run!Relay, Run!RelayReplies, Run!Ack, Run!RunCounts, Run!RunForgotten,
     Run!Result, Run!ActCancel, Run!ActReply
<1>15. CASE Run!AllOver \/ UNCHANGED Run!vars
  BY <1>1, <1>15 DEF Run!AllOver, Run!vars
<1> QED
  BY <1>4, <1>5, <1>6, <1>8, <1>10, <1>11, <1>12, <1>13, <1>14, <1>15 DEF Run!Next,
     Run!Brain,
     Run!Plugin

(* A consult is told of once, before the relay has a run for it. *)
Told(s, made, marks) ==
  /\ \A i \in 1..Len(s) : s[i].what = "tool_call" => s[i].call <= made /\ marks[s[i].call] = "none"
  /\ \A i, j \in 1..Len(s) : s[i].what = "tool_call" /\ s[j].what = "tool_call" /\ s[i].call = s[j].call
                               => i = j

RunsInv ==
  /\ open_control \in [Run!Consults -> {"none", "told", "acked"}]
  /\ running \subseteq {c \in Run!Consults : open_control[c] = "acked"}
  /\ \A c \in Run!Consults : c > calls => open_control[c] = "none"
  /\ Told(toPlugin, calls, open_control)

LEMMA ToldOn ==
  ASSUME NEW s \in Seq(ToPlugin), NEW m \in ToPlugin, NEW made \in Nat, NEW marks, Told(s, made, marks)
  PROVE  /\ m.what # "tool_call" => Told(Append(s, m), made, marks)
         /\ m.what = "tool_call" /\ m.call = made + 1 /\ marks[made + 1] = "none"
              => Told(Append(s, m), made + 1, marks)
<1> DEFINE t == Append(s, m)
<1>1. /\ Len(s) \in Nat /\ Len(t) = Len(s) + 1 /\ t[Len(s) + 1] = m
      /\ \A i \in 1..Len(s) : t[i] = s[i]
  BY AfterAppend
<1>2. \A i \in 1..Len(s) : s[i].what = "tool_call" => s[i].call \in Nat
  BY ElementOfSeq DEF ToPlugin
<1> HIDE DEF t
<1>3. m.what # "tool_call" => Told(t, made, marks)
  BY <1>1 DEF Told
<1>4. ASSUME m.what = "tool_call", m.call = made + 1, marks[made + 1] = "none" PROVE Told(t, made + 1, marks)
  <2>1. \A i \in 1..Len(s) : s[i].what = "tool_call" => s[i].call <= made + 1 /\ s[i].call # made + 1
    BY <1>2 DEF Told
  <2>2. ASSUME NEW i \in 1..Len(t), t[i].what = "tool_call" PROVE t[i].call <= made + 1 /\ marks[t[i].call] = "none"
    BY <1>1, <1>2, <1>4, <2>1, <2>2 DEF Told
  <2>3. ASSUME NEW i \in 1..Len(t), NEW j \in 1..Len(t), t[i].what = "tool_call", t[j].what = "tool_call",
               t[i].call = t[j].call
        PROVE  i = j
    <3>1. (i \in 1..Len(s) \/ i = Len(s) + 1) /\ (j \in 1..Len(s) \/ j = Len(s) + 1)
      BY <1>1, <2>3
    <3>2. CASE i \in 1..Len(s) /\ j \in 1..Len(s)
      BY <1>1, <2>3, <3>2 DEF Told
    <3> QED
      BY <1>1, <1>4, <2>1, <2>3, <3>1, <3>2
  <2> QED
    BY <2>2, <2>3 DEF Told
<1> QED
  BY <1>3, <1>4 DEF t

LEMMA ToldOff ==
  ASSUME NEW s \in Seq(ToPlugin), s # <<>>, NEW made \in Nat, NEW marks, Told(s, made, marks)
  PROVE  /\ Told(Tail(s), made, marks)
         /\ Head(s).what = "tool_call"
              => /\ marks[Head(s).call] = "none" /\ Head(s).call <= made
                 /\ \A i \in 1..Len(Tail(s)) : Tail(s)[i].what = "tool_call" => Tail(s)[i].call # Head(s).call
<1> DEFINE t == Tail(s)
<1>1. /\ Len(t) \in Nat /\ Len(s) = Len(t) + 1 /\ Head(s) = s[1]
      /\ \A i \in 1..Len(t) : t[i] = s[i + 1]
  BY AfterTail
<1> HIDE DEF t
<1>2. 1 \in 1..Len(s) /\ \A i \in 1..Len(t) : i + 1 \in 1..Len(s) /\ 1 # i + 1
  BY <1>1
<1>3. ASSUME NEW i \in 1..Len(t), NEW j \in 1..Len(t), t[i].what = "tool_call", t[j].what = "tool_call",
             t[i].call = t[j].call
      PROVE  i = j
  <2>1. i + 1 = j + 1
    BY <1>1, <1>2, <1>3 DEF Told
  <2> QED
    BY <2>1
<1>4. Told(t, made, marks)
  BY <1>1, <1>2, <1>3 DEF Told
<1>5. ASSUME Head(s).what = "tool_call"
      PROVE  /\ marks[Head(s).call] = "none" /\ Head(s).call <= made
             /\ \A i \in 1..Len(t) : t[i].what = "tool_call" => t[i].call # Head(s).call
  BY <1>1, <1>2, <1>5 DEF Told
<1> QED
  BY <1>4, <1>5 DEF t

LEMMA RunsKeep ==
  ASSUME LastFrame \in Nat, MaxConsults \in Nat, HeldInv, MsgInv, RunsInv, [Run!Next]_Run!vars
  PROVE  RunsInv'
<1>. USE DEF Run!given, Run!brainVars, Run!pluginVars, Run!relayVars, Run!history
<1> DEFINE Same == UNCHANGED <<open_control, running, calls>>
<1>1. CASE Same /\ toPlugin' = toPlugin
  BY <1>1 DEF RunsInv
<1>2. ASSUME NEW m \in ToPlugin, m.what # "tool_call", toPlugin' = Append(toPlugin, m), Same
      PROVE  RunsInv'
  BY <1>2, ToldOn DEF RunsInv, MsgInv
<1>3. ASSUME toPlugin # <<>>, toPlugin' = Tail(toPlugin), Same
      PROVE  RunsInv'
  BY <1>3, ToldOff DEF RunsInv, MsgInv
<1>4. CASE Run!Say
  BY <1>1, <1>4 DEF Run!Say
<1>5. CASE Run!Emit
  <2>1. Transcript(emitting) \in ToPlugin /\ Transcript(emitting).what # "tool_call"
    BY <1>5 DEF Run!Emit, ToPlugin, Transcript, MsgInv
  <2> QED
    BY <1>2, <1>5, <2>1 DEF Run!Emit, Transcript
<1>6. CASE Run!Hear \/ Run!Question
  BY <1>3, <1>6 DEF Run!Hear, Run!Question, Run!ToPlugin
<1>7. ASSUME NEW fs, Head(fs) \in Run!Frames, Run!AskAbout(fs)
      PROVE  \E m \in ToPlugin : m.what # "tool_call" /\ toPlugin' = Append(toPlugin, m)
  <2>1. [what |-> "question", id |-> asks + 1, on |-> Head(fs)] \in ToPlugin
    BY <1>7 DEF ToPlugin, MsgInv
  <2> QED
    BY <1>7, <2>1 DEF Run!AskAbout
<1>8. CASE Run!Take
  <2>1. arriving \in Run!Frames /\ Head(<<arriving>>) = arriving
    BY <1>8 DEF Run!Take, HeldInv
  <2> QED
    BY <1>1, <1>2, <1>7, <1>8, <2>1 DEF Run!Take
<1>9. ASSUME NEW claimed, NEW ending, Run!Decide(claimed, ending)
      PROVE  RunsInv'
  <2>1. CASE Run!Going(ending) = 0
    BY <1>1, <1>9, <2>1 DEF Run!Decide, Run!NotAsking
  <2>2. CASE Run!Going(ending) \in 2..Len(held)
    <3>1. Head(SubSeq(held, Run!Going(ending), Len(held))) = held[Run!Going(ending)]
      BY <2>2, HeadTailOfSubSeq, LenProperties DEF HeldInv
    <3>2. held[Run!Going(ending)] \in Run!Frames
      BY <2>2, ElementOfSeq, LenProperties DEF HeldInv
    <3>3. Run!AskAbout(SubSeq(held, Run!Going(ending), Len(held)))
      BY <1>9, <2>2 DEF Run!Decide
    <3> QED
      BY <1>2, <1>7, <1>9, <3>1, <3>2, <3>3 DEF Run!Decide
  <2> QED
    BY <2>1, <2>2, GoingIs DEF HeldInv
<1>10. CASE Run!Answered \/ Run!Expire \/ Run!End
  BY <1>1, <1>9, <1>10 DEF Run!Answered, Run!Expire, Run!End
<1>11. CASE Run!StartConsult
  <2> DEFINE m == [what |-> "tool_call", call |-> calls + 1]
  <2>1. m \in ToPlugin /\ m.what = "tool_call" /\ m.call = calls + 1 /\ calls \in Nat /\ calls < MaxConsults
    BY <1>11 DEF ToPlugin, MsgInv, Run!StartConsult
  <2>2. calls' = calls + 1 /\ toPlugin' = Append(toPlugin, m) /\ UNCHANGED <<open_control, running>>
    BY <1>11 DEF Run!StartConsult, Run!Counting
  <2>3. open_control[calls + 1] = "none"
    BY <2>1 DEF RunsInv, Run!Consults
  <2>5. toPlugin \in Seq(ToPlugin) /\ Told(toPlugin, calls, open_control)
    BY DEF RunsInv, MsgInv
  <2> HIDE DEF m
  <2>4. Told(Append(toPlugin, m), calls + 1, open_control)
    BY <2>1, <2>3, <2>5, ToldOn
  <2> QED
    BY <2>1, <2>2, <2>4 DEF RunsInv, Run!Consults
<1>12. CASE Run!ConsultTimesOut
  <2>1. [what |-> "tool_cancel", call |-> consult] \in ToPlugin
    BY DEF ToPlugin, MsgInv
  <2> QED
    BY <1>2, <1>12, <2>1 DEF Run!ConsultTimesOut, Run!Counting
<1>13. CASE Run!ConsultWorking \/ Run!ConsultAnswered \/ Run!ConsultAnsweredDirectly \/ Run!Unconfirmed
  BY <1>1, <1>13 DEF Run!ConsultWorking, Run!ConsultAnswered, Run!ConsultAnsweredDirectly,
     Run!Counting, Run!Unconfirmed
<1>14. CASE Run!ToolCall
  <2> DEFINE c == Head(toPlugin).call
  <2>1. /\ toPlugin # <<>> /\ toPlugin' = Tail(toPlugin) /\ Head(toPlugin).what = "tool_call"
        /\ open_control' = [open_control EXCEPT ![c] = "told"] /\ UNCHANGED <<running, calls>>
    BY <1>14 DEF Run!ToolCall, Run!ToPlugin
  <2>2. /\ Told(Tail(toPlugin), calls, open_control) /\ open_control[c] = "none" /\ c <= calls
        /\ \A i \in 1..Len(Tail(toPlugin)) : Tail(toPlugin)[i].what = "tool_call"
                                            => Tail(toPlugin)[i].call # c
    BY <2>1, ToldOff DEF RunsInv, MsgInv
  <2>5. Head(toPlugin) \in ToPlugin
    BY <2>1, AfterTail DEF MsgInv
  <2>6. c \in Nat
    BY <2>1, <2>5 DEF ToPlugin
  <2> HIDE DEF c
  <2>3. \A d : d # c => open_control'[d] = open_control[d]
    BY <2>1 DEF RunsInv
  <2>4. Told(toPlugin', calls', open_control')
    BY <2>1, <2>2, <2>3 DEF Told
  <2>7. running' \subseteq {d \in Run!Consults : open_control'[d] = "acked"}
    BY <2>1, <2>2, <2>3 DEF RunsInv
  <2>8. \A d \in Run!Consults : d > calls => d # c
    BY <2>2, <2>6 DEF Run!Consults, MsgInv
  <2>9. open_control' \in [Run!Consults -> {"none", "told", "acked"}]
    BY <2>1 DEF RunsInv
  <2> QED
    BY <2>1, <2>3, <2>4, <2>7, <2>8, <2>9 DEF RunsInv
<1>15. ASSUME NEW c, open_control' = [open_control EXCEPT ![c] = "none"], running' = running \ {c},
              UNCHANGED <<calls>>, toPlugin' = toPlugin \/ (toPlugin # <<>> /\ toPlugin' = Tail(toPlugin))
       PROVE  RunsInv'
  <2>1. Told(toPlugin', calls, open_control)
    BY <1>15, ToldOff DEF RunsInv, MsgInv
  <2>2. \A d : open_control[d] = "none" => open_control'[d] = "none"
    BY <1>15 DEF RunsInv
  <2>3. Told(toPlugin', calls', open_control')
    BY <1>15, <2>1, <2>2 DEF Told
  <2> QED
    BY <1>15, <2>2, <2>3 DEF RunsInv
<1>16. CASE Run!ToolCancel
  BY <1>15, <1>16 DEF Run!ToolCancel, Run!ToPlugin
<1>17. ASSUME NEW c \in Run!Consults, Run!Ack(c) PROVE RunsInv'
  <2>1. open_control[c] = "told" /\ open_control' = [open_control EXCEPT ![c] = "acked"]
        /\ UNCHANGED <<running, calls, toPlugin>>
    BY <1>17 DEF Run!Ack
  <2>2. \A d : open_control[d] = "none" => open_control'[d] = "none"
    BY <2>1 DEF RunsInv
  <2>3. Told(toPlugin', calls', open_control')
    BY <2>1, <2>2 DEF Told, RunsInv
  <2> QED
    BY <2>1, <2>2, <2>3 DEF RunsInv
<1>18. ASSUME NEW c \in Run!Consults, Run!RunCounts(c) \/ Run!RunForgotten(c) PROVE RunsInv'
  BY <1>18 DEF Run!RunCounts, Run!RunForgotten, RunsInv
<1>19. ASSUME NEW c \in Run!Consults, Run!Result(c) PROVE RunsInv'
  <2>1. running' = running \ {c}
    BY <1>19 DEF Run!Result
  <2> QED
    BY <1>15, <1>19, <2>1 DEF Run!Result
<1>20. ASSUME NEW c \in Run!Consults, NEW f \in Run!Frames, Run!ActCancel(f, c) PROVE RunsInv'
  <2>1. /\ open_control' = [open_control EXCEPT ![c] = "none"] /\ running' = running \ {c}
        /\ UNCHANGED <<calls, toPlugin>>
    BY <1>20 DEF Run!ActCancel
  <2> QED
    BY <1>15, <2>1
<1>21. ASSUME NEW f \in Run!Frames, Run!ActReply(f) PROVE RunsInv'
  BY <1>1, <1>21 DEF Run!ActReply
<1>22. CASE Run!AllOver \/ UNCHANGED Run!vars
  BY <1>1, <1>22 DEF Run!AllOver, Run!vars
<1> QED
  BY <1>4, <1>5, <1>6, <1>8, <1>10, <1>11, <1>12, <1>13, <1>14, <1>16, <1>17, <1>18,
     <1>19, <1>20,
     <1>21, <1>22 DEF Run!Next, Run!Brain, Run!Plugin, Run!Relay, Run!RelayReplies

(* What the relay is to act on, or has acted on, was heard, with a consult *)
(* open; the newest heard is acted on after it.                             *)
ReadInv ==
  /\ order \in Nat /\ actedAt \in Nat /\ heard_control.at \in 0..order
  /\ duty \cup acted \cup met \subseteq Nat
  /\ \A f \in duty \cup acted : /\ f <= heard_control.on /\ text_control[f] \in Control
                                /\ f = heard_control.on => heard_control.running
  /\ \A f \in met : f <= heard_control.on
  /\ heard_control.on \in acted => actedAt > heard_control.at

LEMMA ReadKeeps ==
  ASSUME LastFrame \in Nat, MaxConsults \in Nat, HeldInv, MsgInv, FreshInv, RunsInv, ReadInv, [Run!Next]_Run!vars
  PROVE  ReadInv'
<1>. USE DEF Run!given, Run!brainVars, Run!pluginVars, Run!relayVars, Run!history
<1>1. CASE UNCHANGED <<order, actedAt, heard_control, duty, acted, met, text_control>>
  BY <1>1 DEF ReadInv
<1>2. CASE Run!Hear
  <2> DEFINE f == Head(toPlugin).on
  <2>1. /\ toPlugin # <<>> /\ Head(toPlugin).what = "transcript"
        /\ order' = order + 1 /\ heard_control' = [on |-> f, at |-> order + 1, running |-> Run!ConsultRunning]
        /\ UNCHANGED <<actedAt, acted, met, text_control>>
        /\ duty' = IF running # {} /\ text_control[f] \in Control THEN duty \cup {f} ELSE duty
    BY <1>2 DEF Run!Hear, Run!ToPlugin
  <2>0. Sentences \in Nat
    BY DEF Sentences, FreshInv, HeldInv
  <2>2. f \in Nat /\ heard_control.on < f /\ heard_control.on \in Nat
    BY <2>0, <2>1, RisingOff DEF FreshInv, MsgInv
  <2>3. running # {} => Run!ConsultRunning
    BY DEF RunsInv, Run!ConsultRunning
  <2> HIDE DEF f
  <2>4. heard_control'.on = f /\ heard_control'.at = order + 1 /\ (heard_control'.running <=> Run!ConsultRunning)
    BY <2>1, Zenon
  <2>9. \A g \in duty \cup acted : g < f /\ g # f /\ text_control[g] \in Control
    <3>1. SUFFICES ASSUME NEW g \in duty \cup acted PROVE g < f /\ g # f /\ text_control[g] \in Control
      OBVIOUS
    <3>2. g \in Nat
      BY <3>1 DEF ReadInv
    <3>3. g <= heard_control.on /\ text_control[g] \in Control
      BY <3>1, Zenon DEF ReadInv
    <3> QED
      BY <2>2, <3>2, <3>3
  <2>5. ASSUME NEW g \in (duty \cup acted)'
        PROVE  /\ g <= heard_control'.on /\ text_control'[g] \in Control
               /\ g = heard_control'.on => heard_control'.running
    <3>1. CASE g \in duty \cup acted
      <4>1. g < f /\ g # f /\ text_control[g] \in Control /\ g \in Nat
        BY <2>9, <3>1 DEF ReadInv
      <4> QED
        BY <2>1, <2>2, <2>4, <4>1
    <3>2. CASE g = f /\ running # {} /\ text_control[f] \in Control
      BY <2>1, <2>2, <2>3, <2>4, <3>2
    <3> QED
      BY <2>1, <2>5, <3>1, <3>2
  <2>6. \A g \in met' : g <= heard_control'.on
    BY <2>1, <2>2, <2>4 DEF ReadInv
  <2>7. heard_control'.on \notin acted'
    BY <2>1, <2>4, <2>9
  <2>8. (duty \cup acted \cup met)' \subseteq Nat /\ order' \in Nat /\ actedAt' \in Nat /\ heard_control'.at \in 0..order'
    BY <2>1, <2>2, <2>4 DEF ReadInv
  <2> QED
    BY <2>5, <2>6, <2>7, <2>8 DEF ReadInv
<1>3. CASE Run!Question
  <2>1. /\ order' \in {order, order + 1} /\ met' \subseteq met \cup {heard_control.on}
        /\ UNCHANGED <<actedAt, heard_control, duty, acted, text_control>>
    BY <1>3 DEF Run!Question
  <2>2. heard_control.on \in Nat
    BY DEF FreshInv
  <2> QED
    BY <2>1, <2>2 DEF ReadInv
<1>4. ASSUME NEW f \in Run!Frames, f \in duty, duty' \subseteq duty, acted' = acted \cup {f},
             order' = order + 1, actedAt' = order + 1, UNCHANGED <<heard_control, met, text_control>>
      PROVE  ReadInv'
  BY <1>4 DEF ReadInv
<1>5. CASE Run!RelayReplies
  BY <1>4, <1>5 DEF Run!RelayReplies, Run!ActReply, Run!RelayActed
<1>6. ASSUME NEW c \in Run!Consults, NEW f \in Run!Frames, Run!ActCancel(f, c) PROVE ReadInv'
  BY <1>4, <1>6 DEF Run!ActCancel, Run!RelayActed
<1>7. CASE Run!Relay
  BY <1>1, <1>6, <1>7 DEF Run!Relay, Run!Ack, Run!RunCounts, Run!RunForgotten, Run!Result
<1>8. CASE Run!Take \/ Run!Emit \/ Run!Say
  BY <1>1, <1>8 DEF Run!Take, Run!Emit, Run!Say
<1>9. CASE Run!Answered \/ Run!Expire \/ Run!End
  BY <1>1, <1>9 DEF Run!Answered, Run!Expire, Run!End, Run!Decide
<1>10. CASE Run!StartConsult \/ Run!ConsultTimesOut \/ Run!ConsultWorking \/ Run!ConsultAnswered
            \/ Run!ConsultAnsweredDirectly
  BY <1>1, <1>10 DEF Run!StartConsult, Run!ConsultTimesOut, Run!ConsultWorking,
     Run!ConsultAnswered,
     Run!ConsultAnsweredDirectly, Run!Counting
<1>11. CASE Run!Unconfirmed \/ Run!ToolCall \/ Run!ToolCancel
  BY <1>1, <1>11 DEF Run!Unconfirmed, Run!ToolCall, Run!ToolCancel
<1>12. CASE Run!AllOver \/ UNCHANGED Run!vars
  BY <1>1, <1>12 DEF Run!AllOver, Run!vars
<1> QED
  BY <1>2, <1>3, <1>5, <1>7, <1>8, <1>9, <1>10, <1>11, <1>12 DEF Run!Next, Run!Brain,
     Run!Plugin

(* One question is under way at a time. *)
Idle(p, b, c) == NoneOf(p, "question") /\ c = Run!NoQuestion /\ NoneOf(b, "answer")

OnItsWay(f, p, b, c, m) ==
  /\ OneOf(p, "question") /\ \A i \in 1..Len(p) : p[i].what = "question" => p[i].on = f
  /\ c = Run!NoQuestion /\ NoneOf(b, "answer") /\ f \notin m

Waiting(f, p, b, c, m, done) ==
  /\ NoneOf(p, "question") /\ NoneOf(b, "answer")
  /\ c # Run!NoQuestion /\ c.on = f /\ (f \in m => f \notin done)

\* The answer is on its way; a no is about words the relay will not act on.
Replied(f, p, b, c, m, busy) ==
  /\ NoneOf(p, "question") /\ c = Run!NoQuestion /\ OneOf(b, "answer")
  /\ \A i \in 1..Len(b) : b[i].what = "answer" => b[i].claimed \/ (f \in m => f \notin busy)

UnderWay ==
  \/ Idle(toPlugin, toBrain, claim)
  \/ /\ held # <<>>
     /\ \/ OnItsWay(Head(held), toPlugin, toBrain, claim, met)
        \/ Waiting(Head(held), toPlugin, toBrain, claim, met, acted)
        \/ Replied(Head(held), toPlugin, toBrain, claim, met, duty \cup acted)

(* What has passed on to the model was claimed, or will not be acted on. *)
Past(m, passed, kept, claimed, busy) ==
  \A f \in m : /\ f <= passed \/ (kept /\ f = passed + 1)
               /\ f <= passed /\ f \notin claimed => f \notin busy

WaitInv == UnderWay /\ Past(met, Len(out), held # <<>>, taken, duty \cup acted)

Came(f) == IF f = 0 THEN <<>> ELSE <<f>>

LEMMA Placed ==
  ASSUME NEW n \in Nat, NEW passed \in Seq(Run!Frames), NEW kept \in Seq(Run!Frames), NEW f \in Run!Frames \cup {0},
         passed \o kept \o Came(f) = [i \in 1..n |-> i]
  PROVE  /\ Len(passed) \in Nat /\ Len(kept) \in Nat
         /\ kept # <<>> => Head(kept) = Len(passed) + 1 /\ Head(kept) \in Run!Frames
         /\ \A i \in 1..Len(passed) : passed[i] = i
<1> DEFINE latter == Came(f)
           all == passed \o kept \o latter
<1>1. latter \in Seq(Run!Frames)
  BY DEF Came
<1>2. all = [i \in 1..n |-> i]
  OBVIOUS
<1>3. /\ passed \o kept \in Seq(Run!Frames) /\ Len(passed \o kept) = Len(passed) + Len(kept)
      /\ \A i \in 1..Len(passed) : (passed \o kept)[i] = passed[i]
      /\ \A i \in 1..Len(kept) : (passed \o kept)[Len(passed) + i] = kept[i]
      /\ Len(passed) \in Nat /\ Len(kept) \in Nat /\ Len(latter) \in Nat
  BY <1>1, ConcatProperties, LenProperties
<1> HIDE DEF latter
<1> DEFINE two == passed \o kept
<1>4. /\ Len(all) = Len(two) + Len(latter)
      /\ \A i \in 1..Len(two) : all[i] = two[i]
  <2>1. two \in Seq(Run!Frames)
    BY <1>3
  <2> HIDE DEF two
  <2>2. /\ Len(two \o latter) = Len(two) + Len(latter)
        /\ \A i \in 1..Len(two) : (two \o latter)[i] = two[i]
    BY <1>1, <2>1, ConcatProperties
  <2> QED
    BY <2>2 DEF two
<1> HIDE DEF all
<1>5. Len(all) = n /\ \A i \in 1..Len(all) : all[i] = i
  BY <1>1, <1>2, <1>3, <1>4
<1>6. \A i \in 1..Len(passed) : passed[i] = i
  BY <1>3, <1>4, <1>5
<1>7. ASSUME kept # <<>> PROVE Head(kept) = Len(passed) + 1 /\ Head(kept) \in Run!Frames
  <2>1. Len(kept) >= 1 /\ Head(kept) = kept[1] /\ Head(kept) \in Run!Frames
    BY <1>1, <1>3, <1>7, HeadTailProperties, EmptySeq
  <2>2. Len(passed) + 1 \in 1..(Len(passed) + Len(kept)) /\ Len(passed) + 1 \in 1..Len(all)
    BY <1>3, <1>4, <2>1
  <2> QED
    BY <1>3, <1>4, <1>5, <2>1, <2>2
<1> QED
  BY <1>3, <1>6, <1>7

LEMMA PlacedNext ==
  ASSUME NEW n \in Nat, NEW passed \in Seq(Run!Frames), NEW f \in Run!Frames,
         passed \o <<>> \o <<f>> = [i \in 1..n |-> i]
  PROVE  f = Len(passed) + 1
<1>1. passed \o <<>> = passed /\ Append(passed, f) = passed \o <<f>>
  BY ConcatEmptySeq, AppendIsConcat
<1>2. Append(passed, f) = [i \in 1..n |-> i]
  BY <1>1
<1>3. /\ Len(passed) \in Nat /\ Len(Append(passed, f)) = Len(passed) + 1
      /\ Append(passed, f)[Len(passed) + 1] = f
  BY AfterAppend
<1>4. Len([i \in 1..n |-> i]) = n
  BY LenProperties
<1>5. Len(passed) + 1 = n
  BY <1>2, <1>3, <1>4
<1> QED
  BY <1>2, <1>3, <1>5

(* t holds no message of this kind that s does not. *)
Fewer(s, t, what) ==
  /\ NoneOf(s, what) => NoneOf(t, what)
  /\ OneOf(s, what) => OneOf(t, what)
  /\ \A i \in 1..Len(t) : t[i].what = what => \E j \in 1..Len(s) : s[j] = t[i]

LEMMA FewerOn ==
  ASSUME NEW S, NEW s \in Seq(S), NEW e \in S, NEW what, e.what # what
  PROVE  Fewer(s, Append(s, e), what)
<1> DEFINE t == Append(s, e)
<1>1. /\ Len(s) \in Nat /\ Len(t) = Len(s) + 1 /\ t[Len(s) + 1] = e
      /\ \A i \in 1..Len(s) : t[i] = s[i]
  BY AfterAppend
<1>2. (NoneOf(s, what) => NoneOf(t, what)) /\ (OneOf(s, what) => OneOf(t, what))
  BY OneComes
<1> HIDE DEF t
<1>3. \A i \in 1..Len(t) : t[i].what = what => \E j \in 1..Len(s) : s[j] = t[i]
  BY <1>1
<1> QED
  BY <1>2, <1>3 DEF Fewer, t

LEMMA FewerOff ==
  ASSUME NEW S, NEW s \in Seq(S), s # <<>>, NEW what
  PROVE  Fewer(s, Tail(s), what)
<1> DEFINE t == Tail(s)
<1>1. Len(t) \in Nat /\ Len(s) = Len(t) + 1 /\ \A i \in 1..Len(t) : t[i] = s[i + 1]
  BY AfterTail
<1>2. (NoneOf(s, what) => NoneOf(t, what)) /\ (OneOf(s, what) => OneOf(t, what))
  BY OneGoes
<1> HIDE DEF t
<1>3. \A i \in 1..Len(t) : i + 1 \in 1..Len(s) /\ t[i] = s[i + 1]
  BY <1>1
<1> QED
  BY <1>2, <1>3 DEF Fewer, t

LEMMA FewerSame == \A s, what : Fewer(s, s, what)
BY DEF Fewer

LEMMA WayStays ==
  ASSUME UnderWay, Fewer(toPlugin, toPlugin', "question"), Fewer(toBrain, toBrain', "answer"),
         claim' = claim, met' = met, held # <<>> => held' # <<>> /\ Head(held') = Head(held),
         acted' = acted \/ claim = Run!NoQuestion, (duty \cup acted)' \cap met \subseteq duty \cup acted
  PROVE  UnderWay'
<1>1. CASE Idle(toPlugin, toBrain, claim)
  BY <1>1 DEF UnderWay, Idle, Fewer
<1>2. CASE held # <<>> /\ OnItsWay(Head(held), toPlugin, toBrain, claim, met)
  <2>1. OnItsWay(Head(held'), toPlugin', toBrain', claim', met')
    BY <1>2 DEF OnItsWay, Fewer
  <2> QED
    BY <1>2, <2>1 DEF UnderWay
<1>3. CASE held # <<>> /\ Waiting(Head(held), toPlugin, toBrain, claim, met, acted)
  <2>1. Waiting(Head(held'), toPlugin', toBrain', claim', met', acted')
    BY <1>3 DEF Waiting, Fewer
  <2> QED
    BY <1>3, <2>1 DEF UnderWay
<1>4. CASE held # <<>> /\ Replied(Head(held), toPlugin, toBrain, claim, met, duty \cup acted)
  <2>1. ASSUME NEW i \in 1..Len(toBrain'), toBrain'[i].what = "answer"
        PROVE  toBrain'[i].claimed \/ (Head(held) \in met => Head(held) \notin (duty \cup acted)')
    <3>1. PICK j \in 1..Len(toBrain) : toBrain[j] = toBrain'[i]
      BY <2>1 DEF Fewer
    <3>2. toBrain[j].claimed \/ (Head(held) \in met => Head(held) \notin duty \cup acted)
      BY <1>4, <2>1, <3>1, Zenon DEF Replied
    <3> QED
      BY <3>1, <3>2
  <2>2. Replied(Head(held'), toPlugin', toBrain', claim', met', (duty \cup acted)')
    BY <1>4, <2>1 DEF Replied, Fewer
  <2> QED
    BY <1>4, <2>2 DEF UnderWay
<1> QED
  BY <1>1, <1>2, <1>3, <1>4 DEF UnderWay

LEMMA WaitStays ==
  ASSUME WaitInv, Fewer(toPlugin, toPlugin', "question"), Fewer(toBrain, toBrain', "answer"),
         UNCHANGED <<claim, met, held, out, taken>>,
         acted' = acted \/ claim = Run!NoQuestion, (duty \cup acted)' \cap met \subseteq duty \cup acted
  PROVE  WaitInv'
<1>1. UnderWay'
  BY WayStays DEF WaitInv
<1>2. Past(met, Len(out), held # <<>>, taken, duty \cup acted)'
  BY DEF WaitInv, Past
<1> QED
  BY <1>1, <1>2 DEF WaitInv

(* The brain asks, with nothing under way: about words it has not asked of. *)
LEMMA AskWaits ==
  ASSUME MsgInv, NEW fs, Head(fs) \in Run!Frames, fs # <<>>, Run!AskAbout(fs), Idle(toPlugin, toBrain', claim),
         Head(fs) \notin met, UNCHANGED <<claim, met>>
  PROVE  UnderWay'
<1> DEFINE q == [what |-> "question", id |-> asks + 1, on |-> Head(fs)]
<1>1. q \in ToPlugin /\ q.what = "question" /\ q.on = Head(fs)
  BY DEF ToPlugin, MsgInv
<1>2. toPlugin' = Append(toPlugin, q) /\ held' = fs
  BY DEF Run!AskAbout
<1> HIDE DEF q
<1>3. /\ Len(toPlugin) \in Nat /\ Len(toPlugin') = Len(toPlugin) + 1 /\ toPlugin'[Len(toPlugin) + 1] = q
      /\ \A i \in 1..Len(toPlugin) : toPlugin'[i] = toPlugin[i]
  BY <1>1, <1>2, AfterAppend DEF MsgInv
<1>6. OneOf(toPlugin', "question")
  BY <1>1, <1>2, OneComes DEF MsgInv, Idle
<1>4. ASSUME NEW i \in 1..Len(toPlugin'), toPlugin'[i].what = "question" PROVE toPlugin'[i].on = Head(fs)
  BY <1>1, <1>3, <1>4 DEF Idle, NoneOf
<1>5. OnItsWay(Head(held'), toPlugin', toBrain', claim', met')
  BY <1>2, <1>4, <1>6 DEF OnItsWay, Idle
<1> QED
  BY <1>2, <1>5 DEF UnderWay

(* An answer goes out, with nothing else under way. *)
LEMMA ReplyWaits ==
  ASSUME MsgInv, NEW q, q.id \in Nat, NEW c \in BOOLEAN, held # <<>>, held' = held,
         toBrain' = Append(toBrain, Run!Answer(q, c)), NoneOf(toBrain, "answer"),
         NoneOf(toPlugin', "question"), claim' = Run!NoQuestion,
         c \/ (Head(held) \in met' => Head(held) \notin (duty \cup acted)')
  PROVE  UnderWay'
<1> DEFINE a == Run!Answer(q, c)
<1>1. a \in ToBrain /\ a.what = "answer" /\ a.claimed = c
  BY DEF Run!Answer, ToBrain
<1>2. toBrain' = Append(toBrain, a)
  OBVIOUS
<1> HIDE DEF a
<1>3. /\ Len(toBrain) \in Nat /\ Len(toBrain') = Len(toBrain) + 1 /\ toBrain'[Len(toBrain) + 1] = a
      /\ \A i \in 1..Len(toBrain) : toBrain'[i] = toBrain[i]
  BY <1>1, <1>2, AfterAppend DEF MsgInv
<1>6. OneOf(toBrain', "answer")
  BY <1>1, <1>2, OneComes DEF MsgInv
<1>4. ASSUME NEW i \in 1..Len(toBrain'), toBrain'[i].what = "answer" PROVE toBrain'[i] = a
  BY <1>3, <1>4 DEF NoneOf
<1>5. Replied(Head(held'), toPlugin', toBrain', claim', met', (duty \cup acted)')
  BY <1>1, <1>4, <1>6 DEF Replied
<1> QED
  BY <1>5 DEF UnderWay

LEMMA AnswerWaits ==
  ASSUME HeldInv, HeldInv', MsgInv, ReadInv, WaitInv, toBrain # <<>>, Head(toBrain).what = "answer",
         toBrain' = Tail(toBrain), Run!Decide(Head(toBrain).claimed, FALSE)
  PROVE  WaitInv'
<1>. USE DEF Run!given, Run!brainVars, Run!pluginVars, Run!relayVars, Run!history
<1> DEFINE h == Head(held)
           yes == Head(toBrain).claimed
           next == Run!Going(FALSE)
<1>1. Head(toBrain) = toBrain[1] /\ 1 \in 1..Len(toBrain)
  BY AfterTail, LenProperties DEF MsgInv
<1>2. held # <<>> /\ Replied(h, toPlugin, toBrain, claim, met, duty \cup acted)
  BY <1>1 DEF WaitInv, UnderWay, Idle, OnItsWay, Waiting, NoneOf
<1>3. yes \/ (h \in met => h \notin duty \cup acted)
  BY <1>1, <1>2 DEF Replied
<1>4. Idle(toPlugin, toBrain', claim)
  <2>1. NoneOf(toBrain', "answer")
    BY <1>2, OneGoes DEF Replied, MsgInv
  <2> QED
    BY <1>2, <2>1 DEF Idle, Replied
<1>5. h = Len(out) + 1 /\ Len(out) \in Nat /\ Len(held) \in Nat /\ Len(out') \in Nat
      /\ (held' # <<>> => Head(held') = Len(out') + 1 /\ Head(held') \in Run!Frames)
  BY <1>2, Placed DEF HeldInv, Run!InOrder, Came
<1>6. UNCHANGED <<claim, met, duty, acted>> /\ taken' = (IF yes THEN taken \cup {h} ELSE taken)
  BY DEF Run!Decide
<1>7. \A f \in met : f \in Nat /\ (f <= Len(out) \/ f = h) /\ (f <= Len(out) /\ f \notin taken => f \notin duty \cup acted)
  BY <1>5 DEF WaitInv, Past, ReadInv
<1> HIDE DEF h, yes, next
<1>8. ASSUME Len(out') >= Len(out) + 1 PROVE Past(met, Len(out), held # <<>>, taken, duty \cup acted)'
  <2>1. ASSUME NEW f \in met PROVE f <= Len(out') /\ (f \notin taken' => f \notin duty \cup acted)
    <3>1. CASE f <= Len(out)
      BY <1>5, <1>6, <1>7, <1>8, <2>1, <3>1
    <3>2. CASE f = h
      BY <1>3, <1>5, <1>6, <1>8, <2>1, <3>2
    <3> QED
      BY <1>7, <2>1, <3>1, <3>2
  <2> QED
    BY <1>6, <2>1 DEF Past
<1>9. CASE next = 0
  <2>1. out' = out \o held /\ Run!NotAsking
    BY <1>9 DEF Run!Decide, next
  <2>2. Len(out') = Len(out) + Len(held) /\ Len(held) >= 1
    BY <1>2, <1>5, <2>1, ConcatProperties, EmptySeq DEF HeldInv
  <2>3. UnderWay'
    BY <1>4, <1>6, <2>1 DEF UnderWay, Idle, Run!NotAsking
  <2> QED
    BY <1>5, <1>8, <2>2, <2>3 DEF WaitInv
<1>10. CASE next \in 2..Len(held)
  <2> DEFINE fs == SubSeq(held, next, Len(held))
  <2>1. next # 0
    BY <1>10
  <2>2. out' = out \o SubSeq(held, 1, next - 1) /\ Run!AskAbout(fs)
    BY <2>1, Zenon DEF Run!Decide, next
  <2>3. SubSeq(held, 1, next - 1) \in Seq(Run!Frames) /\ Len(SubSeq(held, 1, next - 1)) = next - 1
    BY <1>5, <1>10, SubSeqProperties DEF HeldInv
  <2>4. Len(out') = Len(out) + (next - 1)
    BY <2>2, <2>3, ConcatProperties DEF HeldInv
  <2>5. Len(out') >= Len(out) + 1
    BY <1>5, <1>10, <2>4
  <2>6. fs \in Seq(Run!Frames) /\ Len(fs) = Len(held) - next + 1
    BY <1>5, <1>10, SubSeqProperties DEF HeldInv
  <2>7. held' = fs
    BY <2>2 DEF Run!AskAbout
  <2>11. Run!AskAbout(held') /\ held' \in Seq(Run!Frames) /\ Len(held') \in Nat /\ Len(held') # 0
    BY <1>5, <1>10, <2>2, <2>6, <2>7
  <2> HIDE DEF fs
  <2>12. held' # <<>>
    BY <2>11, EmptySeq
  <2>8. Head(held') \in Run!Frames /\ Head(held') = Len(out') + 1
    BY <1>5, <2>12
  <2>9. \A f \in met : f # Len(out') + 1
    BY <1>5, <1>7, <2>5
  <2>10. UnderWay'
    BY <1>4, <1>6, <2>8, <2>9, <2>11, <2>12, AskWaits
  <2> QED
    BY <1>8, <2>5, <2>10 DEF WaitInv
<1> QED
  BY <1>9, <1>10, GoingIs DEF HeldInv, next

LEMMA TakeWaits ==
  ASSUME HeldInv, MsgInv, ReadInv, WaitInv, Run!Take
  PROVE  WaitInv'
<1>. USE DEF Run!given, Run!brainVars, Run!pluginVars, Run!relayVars, Run!history
<1>1. /\ arriving \in Run!Frames /\ arriving # 0 /\ Len(out) \in Nat /\ (held = <<>> => arriving = Len(out) + 1)
      /\ UNCHANGED <<toBrain, claim, met, taken, duty, acted>>
  <2>1. arriving \in Run!Frames /\ arriving # 0 /\ UNCHANGED <<toBrain, claim, met, taken, duty, acted>>
    BY DEF Run!Take, HeldInv
  <2>2. Len(out) \in Nat /\ (held = <<>> => arriving = Len(out) + 1)
    <3>1. /\ said_control \in Nat /\ out \in Seq(Run!Frames) /\ held \in Seq(Run!Frames)
          /\ arriving \in Run!Frames \cup {0}
          /\ out \o held \o Came(arriving) = [i \in 1..said_control |-> i]
      BY DEF HeldInv, Run!InOrder, Came
    <3>2. Len(out) \in Nat
      BY <3>1, LenProperties
    <3>3. held = <<>> => arriving = Len(out) + 1
      BY <2>1, <3>1, PlacedNext DEF Came
    <3> QED
      BY <3>2, <3>3
  <2> QED
    BY <2>1, <2>2
<1>2. CASE held # <<>> /\ held' = Append(held, arriving) /\ UNCHANGED <<out, toPlugin>>
  <2>1. held' # <<>> /\ Head(held') = Head(held)
    BY <1>1, <1>2, AppendProperties, HeadTailProperties, LenProperties, EmptySeq DEF HeldInv
  <2>2. UnderWay'
    BY <1>1, <1>2, <2>1, WayStays, FewerSame DEF WaitInv
  <2>3. Past(met, Len(out), held # <<>>, taken, duty \cup acted)'
    BY <1>1, <1>2, <2>1 DEF WaitInv, Past
  <2> QED
    BY <2>2, <2>3 DEF WaitInv
<1>3. CASE held = <<>> /\ Run!AskAbout(<<arriving>>) /\ out' = out
  <2>1. Idle(toPlugin, toBrain', claim)
    BY <1>1, <1>3 DEF WaitInv, UnderWay
  <2>2. Head(<<arriving>>) = arriving /\ <<arriving>> # <<>> /\ held' = <<arriving>>
    BY <1>3 DEF Run!AskAbout
  <2>3. arriving \notin met
    BY <1>1, <1>3 DEF WaitInv, Past
  <2>4. UnderWay'
    BY <1>1, <1>3, <2>1, <2>2, <2>3, AskWaits
  <2>5. Past(met, Len(out), held # <<>>, taken, duty \cup acted)'
    BY <1>1, <1>3, <2>2 DEF WaitInv, Past
  <2> QED
    BY <2>4, <2>5 DEF WaitInv
<1>4. CASE held = <<>> /\ held' = <<>> /\ out' = Append(out, arriving) /\ toPlugin' = toPlugin
  <2>1. UnderWay'
    BY <1>1, <1>4 DEF WaitInv, UnderWay
  <2>2. Len(out') = Len(out) + 1
    BY <1>1, <1>4, AppendProperties DEF HeldInv
  <2>3. ASSUME NEW f \in met
        PROVE  f <= Len(out') /\ (f \notin taken => f \notin duty \cup acted)
    <3>1. f \in Nat /\ f <= Len(out) /\ (f <= Len(out) /\ f \notin taken => f \notin duty \cup acted)
      BY <1>4, <2>3 DEF WaitInv, Past, ReadInv
    <3> QED
      BY <1>1, <2>2, <3>1
  <2>4. Past(met, Len(out), held # <<>>, taken, duty \cup acted)'
    BY <1>1, <2>3 DEF Past
  <2> QED
    BY <2>1, <2>4 DEF WaitInv
<1> QED
  BY <1>2, <1>3, <1>4 DEF Run!Take

LEMMA QuestionWaits ==
  ASSUME HeldInv, MsgInv, ReadInv, WaitInv, Run!Question
  PROVE  WaitInv'
<1>. USE DEF Run!given, Run!brainVars, Run!pluginVars, Run!relayVars, Run!history
<1> DEFINE m == Head(toPlugin)
           h == Head(held)
           matched == heard_control.at > usedUp /\ Run!SameWords(heard_control.on, m.on)
           q == [id |-> m.id, on |-> m.on, matched |-> matched, since |-> IF matched THEN heard_control.at ELSE 0]
           ruled == IF matched THEN q ELSE [q EXCEPT !.since = order + 1]
           control == text_control[m.on] \in Control /\ Run!WasRunning(matched)
<1>1. /\ toPlugin # <<>> /\ toPlugin' = Tail(toPlugin) /\ m.what = "question"
      /\ UNCHANGED <<held, out, taken, duty, acted, actedAt, heard_control>>
      /\ met' = (IF matched /\ heard_control.on = m.on THEN met \cup {m.on} ELSE met)
  BY DEF Run!Question, Run!ToPlugin
<1>2. m = toPlugin[1] /\ 1 \in 1..Len(toPlugin) /\ m \in ToPlugin
  BY <1>1, AfterTail, LenProperties DEF MsgInv
<1>3. held # <<>> /\ OnItsWay(h, toPlugin, toBrain, claim, met)
  BY <1>1, <1>2 DEF WaitInv, UnderWay, Idle, Waiting, Replied, NoneOf
<1>4. m.on = h /\ claim = Run!NoQuestion /\ NoneOf(toBrain, "answer") /\ h \notin met
  BY <1>1, <1>2, <1>3 DEF OnItsWay
<1>5. NoneOf(toPlugin', "question")
  BY <1>1, <1>3, OneGoes DEF OnItsWay, MsgInv
<1>6. h = Len(out) + 1 /\ h \in Run!Frames /\ Len(out) \in Nat
  BY <1>3, Placed DEF HeldInv, Run!InOrder, Came
<1>7. m.id \in Nat /\ q.id = m.id /\ ruled.id = m.id /\ ruled.on = m.on /\ q.on = m.on
      /\ (matched => ruled.since = heard_control.at)
  BY <1>1, <1>2 DEF ToPlugin
<1>8. h \in met' => matched /\ heard_control.on = h
  BY <1>1, <1>4
<1>9. \/ ~control /\ Run!Reply(q, FALSE) /\ claim' = claim
      \/ Run!Reply(ruled, TRUE) /\ claim' = claim
      \/ actedAt <= ruled.since /\ claim' = ruled /\ toBrain' = toBrain
  BY <1>4, Zenon DEF Run!Question
<1>10. Past(met, Len(out), held # <<>>, taken, duty \cup acted)'
  <2>1. met' \subseteq met \cup {Len(out) + 1}
    BY <1>1, <1>4, <1>6
  <2> QED
    BY <1>1, <1>3, <1>6, <2>1 DEF WaitInv, Past
<1>11. h \in met' /\ ~control => h \notin (duty \cup acted)'
  BY <1>1, <1>4, <1>8 DEF ReadInv, Run!WasRunning
<1>12. h \in met' /\ actedAt <= ruled.since => h \notin acted'
  <2>1. heard_control.at \in Nat /\ actedAt \in Nat
    BY DEF ReadInv
  <2> QED
    BY <1>1, <1>7, <1>8, <2>1 DEF ReadInv
<1> HIDE DEF m, h, matched, q, ruled, control
<1>13. CASE ~control /\ Run!Reply(q, FALSE) /\ claim' = claim
  <2>1. Head(held) \in met' => Head(held) \notin (duty \cup acted)'
    BY <1>11, <1>13 DEF h
  <2>2. UnderWay'
    BY <1>1, <1>3, <1>4, <1>5, <1>7, <1>13, <2>1, ReplyWaits DEF Run!Reply
  <2> QED
    BY <1>10, <2>2 DEF WaitInv
<1>14. CASE Run!Reply(ruled, TRUE) /\ claim' = claim
  <2>2. UnderWay'
    BY <1>1, <1>3, <1>4, <1>5, <1>7, <1>14, ReplyWaits DEF Run!Reply
  <2> QED
    BY <1>10, <2>2 DEF WaitInv
<1>15. CASE actedAt <= ruled.since /\ claim' = ruled /\ toBrain' = toBrain
  <2>1. ruled # Run!NoQuestion
    BY <1>4, <1>6, <1>7 DEF Run!NoQuestion
  <2>2. Waiting(Head(held'), toPlugin', toBrain', claim', met', acted')
    BY <1>1, <1>4, <1>5, <1>7, <1>12, <1>15, <2>1 DEF Waiting, h
  <2>3. UnderWay'
    BY <1>1, <1>3, <2>2 DEF UnderWay
  <2> QED
    BY <1>10, <2>3 DEF WaitInv
<1> QED
  BY <1>9, <1>13, <1>14, <1>15

(* The relay acts: a claim that waits is confirmed. *)
LEMMA ActWaits ==
  ASSUME MsgInv, WaitInv, NEW more, more = <<>> \/ \E c \in Nat : more = <<[what |-> "tool_result", call |-> c]>>,
         Run!RelayActed(more), UNCHANGED <<toPlugin, held, out, taken, met>>,
         (duty \cup acted)' \subseteq duty \cup acted
  PROVE  WaitInv'
<1>1. Past(met, Len(out), held # <<>>, taken, duty \cup acted)'
  BY DEF WaitInv, Past
<1>2. claim' = Run!NoQuestion
  BY DEF Run!RelayActed
<1>3. ASSUME NEW s \in Seq(ToBrain) PROVE s \o more \in Seq(ToBrain) /\ Fewer(s, s \o more, "answer")
  <2>1. CASE more = <<>>
    BY <2>1, ConcatEmptySeq, FewerSame
  <2>2. ASSUME NEW c \in Nat, more = <<[what |-> "tool_result", call |-> c]>>
        PROVE  s \o more \in Seq(ToBrain) /\ Fewer(s, s \o more, "answer")
    <3> DEFINE e == [what |-> "tool_result", call |-> c]
    <3>1. e \in ToBrain /\ e.what # "answer"
      BY DEF ToBrain
    <3> HIDE DEF e
    <3>2. Append(s, e) = s \o more
      BY <2>2, <3>1, AppendIsConcat DEF e
    <3>3. Append(s, e) \in Seq(ToBrain) /\ Fewer(s, Append(s, e), "answer")
      BY <3>1, FewerOn, AppendProperties
    <3> QED
      BY <3>2, <3>3
  <2> QED
    BY <2>1, <2>2
<1>4. CASE claim = Run!NoQuestion
  <2>1. toBrain' = toBrain \o more
    BY <1>4 DEF Run!RelayActed
  <2>2. Fewer(toBrain, toBrain', "answer")
    BY <1>3, <2>1 DEF MsgInv
  <2>3. UnderWay'
    BY <1>2, <1>4, <2>2, WayStays, FewerSame DEF WaitInv
  <2> QED
    BY <1>1, <2>3 DEF WaitInv
<1>5. CASE claim # Run!NoQuestion
  <2>1. held # <<>> /\ NoneOf(toPlugin, "question") /\ NoneOf(toBrain, "answer")
    BY <1>5 DEF WaitInv, UnderWay, Idle, OnItsWay, Waiting, Replied
  <2> DEFINE a == Run!Answer(claim, TRUE)
             b == Append(toBrain, a)
  <2>2. a \in ToBrain /\ a.what = "answer" /\ a.claimed = TRUE
    BY DEF Run!Answer, ToBrain, MsgInv
  <2> HIDE DEF a
  <2>3. /\ b \in Seq(ToBrain) /\ Len(toBrain) \in Nat /\ Len(b) = Len(toBrain) + 1 /\ b[Len(toBrain) + 1] = a
        /\ \A i \in 1..Len(toBrain) : b[i] = toBrain[i]
    BY <2>2, AfterAppend, AppendProperties DEF MsgInv
  <2>4. OneOf(b, "answer")
    BY <2>1, <2>2, OneComes DEF MsgInv
  <2>5. toBrain' = b \o more
    BY <1>5 DEF Run!RelayActed, a
  <2> HIDE DEF b
  <2>6. \A i \in 1..Len(b) : b[i].what = "answer" => b[i] = a
    BY <2>1, <2>3 DEF NoneOf
  <2>7. Fewer(b, toBrain', "answer")
    BY <1>3, <2>3, <2>5
  <2>8. OneOf(toBrain', "answer") /\ \A i \in 1..Len(toBrain') : toBrain'[i].what = "answer" => toBrain'[i] = a
    BY <2>4, <2>6, <2>7 DEF Fewer
  <2>9. Replied(Head(held'), toPlugin', toBrain', claim', met', (duty \cup acted)')
    BY <1>2, <2>1, <2>2, <2>8 DEF Replied
  <2>10. UnderWay'
    BY <2>1, <2>9 DEF UnderWay
  <2> QED
    BY <1>1, <2>10 DEF WaitInv
<1> QED
  BY <1>4, <1>5

LEMMA WaitKeeps ==
  ASSUME LastFrame \in Nat, MaxConsults \in Nat, timely, ~ended, HeldInv, HeldInv', MsgInv, FreshInv, ReadInv,
         WaitInv, [Run!Next]_Run!vars
  PROVE  ended' \/ WaitInv'
<1>. USE DEF Run!given, Run!brainVars, Run!pluginVars, Run!relayVars, Run!history
<1> DEFINE Kept == UNCHANGED <<claim, met, held, out, taken, acted>>
<1>1. CASE Kept /\ UNCHANGED <<duty, toPlugin, toBrain>>
  BY <1>1, WaitStays, FewerSame
<1>2. ASSUME NEW m \in ToPlugin, m.what # "question", toPlugin' = Append(toPlugin, m), Kept,
             UNCHANGED <<duty, toBrain>>
      PROVE  WaitInv'
  <2>1. Fewer(toPlugin, toPlugin', "question") /\ Fewer(toBrain, toBrain', "answer")
    BY <1>2, FewerOn, FewerSame DEF MsgInv
  <2> QED
    BY <1>2, <2>1, WaitStays
<1>3. ASSUME toPlugin # <<>>, toPlugin' = Tail(toPlugin), Kept, toBrain' = toBrain, duty' \cap met \subseteq duty \cup acted
      PROVE  WaitInv'
  <2>1. Fewer(toPlugin, toPlugin', "question") /\ Fewer(toBrain, toBrain', "answer")
    BY <1>3, FewerOff, FewerSame DEF MsgInv
  <2> QED
    BY <1>3, <2>1, WaitStays
<1>4. ASSUME NEW m \in ToBrain, m.what # "answer", toBrain' = Append(toBrain, m), Kept,
             UNCHANGED <<duty, toPlugin>>
      PROVE  WaitInv'
  <2>1. Fewer(toPlugin, toPlugin', "question") /\ Fewer(toBrain, toBrain', "answer")
    BY <1>4, FewerOn, FewerSame DEF MsgInv
  <2> QED
    BY <1>4, <2>1, WaitStays
<1>5. ASSUME toBrain # <<>>, toBrain' = Tail(toBrain), Kept, UNCHANGED <<duty, toPlugin>>
      PROVE  WaitInv'
  <2>1. Fewer(toPlugin, toPlugin', "question") /\ Fewer(toBrain, toBrain', "answer")
    BY <1>5, FewerOff, FewerSame DEF MsgInv
  <2> QED
    BY <1>5, <2>1, WaitStays
<1>6. CASE Run!Say
  BY <1>1, <1>6 DEF Run!Say
<1>7. CASE Run!Emit
  <2>1. Transcript(emitting) \in ToPlugin /\ Transcript(emitting).what # "question"
    BY <1>7 DEF Run!Emit, ToPlugin, Transcript, MsgInv
  <2> QED
    BY <1>2, <1>7, <2>1 DEF Run!Emit, Transcript
<1>8. CASE Run!Take
  BY <1>8, TakeWaits
<1>9. CASE Run!Answered
  <2>1. toBrain # <<>> /\ toBrain' = Tail(toBrain) /\ Head(toBrain).what = "answer"
    BY <1>9 DEF Run!Answered, Run!FromPlugin
  <2>2. CASE Run!Decide(Head(toBrain).claimed, FALSE)
    BY <2>1, <2>2, AnswerWaits
  <2>3. CASE Kept /\ UNCHANGED <<duty, toPlugin>>
    BY <1>5, <2>1, <2>3
  <2> QED
    BY <1>9, <2>2, <2>3 DEF Run!Answered
<1>10. CASE Run!Expire \/ Run!End
  BY <1>10 DEF Run!Expire, Run!End
<1>11. CASE Run!StartConsult \/ Run!ConsultTimesOut
  <2>1. [what |-> "tool_call", call |-> calls + 1] \in ToPlugin /\ [what |-> "tool_cancel", call |-> consult] \in ToPlugin
    BY DEF ToPlugin, MsgInv
  <2> QED
    BY <1>2, <1>11, <2>1 DEF Run!StartConsult, Run!ConsultTimesOut, Run!Counting
<1>12. CASE Run!ConsultWorking \/ Run!ConsultAnswered
  BY <1>5, <1>12 DEF Run!ConsultWorking, Run!ConsultAnswered, Run!Counting, Run!FromPlugin
<1>13. CASE Run!ConsultAnsweredDirectly
  BY <1>1, <1>13 DEF Run!ConsultAnsweredDirectly, Run!Counting
<1>14. CASE Run!Hear
  <2>1. /\ toPlugin # <<>> /\ toPlugin' = Tail(toPlugin) /\ Head(toPlugin).what = "transcript"
        /\ Kept /\ toBrain' = toBrain /\ duty' \subseteq duty \cup {Head(toPlugin).on}
    BY <1>14 DEF Run!Hear, Run!ToPlugin
  <2>2. Head(toPlugin).on \in Nat /\ heard_control.on < Head(toPlugin).on /\ heard_control.on \in Nat
    <3>1. Sentences \in Nat
      BY DEF Sentences, FreshInv, HeldInv
    <3> QED
      BY <2>1, <3>1, RisingOff DEF FreshInv, MsgInv
  <2>3. Head(toPlugin).on \notin met
    BY <2>2 DEF ReadInv
  <2> QED
    BY <1>3, <2>1, <2>3
<1>15. CASE Run!Question
  BY <1>15, QuestionWaits
<1>16. CASE Run!Unconfirmed
  <2>1. /\ claim # Run!NoQuestion /\ duty = {} /\ Run!Reply(claim, FALSE) /\ claim' = Run!NoQuestion
        /\ UNCHANGED <<toPlugin, met, held, out, taken, duty, acted>>
    BY <1>16 DEF Run!Unconfirmed
  <2>2. held # <<>> /\ Waiting(Head(held), toPlugin, toBrain, claim, met, acted)
    BY <2>1 DEF WaitInv, UnderWay, Idle, OnItsWay, Replied
  <2>3. Head(held) \in met' => Head(held) \notin (duty \cup acted)'
    BY <2>1, <2>2 DEF Waiting
  <2>4. UnderWay'
    BY <2>1, <2>2, <2>3, ReplyWaits DEF Run!Reply, Waiting, MsgInv
  <2>5. Past(met, Len(out), held # <<>>, taken, duty \cup acted)'
    BY <2>1 DEF WaitInv, Past
  <2> QED
    BY <2>4, <2>5 DEF WaitInv
<1>17. CASE Run!ToolCall \/ Run!ToolCancel
  BY <1>3, <1>17 DEF Run!ToolCall, Run!ToolCancel, Run!ToPlugin
<1>18. ASSUME NEW c \in Run!Consults, Run!Ack(c) \/ Run!Result(c) PROVE WaitInv'
  <2>1. [what |-> "working", call |-> c] \in ToBrain /\ [what |-> "tool_result", call |-> c] \in ToBrain
    BY DEF ToBrain, Run!Consults
  <2> QED
    BY <1>4, <1>18, <2>1 DEF Run!Ack, Run!Result
<1>19. ASSUME NEW c \in Run!Consults, Run!RunCounts(c) \/ Run!RunForgotten(c) PROVE WaitInv'
  BY <1>1, <1>19 DEF Run!RunCounts, Run!RunForgotten
<1>20. ASSUME NEW f \in Run!Frames, Run!ActReply(f) PROVE WaitInv'
  <2>1. Run!RelayActed(<<>>) /\ UNCHANGED <<toPlugin, held, out, taken, met>> /\ (duty \cup acted)' \subseteq duty \cup acted
    BY <1>20 DEF Run!ActReply
  <2> QED
    BY <2>1, ActWaits
<1>21. ASSUME NEW f \in Run!Frames, NEW c \in Run!Consults, Run!ActCancel(f, c) PROVE WaitInv'
  <2>1. /\ Run!RelayActed(<<[what |-> "tool_result", call |-> c]>>) /\ c \in Nat
        /\ UNCHANGED <<toPlugin, held, out, taken, met>> /\ (duty \cup acted)' \subseteq duty \cup acted
    BY <1>21 DEF Run!ActCancel, Run!Consults
  <2> QED
    BY <2>1, ActWaits
<1>22. CASE Run!AllOver \/ UNCHANGED Run!vars
  BY <1>1, <1>22 DEF Run!AllOver, Run!vars
<1> QED
  BY <1>6, <1>7, <1>8, <1>9, <1>10, <1>11, <1>12, <1>13, <1>14, <1>15, <1>16, <1>17,
     <1>18, <1>19,
     <1>20, <1>21, <1>22 DEF Run!Next, Run!Brain, Run!Plugin, Run!Relay, Run!RelayReplies

LEMMA OverStays ==
  ASSUME [Run!Next]_Run!vars
  PROVE  ended => ended'
BY DEF Run!Next, Run!Brain, Run!Plugin, Run!Relay, Run!RelayReplies, Run!AllOver, Run!vars,
   Run!given, Run!brainVars, Run!Say, Run!Emit, Run!Take, Run!Hear, Run!Answered,
   Run!Decide, Run!Expire, Run!End, Run!StartConsult, Run!ConsultWorking,
   Run!ConsultAnswered, Run!ConsultTimesOut, Run!ConsultAnsweredDirectly, Run!Counting,
   Run!Question, Run!Unconfirmed, Run!ToolCall, Run!ToolCancel, Run!Ack, Run!RunCounts,
   Run!RunForgotten, Run!Result, Run!ActCancel, Run!ActReply

OnceInv == HeldInv /\ MsgInv /\ FreshInv /\ RunsInv /\ ReadInv /\ (timely /\ ~ended => WaitInv)

LEMMA OnceStarts == Run!Init => OnceInv
<1> SUFFICES ASSUME Run!Init PROVE OnceInv
  OBVIOUS
<1>1. HeldInv /\ MsgInv
  BY ControlStarts DEF ControlInv
<1>2. FreshInv /\ RunsInv
  BY DEF Run!Init, FreshInv, RunsInv, Rising, Told, Sentences, Run!NotHeard
<1>3. ReadInv
  BY DEF Run!Init, ReadInv, Run!NotHeard
<1>4. WaitInv
  BY DEF Run!Init, WaitInv, UnderWay, Idle, Past, NoneOf
<1> QED
  BY <1>1, <1>2, <1>3, <1>4 DEF OnceInv

LEMMA OnceKeeps ==
  ASSUME LastFrame \in Nat, MaxConsults \in Nat, OnceInv, [Run!Next]_Run!vars
  PROVE  OnceInv'
<1>1. HeldInv' /\ MsgInv' /\ FreshInv' /\ RunsInv' /\ ReadInv'
  BY HeldKeeps, MsgKeeps, FreshKeeps, RunsKeep, ReadKeeps DEF OnceInv
<1>2. timely' /\ ~ended' => WaitInv'
  BY <1>1, WaitKeeps, OverStays, LineStays DEF OnceInv
<1> QED
  BY <1>1, <1>2 DEF OnceInv

LEMMA OnceIsOnce == OnceInv => Run!AnsweredOnce
<1> SUFFICES ASSUME OnceInv, timely, ~ended, NEW f \in acted \cap met, f \in Run!ToSet(out) \ taken PROVE FALSE
  BY DEF Run!AnsweredOnce, Run!Doubled
<1>1. PICK i \in 1..Len(out) : f = out[i]
  BY DEF Run!ToSet
<1>2. Len(out) \in Nat /\ out[i] = i
  BY Placed DEF OnceInv, HeldInv, Run!InOrder, Came
<1> QED
  BY <1>1, <1>2 DEF OnceInv, WaitInv, Past

-----------------------------------------------------------------------------
(* The parts together.                                                      *)

(* Each part goes its own way: it takes a step of its own or none. *)
LEMMA EachStarts ==
  Init => Pause!Init /\ Turn!Init /\ Ahead!Init /\ Run!Init /\ Voice!Init /\ Room!Init
BY DEF Init

LEMMA PauseAlone == [Next]_vars => [Pause!Next]_Pause!vars
BY DEF Next, PauseGoes, TurnGoes, AheadGoes, ControlGoes, VoiceGoes, MicGoes, turnOnly,
   aheadOnly, controlOnly, voiceOnly, micOnly, vars, pauseVars, Pause!vars, Pause!outVars,
   Pause!pauserVars, Pause!sttVars, Pause!gateVars, Pause!viewVars

LEMMA TurnAlone == [Next]_vars => [Turn!Next]_Turn!vars
BY DEF Next, PauseGoes, TurnGoes, AheadGoes, ControlGoes, VoiceGoes, MicGoes, pauseOnly,
   aheadOnly, controlOnly, voiceOnly, micOnly, vars, turnVars, Turn!vars, Turn!callerVars,
   Turn!engineVars, Turn!sttVars, Turn!stratVars, Turn!turnVars, Turn!wordVars

LEMMA ControlAlone == [Next]_vars => [Run!Next]_Run!vars
BY DEF Next, PauseGoes, TurnGoes, AheadGoes, ControlGoes, VoiceGoes, MicGoes, pauseOnly,
   turnOnly, aheadOnly, voiceOnly, micOnly, vars, controlVars, Run!vars, Run!given,
   Run!brainVars, Run!pluginVars, Run!relayVars, Run!history

LEMMA VoiceAlone == [Next]_vars => [Voice!Next]_Voice!vars
BY DEF Next, PauseGoes, TurnGoes, AheadGoes, ControlGoes, VoiceGoes, MicGoes, pauseOnly,
   turnOnly, aheadOnly, controlOnly, micOnly, vars, voiceVars, Voice!vars, Voice!asking,
   Voice!boot, Voice!box, Voice!calls, Voice!told, Voice!follow

(* However pauses, verdicts, timers, resumes and interruptions interleave:  *)
(* a silent output has a pause whose cap runs, or an interruption on its    *)
(* way; and while a verdict or a final is waited for, no timer but the cap  *)
(* resumes the reply over the words (barge_pause.py, playout_pause.py).     *)
THEOREM SilenceEnds == Spec => []SilenceIsOwned
<1>1. Init => PauseInv
  BY EachStarts DEF Pause!Init, PauseInv, Pause!SilenceIsOwned, WaitsInv
<1>2. PauseInv /\ [Next]_vars => PauseInv'
  BY PauseKeeps, PauseAlone
<1>3. PauseInv => SilenceIsOwned
  BY DEF PauseInv, WaitsInv, SilenceIsOwned, Pause!HeldWordsWait
<1> QED
  BY <1>1, <1>2, <1>3, PTL DEF Spec

(* However the two queues of the VAD's edges, the verdicts and the engine's *)
(* closes interleave: no turn whose words are the model's is open while the *)
(* caller is quiet (endpointing.py, keep_barge_in_reachable).               *)
THEOREM BargeInStaysReachable == Spec => []BargeInReachable
<1>1. Init => TurnInv
  BY EachStarts DEF Turn!Init, TurnInv
<1>2. TurnInv /\ [Next]_vars => TurnInv'
  BY TurnKeeps, TurnAlone
<1>3. TurnInv => BargeInReachable
  BY DEF TurnInv, BargeInReachable, Turn!BargeInReachable
<1> QED
  BY <1>1, <1>2, <1>3, PTL DEF Spec

(* A setup that a session starts is followed to its end, which it tells     *)
(* once; what it tells is that setup's news, where no setup is left up by a *)
(* session of before (Orphans) and the helper answers within its wait.      *)
THEOREM SetupStaysFollowed ==
  ASSUME ~Orphans
  PROVE  Spec => []SetupIsFollowed
<1> DEFINE IInv == ~slow => SetupInv
<1>1. Init => IInv
  BY EachStarts DEF Voice!Init, SetupInv, Order, Runs, Counts, Voice!Followed,
     Voice!NewsIsOurs, Voice!Phase, Voice!Nobody
<1>2. IInv /\ [Next]_vars => IInv'
  BY SetupKeeps, SlowStays, VoiceAlone
<1>3. IInv => SetupIsFollowed
  BY DEF SetupInv, Order, Counts, SetupIsFollowed, Voice!SetupIsFollowed,
     Voice!EachEndIsTold
<1> QED
  BY <1>1, <1>2, <1>3, PTL DEF Spec

(* The setup a new box begins unasked is the first of its boot. *)
THEOREM UnaskedComesFirst == Spec => UnaskedIsFirst
<1>1. Init => FirstInv
  BY EachStarts DEF Voice!Init, FirstInv
<1>2. FirstInv /\ [Next]_vars => FirstInv'
  BY FirstKeeps, VoiceAlone
<1>3. FirstInv /\ [Next]_vars => [first' /\ ~first => starts_voice' = 1]_Voice!vars
  BY FirstKeeps, VoiceAlone
<1> QED
  BY <1>1, <1>2, <1>3, PTL DEF Spec, UnaskedIsFirst, Voice!UnaskedIsFirst

(* No frame is lost, doubled or overtaken by what is held, asked or decided. *)
THEOREM FramesInOrder ==
  ASSUME LastFrame \in Nat
  PROVE  Spec => []Run!InOrder
<1>1. Init => HeldInv
  BY EachStarts, ControlStarts DEF ControlInv
<1>2. HeldInv /\ [Next]_vars => HeldInv'
  BY HeldKeeps, ControlAlone
<1>3. HeldInv => Run!InOrder
  BY DEF HeldInv
<1> QED
  BY <1>1, <1>2, <1>3, PTL DEF Spec

(* The model is kept from answering only finals that the relay acted after, *)
(* where a question does not overtake its final's transcript.               *)
THEOREM ClaimsAreConfirmed ==
  ASSUME LastFrame \in Nat, MaxConsults \in Nat
  PROVE  Spec => []Run!ClaimedIsConfirmed
<1>1. Init => ControlInv
  BY EachStarts, ControlStarts
<1>2. ControlInv /\ [Next]_vars => ControlInv'
  BY ControlKeeps, ControlAlone
<1>3. ControlInv => Run!ClaimedIsConfirmed
  BY DEF ControlInv, ActInv, Run!ClaimedIsConfirmed
<1> QED
  BY <1>1, <1>2, <1>3, PTL DEF Spec

(* Who answers what the user says of a running request is decided in order, *)
(* on what the relay did after it read the words, and once.                 *)
THEOREM RunControlStaysTrue ==
  ASSUME LastFrame \in Nat, MaxConsults \in Nat
  PROVE  Spec => []RunControlIsTrue
<1>1. Init => ControlInv /\ OnceInv
  BY EachStarts, ControlStarts, OnceStarts
<1>2. ControlInv /\ OnceInv /\ [Next]_vars => ControlInv' /\ OnceInv'
  BY ControlKeeps, OnceKeeps, ControlAlone
<1>3. ControlInv /\ OnceInv => RunControlIsTrue
  BY OnceIsOnce DEF ControlInv, HeldInv, ActInv, RunControlIsTrue, Run!RunControlIsTrue,
     Run!ClaimedIsConfirmed
<1> QED
  BY <1>1, <1>2, <1>3, PTL DEF Spec

-----------------------------------------------------------------------------
(* The request ahead of the turn.                                           *)

Drafts == Ahead!Words
DraftBounds == MaxDrafts \in Nat /\ MaxStops \in Nat /\ MaxWrites \in Nat

WaitingCalls == [text : SUBSET Drafts, ahead : BOOLEAN, stale : BOOLEAN]
Streams == [st : {"open", "failed", "empty"}, text : SUBSET Drafts, hist : Ahead!Hists,
            pending : 0..MaxWrites]

(* Nothing asks, waits to ask or is about to while the caller speaks or     *)
(* once the session is over.                                                *)
QuietInv ==
  /\ Ahead!AsksInQuiet
  /\ \A w \in waiting : ~w.stale => ~speaking_ahead /\ ~over
  /\ settle => ~over
  /\ speaking_ahead => stops_ahead < MaxStops

(* A call that waits for the cut to land asks for the words there are: it   *)
(* waits in an open turn, with no request of that turn's open beside it.    *)
WordsInv ==
  mode # "peeks" =>
    /\ preview = {} /\ (cut = "sent" => ~Ahead!Live)
    /\ Ahead!Live => \A w \in waiting : w.stale
    /\ \A w \in waiting : ~w.ahead /\ (~w.stale /\ open_ahead => w.text = agg_ahead \cup interim)

(* A cut is not spent before it has landed or been forgotten, and a turn a   *)
(* reply plays over has cut it.                                             *)
CutInv ==
  /\ cut = "sent" => heardCut /\ req = {}
  /\ cut = "no" /\ bot_ahead => ~open_ahead /\ req = {}
  /\ hist.reply = "whole" => heardCut \/ cut = "behind"

AheadInv == Ahead!TypeOK /\ QuietInv /\ WordsInv /\ CutInv

\* What is opened is for the words asked.
OpensOn(t) == live' # live /\ live' # Ahead!NoReply /\ live'.st = "open" => live'.text = t

LEMMA StaleIsStale ==
  ASSUME NEW ws \in SUBSET WaitingCalls
  PROVE  /\ Ahead!Stale(ws) \subseteq WaitingCalls
         /\ \A w \in Ahead!Stale(ws) : w.stale
         /\ \A w \in Ahead!Stale(ws) : \E v \in ws : v.ahead = w.ahead
  <1>1. \A w \in WaitingCalls : /\ [w EXCEPT !.stale = TRUE] \in WaitingCalls
                               /\ [w EXCEPT !.stale = TRUE].stale
                               /\ [w EXCEPT !.stale = TRUE].ahead = w.ahead
    BY DEF WaitingCalls
  <1>2. \A w \in Ahead!Stale(ws) : \E v \in ws : w = [v EXCEPT !.stale = TRUE]
    BY DEF Ahead!Stale
  <1>3. ASSUME NEW w \in Ahead!Stale(ws)
        PROVE  w \in WaitingCalls /\ w.stale /\ \E v \in ws : v.ahead = w.ahead
    <2>1. PICK v \in ws : w = [v EXCEPT !.stale = TRUE]
      BY <1>2, <1>3
    <2>2. v \in WaitingCalls
      OBVIOUS
    <2>3. w \in WaitingCalls /\ w.stale /\ w.ahead = v.ahead
      BY Zenon, <1>1, <2>1, <2>2
    <2>. QED BY <2>3
  <1>. QED BY Zenon, <1>3

\* A note is put right, or stays.
LEMMA Corrected ==
  ASSUME NEW h \in Ahead!Hists, heardCut \in BOOLEAN
  PROVE  /\ Ahead!Reconciled(h) \in Ahead!Hists
         /\ (h.reply = "whole" => heardCut) => Ahead!Reconciled(h).reply # "whole"
         /\ Ahead!Reconciled(h).writes = h.writes
  <1>1. [h EXCEPT !.reply = "heard"] \in Ahead!Hists /\ [h EXCEPT !.reply = "heard"].reply = "heard"
        /\ [h EXCEPT !.reply = "heard"].writes = h.writes
    BY DEF Ahead!Hists
  <1>. QED BY <1>1 DEF Ahead!Reconciled

LEMMA NoteNoted ==
  ASSUME NEW h \in Ahead!Hists, NEW n \in 0..MaxWrites
  PROVE  /\ [h EXCEPT !.note = n] \in Ahead!Hists
         /\ [h EXCEPT !.note = n].reply = h.reply
  BY DEF Ahead!Hists

\* Opened, past the fence: on these words, and on no reply that was cut.
LEMMA OpenedSays ==
  ASSUME Ahead!TypeOK, NEW t \in SUBSET Drafts, NEW h \in Ahead!Hists,
         h.reply = "whole" => heardCut \/ cut = "behind",
         NEW ws \in SUBSET WaitingCalls, Ahead!Opened(t, h, ws)
  PROVE  /\ hist' \in Ahead!Hists /\ (hist'.reply = "whole" => cut = "behind") /\ heardCut' = FALSE
         /\ live' \in Streams /\ live' # Ahead!NoReply /\ OpensOn(t)
         /\ \/ live' = live /\ Ahead!Live /\ waiting' = ws
            \/ waiting' = Ahead!Stale(ws)
  <1>1. hist' = Ahead!Reconciled(h) /\ heardCut' = FALSE
    BY DEF Ahead!Opened
  <1>2. heardCut \in BOOLEAN /\ pending \in 0..MaxWrites /\ (live = Ahead!NoReply \/ live \in Streams)
    BY DEF Ahead!TypeOK, Streams, Drafts
  <1>3. Ahead!Asked(h) \in Ahead!Hists
    BY <1>2, Corrected, NoteNoted DEF Ahead!Asked
  <1>4. CASE live' = live /\ waiting' = ws /\ Ahead!Live
    BY <1>1, <1>2, <1>4, Corrected DEF OpensOn, Ahead!Live
  <1>5. CASE /\ live' = [st |-> "open", text |-> t, hist |-> Ahead!Asked(h), pending |-> pending]
             /\ waiting' = Ahead!Stale(ws)
    <2>1. live' \in Streams /\ live'.text = t /\ live'.st = "open"
      BY <1>2, <1>3, <1>5 DEF Streams
    <2>2. live' # Ahead!NoReply
      BY <2>1 DEF Ahead!NoReply
    <2>. QED BY <1>1, <1>2, <1>5, <2>1, <2>2, Corrected DEF OpensOn
  <1>. QED BY <1>4, <1>5 DEF Ahead!Opened

\* Asked for, it is opened; or waits for the cut; or is not asked for at all.
LEMMA StartsSays ==
  ASSUME Ahead!TypeOK, NEW t \in SUBSET Drafts, NEW ahead \in BOOLEAN, NEW h \in Ahead!Hists,
         h.reply = "whole" => heardCut \/ cut = "behind", Ahead!Starts(t, ahead, h)
  PROVE  /\ hist' \in Ahead!Hists /\ heardCut' \in BOOLEAN
         /\ waiting' \subseteq WaitingCalls
         /\ live' = Ahead!NoReply \/ live' \in Streams
         /\ hist'.reply = "whole" => heardCut' \/ cut = "behind"
         /\ cut = "sent" => heardCut' = heardCut
         /\ OpensOn(t)
         /\ \/ UNCHANGED <<live, waiting>> /\ (t = {} \/ ~(ahead \/ open_ahead))
            \/ /\ cut = "sent" /\ live' = live
               /\ \A w \in waiting' : \/ w.stale /\ \E v \in waiting : v.ahead = w.ahead
                                      \/ w.text = t /\ w.ahead = ahead
            \/ /\ cut # "sent"
               /\ \A w \in waiting' : w.stale /\ \E v \in waiting : v.ahead = w.ahead
  <1>0. /\ heardCut \in BOOLEAN /\ waiting \in SUBSET WaitingCalls
        /\ live = Ahead!NoReply \/ live \in Streams
    BY DEF Ahead!TypeOK, WaitingCalls, Streams, Drafts
  <1>1. CASE t = {} \/ ~(ahead \/ open_ahead)
    BY <1>0, <1>1 DEF Ahead!Starts, Ahead!specVars, OpensOn
  <1>2. CASE ~(t = {} \/ ~(ahead \/ open_ahead)) /\ Ahead!Fenced
    <2>. DEFINE c == [text |-> t, ahead |-> ahead, stale |-> FALSE]
    <2>1. /\ waiting' = Ahead!Stale(waiting) \cup {c} /\ UNCHANGED <<live, heardCut>> /\ hist' = h
          /\ cut = "sent"
      BY <1>2 DEF Ahead!Starts, Ahead!Fenced
    <2>2. c \in WaitingCalls /\ c.text = t /\ c.ahead = ahead
      BY DEF WaitingCalls
    <2>. HIDE DEF c
    <2>. QED BY <1>0, <2>1, <2>2, StaleIsStale DEF OpensOn
  <1>3. CASE ~(t = {} \/ ~(ahead \/ open_ahead)) /\ ~Ahead!Fenced
    <2>1. Ahead!Opened(t, h, Ahead!Stale(waiting)) /\ cut # "sent"
      BY <1>3 DEF Ahead!Starts, Ahead!Fenced
    <2>2. PICK ws \in SUBSET WaitingCalls : ws = Ahead!Stale(waiting)
      BY <1>0, StaleIsStale
    <2>3. Ahead!Opened(t, h, ws)
      BY <2>1, <2>2
    <2>4. /\ hist' \in Ahead!Hists /\ (hist'.reply = "whole" => cut = "behind") /\ heardCut' = FALSE
          /\ live' \in Streams /\ OpensOn(t)
          /\ waiting' = ws \/ waiting' = Ahead!Stale(ws)
      BY <2>3, OpenedSays
    <2>5. \A w \in ws : w.stale /\ \E v \in waiting : v.ahead = w.ahead
      BY <1>0, <2>2, StaleIsStale
    <2>6. /\ waiting' \subseteq WaitingCalls
          /\ \A w \in waiting' : w.stale /\ \E v \in waiting : v.ahead = w.ahead
      BY <2>4, <2>5, StaleIsStale
    <2>. QED BY <2>1, <2>4, <2>6
  <1>. QED BY <1>1, <1>2, <1>3

\* The words are among the draft's, and so is the record of them.
TurnTyped ==
  /\ mode \in {"peeks", "report", "window"} /\ said_ahead \in 0..MaxDrafts /\ stops_ahead \in 0..MaxStops
  /\ speaking_ahead \in BOOLEAN /\ finalized_ahead \in BOOLEAN /\ open_ahead \in BOOLEAN
  /\ bot_ahead \in BOOLEAN /\ decoded \in BOOLEAN /\ unreported \in BOOLEAN /\ settle \in BOOLEAN
  /\ over \in BOOLEAN
  /\ verdict \in {"none", "complete", "incomplete"}
  /\ interim \subseteq Drafts /\ agg_ahead \subseteq Drafts /\ preview \subseteq Drafts

AskTyped ==
  /\ cut \in {"no", "sent", "landed", "late", "behind"} /\ heardCut \in BOOLEAN
  /\ hist \in Ahead!Hists /\ pending \in 0..MaxWrites /\ req \subseteq Drafts
  /\ waiting \subseteq WaitingCalls
  /\ live = Ahead!NoReply \/ live \in Streams
  /\ adopted \in {"none", "hit", "miss"} /\ missed \in {"none", "words", "context", "stream"}

Typed == TurnTyped /\ AskTyped

LEMMA TypedIs == Typed <=> Ahead!TypeOK
  <1>1. Typed => Ahead!TypeOK
    BY DEF Typed, TurnTyped, AskTyped, Ahead!TypeOK, WaitingCalls, Streams, Drafts
  <1>2. Ahead!TypeOK => Typed
    BY DEF Typed, TurnTyped, AskTyped, Ahead!TypeOK, WaitingCalls, Streams, Drafts
  <1>. QED BY <1>1, <1>2

(* What a step says of the requests: nothing is opened but on the words of  *)
(* the turn; one that is answered is answered as it was asked.              *)
AheadStep ==
  /\ mode # "peeks" => OpensOn(agg_ahead' \cup interim')
  /\ Ahead!Requests /\ adopted' = "hit" =>
       hist' = [live.hist EXCEPT !.said = @ \cup req] /\ (Ahead!InOrder => hist'.reply # "whole")
  /\ Ahead!Requests /\ Ahead!InOrder => hist'.reply # "whole"

\* Cancelled, nothing is asked, and nothing that waits asks.
LEMMA CancelSays ==
  ASSUME Ahead!TypeOK, Ahead!cancel
  PROVE  /\ live' = Ahead!NoReply /\ waiting' \subseteq WaitingCalls
         /\ \A w \in waiting' : w.stale /\ \E v \in waiting : v.ahead = w.ahead
  <1>1. waiting \in SUBSET WaitingCalls
    BY DEF Ahead!TypeOK, WaitingCalls, Drafts
  <1>. QED BY <1>1, StaleIsStale DEF Ahead!cancel

\* A step that asks leaves the caller quiet, and asks for the turn's words.
LEMMA AskKeeps ==
  ASSUME Ahead!TypeOK, QuietInv, WordsInv, CutInv, NEW t \in SUBSET Drafts, NEW ahead \in BOOLEAN,
         NEW h \in Ahead!Hists, h.reply = hist.reply, Ahead!Starts(t, ahead, h),
         ~speaking_ahead', ~over', settle' => ~over', UNCHANGED <<mode, preview, cut, req, bot_ahead, open_ahead>>,
         mode # "peeks" => ~ahead /\ t = agg_ahead' \cup interim'
                           /\ (t = {} => agg_ahead' \cup interim' = agg_ahead \cup interim)
  PROVE  /\ hist' \in Ahead!Hists /\ heardCut' \in BOOLEAN /\ waiting' \subseteq WaitingCalls
         /\ live' = Ahead!NoReply \/ live' \in Streams
         /\ QuietInv' /\ WordsInv' /\ CutInv'
         /\ mode # "peeks" => OpensOn(agg_ahead' \cup interim')
  <1>1. h.reply = "whole" => heardCut \/ cut = "behind"
    BY DEF CutInv
  <1>2. /\ hist' \in Ahead!Hists /\ heardCut' \in BOOLEAN
        /\ waiting' \subseteq WaitingCalls
        /\ live' = Ahead!NoReply \/ live' \in Streams
        /\ hist'.reply = "whole" => heardCut' \/ cut = "behind"
        /\ cut = "sent" => heardCut' = heardCut
        /\ OpensOn(t)
        /\ \/ UNCHANGED <<live, waiting>> /\ (t = {} \/ ~(ahead \/ open_ahead))
           \/ /\ cut = "sent" /\ live' = live
              /\ \A w \in waiting' : \/ w.stale /\ \E v \in waiting : v.ahead = w.ahead
                                     \/ w.text = t /\ w.ahead = ahead
           \/ /\ cut # "sent"
              /\ \A w \in waiting' : w.stale /\ \E v \in waiting : v.ahead = w.ahead
    BY <1>1, StartsSays
  <1>3. QuietInv'
    BY DEF QuietInv, Ahead!AsksInQuiet
  <1>4. CutInv'
    BY <1>2 DEF CutInv
  <1>5. WordsInv'
    <2>1. SUFFICES ASSUME mode # "peeks" PROVE WordsInv'
      BY DEF WordsInv
    <2>2. /\ preview' = {} /\ ~ahead /\ t = agg_ahead' \cup interim'
          /\ cut = "sent" => ~Ahead!Live
          /\ Ahead!Live => \A w \in waiting : w.stale
          /\ \A w \in waiting : ~w.ahead /\ (~w.stale /\ open_ahead => w.text = agg_ahead \cup interim)
      BY <2>1 DEF WordsInv
    <2>3. CASE UNCHANGED <<live, waiting>> /\ (t = {} \/ ~(ahead \/ open_ahead))
      BY <2>2, <2>3 DEF WordsInv, Ahead!Live
    <2>4. CASE /\ cut = "sent" /\ live' = live
               /\ \A w \in waiting' : \/ w.stale /\ \E v \in waiting : v.ahead = w.ahead
                                      \/ w.text = t /\ w.ahead = ahead
      BY <2>2, <2>4 DEF WordsInv, Ahead!Live
    <2>5. CASE /\ cut # "sent"
               /\ \A w \in waiting' : w.stale /\ \E v \in waiting : v.ahead = w.ahead
      BY <2>2, <2>5 DEF WordsInv, Ahead!Live
    <2>. QED BY <1>2, <2>3, <2>4, <2>5
  <1>6. mode # "peeks" => OpensOn(agg_ahead' \cup interim')
    BY <1>2
  <1>. QED BY <1>2, <1>3, <1>4, <1>5, <1>6

\* Every step of the request ahead keeps it so.
LEMMA AheadKeeps ==
  ASSUME DraftBounds, AheadInv, [Ahead!Next]_Ahead!vars
  PROVE  AheadInv' /\ (AheadStep \/ UNCHANGED Ahead!vars)
  <1>. USE DEF Ahead!sttVars, Ahead!textVars, Ahead!stopVars, Ahead!ctxVars, Ahead!specVars, Ahead!endVars
  <1>0. Typed /\ Ahead!TypeOK /\ QuietInv /\ WordsInv /\ CutInv
    BY TypedIs DEF AheadInv
  <1>100. SUFFICES Typed' /\ QuietInv' /\ WordsInv' /\ CutInv' /\ (AheadStep \/ UNCHANGED Ahead!vars)
    <2>1. Typed' => Ahead!TypeOK'
      BY TypedIs, PTL
    <2>. QED BY <2>1 DEF AheadInv
  <1>101. hist.reply = "whole" => heardCut \/ cut = "behind"
    BY <1>0 DEF CutInv
  <1>102. UNCHANGED live => OpensOn(agg_ahead' \cup interim')
    BY DEF OpensOn
  <1>103. live' = Ahead!NoReply => OpensOn(agg_ahead' \cup interim')
    BY DEF OpensOn
  <1>104. Drafts = 1..MaxDrafts /\ MaxDrafts \in Nat /\ MaxStops \in Nat /\ MaxWrites \in Nat
    BY DEF DraftBounds, Drafts, Ahead!Words
  <1>105. ~Ahead!Requests => (AheadStep <=> (mode # "peeks" => OpensOn(agg_ahead' \cup interim')))
    BY DEF AheadStep
  <1>106. ASSUME req' = req \/ req = {} PROVE ~Ahead!Requests
    BY <1>106 DEF Ahead!Requests
  <1>107. ASSUME Ahead!cancel
          PROVE  /\ live' = Ahead!NoReply /\ waiting' \subseteq WaitingCalls
                 /\ \A w \in waiting' : w.stale /\ \E v \in waiting : v.ahead = w.ahead
    BY <1>0, <1>107, CancelSays
  <1>1. CASE Ahead!Interim
    <2>1. /\ ~over /\ said_ahead < MaxDrafts /\ said_ahead' = said_ahead + 1
          /\ interim' = interim \cup {said_ahead + 1}
          /\ UNCHANGED <<mode, speaking_ahead, stops_ahead, verdict, agg_ahead, finalized_ahead, open_ahead,
                         bot_ahead, decoded, unreported, preview, cut, heardCut, hist, pending, req, adopted,
                         missed, over>>
      BY <1>1 DEF Ahead!Interim
    <2>2. settle' \in BOOLEAN /\ (mode = "peeks" => UNCHANGED <<live, waiting, settle>>)
          /\ (UNCHANGED <<live, waiting>> \/ Ahead!cancel)
          /\ (mode # "peeks" => Ahead!cancel \/ (UNCHANGED <<live, waiting>> /\ Ahead!Live))
      BY <1>0, <1>1 DEF Ahead!Interim, Typed, TurnTyped
    <2>3. /\ live' = Ahead!NoReply \/ live' = live
          /\ waiting' \subseteq WaitingCalls
          /\ \A w \in waiting' : w.stale \/ (w \in waiting /\ mode = "peeks")
          /\ \A w \in waiting' : \E v \in waiting : w.ahead = v.ahead
      BY <1>0, <1>107, <2>2 DEF Typed, TurnTyped, AskTyped, WordsInv
    <2>4. Typed'
      <3>1. TurnTyped'
        BY <1>0, <1>104, <2>1, <2>2, <2>3 DEF Typed, TurnTyped
      <3>2. AskTyped'
        BY <1>0, <1>104, <2>1, <2>2, <2>3 DEF Typed, AskTyped
      <3>. QED BY <3>1, <3>2 DEF Typed
    <2>5. QuietInv'
      BY <1>0, <2>1, <2>2, <2>3 DEF QuietInv, Ahead!AsksInQuiet, Ahead!Live
    <2>6. WordsInv'
      BY <1>0, <2>1, <2>3 DEF WordsInv, Ahead!Live
    <2>7. CutInv'
      BY <1>0, <2>1 DEF CutInv
    <2>. QED BY <1>102, <1>103, <1>105, <1>106, <2>1, <2>3, <2>4, <2>5, <2>6, <2>7
  <1>2. CASE Ahead!Opens
    <2>1. /\ ~open_ahead /\ open_ahead' = TRUE /\ settle' = FALSE
          /\ (UNCHANGED <<live, waiting>> /\ preview # {}) \/ Ahead!cancel
          /\ IF bot_ahead /\ cut = "no" THEN cut' = "sent" /\ heardCut' = TRUE ELSE UNCHANGED <<cut, heardCut>>
          /\ verdict' = (IF speaking_ahead THEN "none" ELSE verdict)
          /\ UNCHANGED <<mode, said_ahead, speaking_ahead, stops_ahead, interim, agg_ahead, finalized_ahead,
                         bot_ahead, decoded, unreported, preview, hist, pending, req, adopted, missed, over>>
      BY <1>2 DEF Ahead!Opens
    <2>2. /\ live' = Ahead!NoReply \/ (live' = live /\ mode = "peeks")
          /\ waiting' \subseteq WaitingCalls
          /\ \A w \in waiting' : w.stale \/ (w \in waiting /\ mode = "peeks")
          /\ \A w \in waiting' : \E v \in waiting : w.ahead = v.ahead
      BY <1>0, <1>107, <2>1 DEF Typed, TurnTyped, AskTyped, WordsInv
    <2>3. /\ cut' \in {"no", "sent", "landed", "late", "behind"} /\ heardCut' \in BOOLEAN
          /\ verdict' \in {"none", "complete", "incomplete"}
      BY <1>0, <2>1 DEF Typed, TurnTyped, AskTyped
    <2>4. Typed'
      <3>1. TurnTyped'
        BY <1>0, <2>1, <2>2, <2>3 DEF Typed, TurnTyped
      <3>2. AskTyped'
        BY <1>0, <2>1, <2>2, <2>3 DEF Typed, AskTyped
      <3>. QED BY <3>1, <3>2 DEF Typed
    <2>5. QuietInv'
      BY <1>0, <2>1, <2>2 DEF QuietInv, Ahead!AsksInQuiet, Ahead!Live
    <2>6. WordsInv'
      BY <1>0, <2>1, <2>2 DEF WordsInv, Ahead!Live
    <2>7. CutInv'
      BY <1>0, <2>1 DEF CutInv
    <2>. QED BY <1>102, <1>103, <1>105, <1>106, <2>1, <2>2, <2>4, <2>5, <2>6, <2>7
  <1>3. CASE Ahead!Final
    <2>1. /\ ~over /\ interim # {} /\ interim' = {} /\ settle' = FALSE /\ finalized_ahead' = TRUE
          /\ UNCHANGED <<mode, speaking_ahead, stops_ahead, verdict, open_ahead, bot_ahead, decoded, unreported,
                         preview, cut, pending, req, adopted, missed, over>>
      BY <1>3 DEF Ahead!Final
    <2>2. PICK t : /\ t = agg_ahead'
                   /\ IF ~speaking_ahead THEN Ahead!Starts(t, FALSE, [hist EXCEPT !.note = pending])
                      ELSE hist' = [hist EXCEPT !.note = pending] /\ UNCHANGED <<live, waiting, heardCut>>
      BY <1>3 DEF Ahead!Final
    <2>3. /\ said_ahead' \in 0..MaxDrafts /\ agg_ahead' \subseteq Drafts /\ agg_ahead' # {}
      <3>1. PICK more \in {0, 1} :
              /\ said_ahead' = said_ahead + more /\ said_ahead' <= MaxDrafts
              /\ agg_ahead' = agg_ahead \cup interim \cup ((said_ahead + 1)..said_ahead')
        BY <1>3 DEF Ahead!Final
      <3>2. said_ahead' \in 0..MaxDrafts
        BY <1>0, <1>104, <3>1 DEF Typed, TurnTyped, AskTyped
      <3>3. (said_ahead + 1)..said_ahead' \subseteq Drafts
        BY <1>0, <1>104, <3>1 DEF Typed, TurnTyped, AskTyped
      <3>. QED BY <1>0, <2>1, <3>1, <3>2, <3>3 DEF Typed, TurnTyped, AskTyped
    <2>4. PICK h : h = [hist EXCEPT !.note = pending]
      OBVIOUS
    <2>5. h \in Ahead!Hists /\ h.reply = hist.reply
      BY <1>0, <2>4, NoteNoted DEF Typed, TurnTyped, AskTyped
    <2>6. CASE ~speaking_ahead
      <3>1. Ahead!Starts(t, FALSE, h) /\ t \in SUBSET Drafts /\ t # {}
        BY <2>2, <2>3, <2>4, <2>6
      <3>2. /\ ~speaking_ahead' /\ ~over' /\ (settle' => ~over')
            /\ UNCHANGED <<mode, preview, cut, req, bot_ahead, open_ahead>>
        BY <2>1, <2>6
      <3>3. t = agg_ahead' \cup interim'
        BY <2>1, <2>2
      <3>4. /\ hist' \in Ahead!Hists /\ heardCut' \in BOOLEAN /\ waiting' \subseteq WaitingCalls
            /\ live' = Ahead!NoReply \/ live' \in Streams
            /\ QuietInv' /\ WordsInv' /\ CutInv'
            /\ mode # "peeks" => OpensOn(agg_ahead' \cup interim')
        BY <1>0, <2>5, <3>1, <3>2, <3>3, AskKeeps
      <3>5. Typed'
        <4>1. TurnTyped'
          BY <1>0, <2>1, <2>3, <3>4 DEF Typed, TurnTyped
        <4>2. AskTyped'
          BY <1>0, <2>1, <2>3, <3>4 DEF Typed, AskTyped
        <4>. QED BY <4>1, <4>2 DEF Typed
      <3>. QED BY <1>105, <1>106, <2>1, <3>4, <3>5
    <2>7. CASE speaking_ahead
      <3>1. UNCHANGED <<live, waiting, heardCut>> /\ hist' \in Ahead!Hists /\ hist'.reply = hist.reply
        BY <2>2, <2>4, <2>5, <2>7
      <3>2. Typed'
        <4>1. TurnTyped'
          BY <1>0, <2>1, <2>3, <3>1 DEF Typed, TurnTyped
        <4>2. AskTyped'
          BY <1>0, <2>1, <2>3, <3>1 DEF Typed, AskTyped
        <4>. QED BY <4>1, <4>2 DEF Typed
      <3>3. QuietInv'
        BY <1>0, <2>1, <3>1 DEF QuietInv, Ahead!AsksInQuiet, Ahead!Live
      <3>4. \A w \in waiting : w.stale
        BY <1>0, <2>7 DEF QuietInv
      <3>5. WordsInv'
        BY <1>0, <2>1, <3>1, <3>4 DEF WordsInv, Ahead!Live
      <3>6. CutInv'
        BY <1>0, <2>1, <3>1 DEF CutInv
      <3>. QED BY <1>102, <1>105, <1>106, <2>1, <3>1, <3>2, <3>3, <3>5, <3>6
    <2>. QED BY <2>6, <2>7
  <1>4. CASE Ahead!SegmentReset
    <2>1. /\ ~over /\ interim' = {} /\ settle' = FALSE
          /\ (UNCHANGED <<live, waiting>> /\ Ahead!Live) \/ Ahead!cancel
          /\ UNCHANGED <<mode, said_ahead, speaking_ahead, stops_ahead, verdict, agg_ahead, finalized_ahead,
                         open_ahead, bot_ahead, decoded, unreported, preview, cut, heardCut, hist, pending, req,
                         adopted, missed, over>>
      BY <1>4 DEF Ahead!SegmentReset
    <2>2. /\ live' = Ahead!NoReply \/ live' = live
          /\ waiting' \subseteq WaitingCalls
          /\ \A w \in waiting' : w.stale \/ (w \in waiting /\ mode = "peeks")
          /\ \A w \in waiting' : \E v \in waiting : w.ahead = v.ahead
      BY <1>0, <1>107, <2>1 DEF Typed, TurnTyped, AskTyped, WordsInv
    <2>3. Typed'
      <3>1. TurnTyped'
        BY <1>0, <2>1, <2>2 DEF Typed, TurnTyped
      <3>2. AskTyped'
        BY <1>0, <2>1, <2>2 DEF Typed, AskTyped
      <3>. QED BY <3>1, <3>2 DEF Typed
    <2>4. QuietInv'
      BY <1>0, <2>1, <2>2 DEF QuietInv, Ahead!AsksInQuiet, Ahead!Live
    <2>5. WordsInv'
      BY <1>0, <2>1, <2>2 DEF WordsInv, Ahead!Live
    <2>6. CutInv'
      BY <1>0, <2>1 DEF CutInv
    <2>. QED BY <1>102, <1>103, <1>105, <1>106, <2>1, <2>2, <2>3, <2>4, <2>5, <2>6
  <1>5. CASE Ahead!VadStarts
    <2>1. /\ ~over /\ stops_ahead < MaxStops /\ speaking_ahead' = TRUE /\ verdict' = "none" /\ settle' = FALSE
          /\ preview' = {} /\ decoded' = FALSE /\ unreported' = FALSE /\ Ahead!cancel
          /\ UNCHANGED <<mode, said_ahead, stops_ahead, interim, agg_ahead, finalized_ahead, open_ahead, bot_ahead,
                         cut, heardCut, hist, pending, req, adopted, missed, over>>
      BY <1>5 DEF Ahead!VadStarts
    <2>3. Typed'
      <3>1. TurnTyped'
        BY <1>0, <1>107, <2>1 DEF Typed, TurnTyped
      <3>2. AskTyped'
        BY <1>0, <1>107, <2>1 DEF Typed, AskTyped
      <3>. QED BY <3>1, <3>2 DEF Typed
    <2>4. QuietInv'
      BY <1>0, <1>107, <2>1 DEF QuietInv, Ahead!AsksInQuiet, Ahead!Live
    <2>5. WordsInv'
      BY <1>0, <1>107, <2>1 DEF WordsInv, Ahead!Live
    <2>6. CutInv'
      BY <1>0, <2>1 DEF CutInv
    <2>. QED BY <1>103, <1>105, <1>106, <1>107, <2>1, <2>3, <2>4, <2>5, <2>6
  <1>108. ASSUME NEW t \in SUBSET Drafts, Ahead!Asks(t, FALSE), t = agg_ahead \cup interim, ~speaking_ahead', ~over',
                 settle' => ~over',
                 UNCHANGED <<mode, preview, cut, req, bot_ahead, open_ahead, agg_ahead, interim>>
          PROVE  /\ hist' \in Ahead!Hists /\ heardCut' \in BOOLEAN /\ waiting' \subseteq WaitingCalls
                 /\ live' = Ahead!NoReply \/ live' \in Streams
                 /\ QuietInv' /\ WordsInv' /\ CutInv'
                 /\ mode # "peeks" => OpensOn(agg_ahead' \cup interim')
    <2>1. Ahead!Starts(t, FALSE, hist) /\ hist \in Ahead!Hists
      BY <1>0, <1>108 DEF Ahead!Asks, Typed, AskTyped
    <2>2. PICK h \in Ahead!Hists : h = hist
      BY <2>1
    <2>3. Ahead!Starts(t, FALSE, h) /\ h.reply = hist.reply
      BY <2>1, <2>2
    <2>. QED BY <1>0, <1>108, <2>3, AskKeeps
  <1>109. ASSUME UNCHANGED <<mode, live, waiting, hist, heardCut, preview, cut, req, bot_ahead, open_ahead, agg_ahead,
                             interim>>,
                 ~speaking_ahead', over' = over, settle' => ~over'
          PROVE  /\ hist' \in Ahead!Hists /\ heardCut' \in BOOLEAN /\ waiting' \subseteq WaitingCalls
                 /\ live' = Ahead!NoReply \/ live' \in Streams
                 /\ QuietInv' /\ WordsInv' /\ CutInv'
                 /\ mode # "peeks" => OpensOn(agg_ahead' \cup interim')
    BY <1>0, <1>102, <1>109 DEF Typed, TurnTyped, AskTyped, QuietInv, WordsInv, CutInv, Ahead!AsksInQuiet, Ahead!Live
  <1>110. agg_ahead \cup interim \in SUBSET Drafts
    BY <1>0 DEF Typed, TurnTyped, AskTyped
  <1>6. CASE Ahead!VadStops
    <2>1. /\ ~over /\ speaking_ahead /\ speaking_ahead' = FALSE /\ stops_ahead' = stops_ahead + 1
          /\ verdict' \in {"complete", "incomplete"} /\ unreported' \in BOOLEAN /\ settle' \in BOOLEAN
          /\ UNCHANGED <<mode, said_ahead, interim, agg_ahead, finalized_ahead, open_ahead, bot_ahead, decoded,
                         preview, cut, pending, req, adopted, missed, over>>
      BY <1>0, <1>6 DEF Ahead!VadStops, Typed, TurnTyped
    <2>2. stops_ahead' \in 0..MaxStops
      BY <1>0, <1>104, <2>1 DEF Typed, TurnTyped, QuietInv
    <2>3. /\ hist' \in Ahead!Hists /\ heardCut' \in BOOLEAN /\ waiting' \subseteq WaitingCalls
          /\ live' = Ahead!NoReply \/ live' \in Streams
          /\ QuietInv' /\ WordsInv' /\ CutInv'
          /\ mode # "peeks" => OpensOn(agg_ahead' \cup interim')
      <3>1. CASE interim = {} /\ Ahead!Asks(agg_ahead, FALSE)
        <4>1. PICK t \in SUBSET Drafts : t = agg_ahead
          BY <1>0 DEF Typed, TurnTyped
        <4>2. Ahead!Asks(t, FALSE) /\ t = agg_ahead \cup interim
          BY <3>1, <4>1
        <4>. QED BY <1>108, <2>1, <4>2
      <3>2. CASE UNCHANGED <<live, waiting, hist, heardCut>>
        BY <1>109, <2>1, <3>2
      <3>. QED BY <1>6, <3>1, <3>2 DEF Ahead!VadStops
    <2>4. Typed'
      <3>1. TurnTyped'
        BY <1>0, <2>1, <2>2 DEF Typed, TurnTyped
      <3>2. AskTyped'
        BY <1>0, <2>1, <2>3 DEF Typed, AskTyped
      <3>. QED BY <3>1, <3>2 DEF Typed
    <2>. QED BY <1>105, <1>106, <2>1, <2>3, <2>4
  <1>7. CASE Ahead!Decoded \/ Ahead!Settles
    <2>1. /\ decoded' \in BOOLEAN /\ settle' \in BOOLEAN /\ (settle' => ~over)
          /\ UNCHANGED <<mode, said_ahead, speaking_ahead, stops_ahead, verdict, interim, agg_ahead, finalized_ahead,
                         open_ahead, bot_ahead, unreported, preview, cut, pending, req, adopted, missed, over>>
      BY <1>0, <1>7 DEF Ahead!Decoded, Ahead!Settles, Typed, TurnTyped, QuietInv
    <2>2. /\ hist' \in Ahead!Hists /\ heardCut' \in BOOLEAN /\ waiting' \subseteq WaitingCalls
          /\ live' = Ahead!NoReply \/ live' \in Streams
          /\ QuietInv' /\ WordsInv' /\ CutInv'
          /\ mode # "peeks" => OpensOn(agg_ahead' \cup interim')
      <3>1. CASE Ahead!Quiet /\ Ahead!Asks(Ahead!candidate(interim), FALSE)
        <4>1. PICK t \in SUBSET Drafts : t = agg_ahead \cup interim
          BY <1>110
        <4>2. Ahead!Asks(t, FALSE) /\ ~speaking_ahead /\ ~over
          BY <1>0, <1>7, <3>1, <4>1 DEF Ahead!candidate, Ahead!Quiet, Ahead!Decoded, Ahead!Settles, QuietInv
        <4>. QED BY <1>108, <2>1, <4>1, <4>2
      <3>2. CASE UNCHANGED <<live, waiting, hist, heardCut>>
        <4>2. QuietInv'
          BY <1>0, <2>1, <3>2 DEF QuietInv, Ahead!AsksInQuiet, Ahead!Live
        <4>3. WordsInv' /\ CutInv'
          BY <1>0, <2>1, <3>2 DEF WordsInv, CutInv, Ahead!Live
        <4>. QED BY <1>0, <1>102, <3>2, <4>2, <4>3 DEF Typed, AskTyped
      <3>. QED BY <1>7, <3>1, <3>2 DEF Ahead!Decoded, Ahead!Settles
    <2>4. Typed'
      <3>1. TurnTyped'
        BY <1>0, <2>1 DEF Typed, TurnTyped
      <3>2. AskTyped'
        BY <1>0, <2>1, <2>2 DEF Typed, AskTyped
      <3>. QED BY <3>1, <3>2 DEF Typed
    <2>. QED BY <1>105, <1>106, <2>1, <2>2, <2>4
  <1>8. CASE Ahead!Preview
    <2>1. /\ ~over /\ mode = "peeks" /\ ~speaking_ahead /\ req = {}
          /\ UNCHANGED <<mode, speaking_ahead, stops_ahead, verdict, agg_ahead, finalized_ahead, open_ahead, bot_ahead,
                         decoded, unreported, settle, cut, pending, req, adopted, missed, over>>
      BY <1>8 DEF Ahead!Preview
    <2>2. said_ahead' \in 0..MaxDrafts /\ interim' \subseteq Drafts /\ preview' \subseteq Drafts
      <3>1. PICK more \in {0, 1} :
              /\ said_ahead + more <= MaxDrafts /\ said_ahead' = said_ahead + more
              /\ interim' = interim \cup ((said_ahead + 1)..said_ahead') /\ preview' = interim'
        BY <1>8 DEF Ahead!Preview
      <3>2. said_ahead' \in 0..MaxDrafts
        BY <1>0, <1>104, <3>1 DEF Typed, TurnTyped
      <3>3. (said_ahead + 1)..said_ahead' \subseteq Drafts
        BY <1>0, <1>104, <3>1 DEF Typed, TurnTyped
      <3>. QED BY <1>0, <3>1, <3>2, <3>3 DEF Typed, TurnTyped
    <2>3. /\ hist' \in Ahead!Hists /\ heardCut' \in BOOLEAN /\ waiting' \subseteq WaitingCalls
          /\ live' = Ahead!NoReply \/ live' \in Streams
          /\ hist'.reply = "whole" => heardCut' \/ cut = "behind"
          /\ cut = "sent" => heardCut' = heardCut
      <3>1. CASE Ahead!Asks(Ahead!candidate(preview'), TRUE)
        <4>1. PICK t \in SUBSET Drafts : t = agg_ahead \cup preview'
          BY <1>0, <2>2 DEF Typed, TurnTyped
        <4>2. PICK h \in Ahead!Hists : h = hist
          BY <1>0 DEF Typed, AskTyped
        <4>3. Ahead!Starts(t, TRUE, h) /\ (h.reply = "whole" => heardCut \/ cut = "behind")
          BY <1>101, <3>1, <4>1, <4>2 DEF Ahead!candidate, Ahead!Asks
        <4>4. TRUE \in BOOLEAN
          OBVIOUS
        <4>. QED BY <1>0, <4>3, <4>4, StartsSays
      <3>2. CASE UNCHANGED <<live, waiting, hist, heardCut>>
        BY <1>0, <1>101, <3>2 DEF Typed, AskTyped
      <3>. QED BY <1>8, <3>1, <3>2 DEF Ahead!Preview
    <2>4. Typed'
      <3>1. TurnTyped'
        BY <1>0, <2>1, <2>2 DEF Typed, TurnTyped
      <3>2. AskTyped'
        BY <1>0, <2>1, <2>3 DEF Typed, AskTyped
      <3>. QED BY <3>1, <3>2 DEF Typed
    <2>5. QuietInv'
      BY <1>0, <2>1 DEF QuietInv, Ahead!AsksInQuiet
    <2>6. WordsInv'
      BY <2>1 DEF WordsInv
    <2>7. CutInv'
      BY <1>0, <2>1, <2>3 DEF CutInv
    <2>. QED BY <1>105, <1>106, <2>1, <2>4, <2>5, <2>6, <2>7
  <1>9. ASSUME NEW w \in waiting, Ahead!Waited(w)
        PROVE  Typed' /\ QuietInv' /\ WordsInv' /\ CutInv' /\ (AheadStep \/ UNCHANGED Ahead!vars)
    <2>1. UNCHANGED <<mode, said_ahead, speaking_ahead, stops_ahead, verdict, interim, agg_ahead, finalized_ahead,
                      open_ahead, bot_ahead, decoded, unreported, preview, settle, cut, pending, req, adopted,
                      missed, over>>
      BY <1>9 DEF Ahead!Waited
    <2>2. /\ w \in WaitingCalls /\ w.text \in SUBSET Drafts
          /\ waiting \ {w} \in SUBSET WaitingCalls
      BY <1>0, <1>9 DEF Typed, AskTyped, WaitingCalls
    <2>3. CASE waiting' = waiting \ {w} /\ UNCHANGED <<live, hist, heardCut>>
      <3>1. Typed'
        <4>1. TurnTyped'
          BY <1>0, <2>1 DEF Typed, TurnTyped
        <4>2. AskTyped'
          BY <1>0, <2>1, <2>2, <2>3 DEF Typed, AskTyped
        <4>. QED BY <4>1, <4>2 DEF Typed
      <3>2. QuietInv'
        BY <1>0, <2>1, <2>3 DEF QuietInv, Ahead!AsksInQuiet, Ahead!Live
      <3>3. WordsInv'
        BY <1>0, <2>1, <2>3 DEF WordsInv, Ahead!Live
      <3>4. CutInv'
        BY <1>0, <2>1, <2>3 DEF CutInv
      <3>. QED BY <1>102, <1>105, <1>106, <2>1, <2>3, <3>1, <3>2, <3>3, <3>4
    <2>4. CASE cut # "sent" /\ Ahead!GoesAhead(w) /\ Ahead!Opened(w.text, hist, waiting \ {w})
      <3>1. PICK t \in SUBSET Drafts, ws \in SUBSET WaitingCalls, h \in Ahead!Hists :
              t = w.text /\ ws = waiting \ {w} /\ h = hist
        BY <1>0, <2>2 DEF Typed, AskTyped
      <3>2. Ahead!Opened(t, h, ws) /\ (h.reply = "whole" => heardCut \/ cut = "behind")
        BY <1>101, <2>4, <3>1
      <3>3. /\ hist' \in Ahead!Hists /\ (hist'.reply = "whole" => cut = "behind") /\ heardCut' = FALSE
            /\ live' \in Streams /\ live' # Ahead!NoReply /\ OpensOn(t)
            /\ \/ live' = live /\ Ahead!Live /\ waiting' = ws
               \/ waiting' = Ahead!Stale(ws)
        BY <1>0, <3>2, OpenedSays
      <3>4. ~w.stale /\ ~speaking_ahead /\ ~over
        BY <1>0, <2>4 DEF Ahead!GoesAhead, QuietInv
      <3>5. mode # "peeks" => /\ open_ahead /\ t = agg_ahead \cup interim /\ ~Ahead!Live
        BY <1>0, <2>4, <3>1, <3>4 DEF WordsInv, Ahead!GoesAhead
      <3>6. /\ waiting' \subseteq WaitingCalls
            /\ \A v \in waiting' : \E x \in waiting : x.ahead = v.ahead
            /\ mode # "peeks" => \A v \in waiting' : v.stale
        BY <3>1, <3>3, <3>5, StaleIsStale
      <3>7. Typed'
        <4>1. TurnTyped'
          BY <1>0, <2>1 DEF Typed, TurnTyped
        <4>2. AskTyped'
          BY <1>0, <2>1, <3>3, <3>6 DEF Typed, AskTyped
        <4>. QED BY <4>1, <4>2 DEF Typed
      <3>8. QuietInv'
        BY <1>0, <2>1, <3>4 DEF QuietInv, Ahead!AsksInQuiet
      <3>9. WordsInv'
        BY <1>0, <2>1, <2>4, <3>6 DEF WordsInv
      <3>10. CutInv'
        BY <1>0, <2>1, <2>4, <3>3 DEF CutInv
      <3>11. mode # "peeks" => OpensOn(agg_ahead' \cup interim')
        BY <2>1, <3>3, <3>5
      <3>. QED BY <1>105, <1>106, <2>1, <3>7, <3>8, <3>9, <3>10, <3>11
    <2>. QED BY <1>9, <2>3, <2>4 DEF Ahead!Waited, Ahead!Fenced
  <1>10. CASE Ahead!StreamEnds
    <2>1. /\ Ahead!Live /\ \E how \in {"failed", "empty"} : live' = [live EXCEPT !.st = how]
          /\ UNCHANGED <<mode, said_ahead, speaking_ahead, stops_ahead, verdict, interim, agg_ahead, finalized_ahead,
                         open_ahead, bot_ahead, decoded, unreported, preview, settle, cut, heardCut, hist, pending,
                         waiting, req, adopted, missed, over>>
      BY <1>10 DEF Ahead!StreamEnds
    <2>2. live' \in Streams /\ live'.st # "open"
      <3>1. live \in Streams
        BY <1>0, <2>1 DEF Typed, AskTyped, Ahead!Live
      <3>2. \A x \in Streams, how \in {"failed", "empty"} :
              [x EXCEPT !.st = how] \in Streams /\ [x EXCEPT !.st = how].st = how
        BY DEF Streams
      <3>. QED BY <2>1, <3>1, <3>2
    <2>3. Typed'
      <3>1. TurnTyped'
        BY <1>0, <2>1 DEF Typed, TurnTyped
      <3>2. AskTyped'
        BY <1>0, <2>1, <2>2 DEF Typed, AskTyped
      <3>. QED BY <3>1, <3>2 DEF Typed
    <2>4. QuietInv'
      BY <1>0, <2>1 DEF QuietInv, Ahead!AsksInQuiet
    <2>5. WordsInv'
      BY <1>0, <2>1 DEF WordsInv
    <2>6. CutInv'
      BY <1>0, <2>1 DEF CutInv
    <2>7. OpensOn(agg_ahead' \cup interim')
      BY <2>2 DEF OpensOn
    <2>. QED BY <1>105, <1>106, <2>1, <2>3, <2>4, <2>5, <2>6, <2>7
  <1>11. CASE Ahead!BotStops \/ Ahead!CutLands \/ Ahead!Writes
    <2>1. /\ UNCHANGED <<mode, said_ahead, speaking_ahead, stops_ahead, verdict, interim, agg_ahead, finalized_ahead,
                         open_ahead, decoded, unreported, preview, settle, heardCut,
                         waiting, live, req, adopted, missed, over>>
          /\ bot_ahead' = bot_ahead \/ bot_ahead' = FALSE
          /\ cut' = cut \/ (cut = "sent" /\ cut' = "landed") \/ (cut = "late" /\ cut' = "behind")
      BY <1>11 DEF Ahead!BotStops, Ahead!CutLands, Ahead!Writes
    <2>2. hist' \in Ahead!Hists /\ pending' \in 0..MaxWrites
          /\ (hist'.reply = "whole" => hist.reply = "whole" \/ cut = "sent" \/ cut' = "behind")
      <3>1. CASE Ahead!BotStops
        BY <1>0, <3>1 DEF Ahead!BotStops, Typed, AskTyped
      <3>2. CASE Ahead!CutLands
        <4>1. \A x \in Ahead!Hists : [x EXCEPT !.reply = "whole"] \in Ahead!Hists
          BY DEF Ahead!Hists
        <4>. QED BY <1>0, <3>2, <4>1 DEF Ahead!CutLands, Typed, AskTyped
      <3>3. CASE Ahead!Writes
        <4>1. \A x \in Ahead!Hists, n \in 0..MaxWrites :
                [x EXCEPT !.writes = n] \in Ahead!Hists /\ [x EXCEPT !.writes = n].reply = x.reply
          BY DEF Ahead!Hists
        <4>2. hist.writes \in 0..MaxWrites /\ pending \in 0..MaxWrites /\ hist.writes + pending < MaxWrites
              /\ hist \in Ahead!Hists
          BY <1>0, <3>3 DEF Ahead!Writes, Typed, AskTyped, Ahead!Hists
        <4>3. hist.writes + 1 \in 0..MaxWrites /\ pending + 1 \in 0..MaxWrites
          BY <1>104, <4>2
        <4>4. \/ hist' = [hist EXCEPT !.writes = hist.writes + 1] /\ pending' = pending
              \/ pending' = pending + 1 /\ hist' = hist
          BY <3>3 DEF Ahead!Writes
        <4>. QED BY <4>1, <4>2, <4>3, <4>4
      <3>. QED BY <1>11, <3>1, <3>2, <3>3
    <2>3. Typed'
      <3>1. TurnTyped'
        BY <1>0, <2>1 DEF Typed, TurnTyped
      <3>2. AskTyped'
        BY <1>0, <2>1, <2>2 DEF Typed, AskTyped
      <3>. QED BY <3>1, <3>2 DEF Typed
    <2>4. QuietInv'
      BY <1>0, <2>1 DEF QuietInv, Ahead!AsksInQuiet, Ahead!Live
    <2>5. WordsInv'
      BY <1>0, <2>1 DEF WordsInv, Ahead!Live
    <2>6. CutInv'
      BY <1>0, <2>1, <2>2 DEF CutInv
    <2>. QED BY <1>102, <1>105, <1>106, <2>1, <2>3, <2>4, <2>5, <2>6
  <1>12. CASE Ahead!Commits
    <2>1. /\ open_ahead /\ cut # "sent" /\ req' = agg_ahead /\ agg_ahead' = {} /\ finalized_ahead' = FALSE
          /\ open_ahead' = FALSE /\ settle' = FALSE /\ verdict' = "none"
          /\ UNCHANGED <<mode, said_ahead, speaking_ahead, stops_ahead, interim, bot_ahead, decoded, unreported,
                         preview, cut, heardCut, hist, pending, waiting, live, adopted, missed, over>>
      BY <1>12 DEF Ahead!Commits, Ahead!Closes, Ahead!Fenced
    <2>2. ~Ahead!Requests
      BY <1>12 DEF Ahead!Requests, Ahead!Commits, Ahead!Closes
    <2>3. Typed'
      <3>1. TurnTyped'
        BY <1>0, <2>1 DEF Typed, TurnTyped
      <3>2. AskTyped'
        BY <1>0, <2>1 DEF Typed, TurnTyped, AskTyped
      <3>. QED BY <3>1, <3>2 DEF Typed
    <2>4. QuietInv'
      BY <1>0, <2>1 DEF QuietInv, Ahead!AsksInQuiet, Ahead!Live
    <2>5. WordsInv'
      BY <1>0, <2>1 DEF WordsInv, Ahead!Live
    <2>6. CutInv'
      BY <1>0, <2>1 DEF CutInv
    <2>. QED BY <1>102, <1>105, <2>1, <2>2, <2>3, <2>4, <2>5, <2>6
  <1>13. CASE Ahead!Requests
    <2>1. PICK h : h = Ahead!Reconciled(hist)
      OBVIOUS
    <2>2. /\ h \in Ahead!Hists /\ (h.reply = "whole" => cut = "behind")
      BY <1>0, <1>101, <2>1, Corrected DEF Typed, AskTyped
    <2>3. /\ heardCut' = FALSE /\ live' = Ahead!NoReply /\ req' = {}
          /\ hist' = [h EXCEPT !.said = @ \cup req]
          /\ adopted' \in {"hit", "miss"} /\ (adopted' = "hit" => live.hist = h)
          /\ missed' \in {"none", "words", "context", "stream"}
          /\ UNCHANGED <<mode, said_ahead, speaking_ahead, stops_ahead, verdict, interim, agg_ahead, finalized_ahead,
                         open_ahead, bot_ahead, decoded, unreported, preview, settle, cut, pending, waiting, over>>
      BY <1>13, <2>1 DEF Ahead!Requests, Ahead!SameAsk
    <2>4. hist' \in Ahead!Hists /\ hist'.reply = h.reply
      <3>1. \A x \in Ahead!Hists, d \in SUBSET Drafts :
              [x EXCEPT !.said = @ \cup d] \in Ahead!Hists /\ [x EXCEPT !.said = @ \cup d].reply = x.reply
        BY DEF Ahead!Hists, Drafts
      <3>. QED BY <1>0, <2>2, <2>3, <3>1 DEF Typed, AskTyped
    <2>5. Typed'
      <3>1. TurnTyped'
        BY <1>0, <2>3 DEF Typed, TurnTyped
      <3>2. AskTyped'
        BY <1>0, <2>3, <2>4 DEF Typed, AskTyped
      <3>. QED BY <3>1, <3>2 DEF Typed
    <2>6. QuietInv'
      BY <1>0, <2>3 DEF QuietInv, Ahead!AsksInQuiet, Ahead!Live
    <2>7. WordsInv'
      BY <1>0, <2>3 DEF WordsInv, Ahead!Live
    <2>8. CutInv'
      BY <1>0, <1>13, <2>2, <2>3, <2>4 DEF CutInv, Ahead!Requests
    <2>9. AheadStep
      BY <1>103, <2>2, <2>3, <2>4 DEF AheadStep, Ahead!InOrder
    <2>. QED BY <2>5, <2>6, <2>7, <2>8, <2>9
  <1>14. CASE Ahead!RunsOfOurs
    <2>1. /\ hist' = [hist EXCEPT !.writes = hist.writes + 1] /\ hist.writes + pending < MaxWrites
          /\ Ahead!cancel \/ UNCHANGED <<live, waiting>>
          /\ UNCHANGED <<mode, said_ahead, speaking_ahead, stops_ahead, verdict, interim, agg_ahead, finalized_ahead,
                         open_ahead, bot_ahead, decoded, unreported, preview, settle, cut, heardCut, pending, req,
                         adopted, missed, over>>
      BY <1>14 DEF Ahead!RunsOfOurs, Ahead!stand_down_ownerless
    <2>2. hist' \in Ahead!Hists /\ hist'.reply = hist.reply
      <3>1. \A x \in Ahead!Hists, n \in 0..MaxWrites :
              [x EXCEPT !.writes = n] \in Ahead!Hists /\ [x EXCEPT !.writes = n].reply = x.reply
        BY DEF Ahead!Hists
      <3>2. hist.writes \in 0..MaxWrites /\ pending \in 0..MaxWrites /\ hist \in Ahead!Hists
        BY <1>0 DEF Typed, AskTyped, Ahead!Hists
      <3>3. hist.writes + 1 \in 0..MaxWrites
        BY <1>104, <2>1, <3>2
      <3>. QED BY <2>1, <3>1, <3>2, <3>3
    <2>3. /\ live' = Ahead!NoReply \/ live' = live
          /\ waiting' \subseteq WaitingCalls
          /\ \/ \A w \in waiting' : w.stale /\ \E v \in waiting : v.ahead = w.ahead
             \/ UNCHANGED <<live, waiting>>
      BY <1>0, <1>107, <2>1 DEF Typed, AskTyped
    <2>4. Typed'
      <3>1. TurnTyped'
        BY <1>0, <2>1 DEF Typed, TurnTyped
      <3>2. AskTyped'
        BY <1>0, <2>1, <2>2, <2>3 DEF Typed, AskTyped
      <3>. QED BY <3>1, <3>2 DEF Typed
    <2>5. QuietInv'
      BY <1>0, <2>1, <2>3 DEF QuietInv, Ahead!AsksInQuiet, Ahead!Live
    <2>6. WordsInv'
      BY <1>0, <2>1, <2>3 DEF WordsInv, Ahead!Live
    <2>7. CutInv'
      BY <1>0, <2>1, <2>2 DEF CutInv
    <2>. QED BY <1>102, <1>103, <1>105, <1>106, <2>1, <2>3, <2>4, <2>5, <2>6, <2>7
  <1>15. CASE Ahead!Ends
    <2>1. /\ ~over /\ over' = TRUE /\ settle' = FALSE /\ Ahead!cancel
          /\ UNCHANGED <<mode, said_ahead, speaking_ahead, stops_ahead, verdict, interim, agg_ahead, finalized_ahead,
                         open_ahead, bot_ahead, decoded, unreported, preview, cut, heardCut, hist, pending, req,
                         adopted, missed>>
      BY <1>15 DEF Ahead!Ends
    <2>3. Typed'
      <3>1. TurnTyped'
        BY <1>0, <2>1 DEF Typed, TurnTyped
      <3>2. AskTyped'
        BY <1>0, <1>107, <2>1 DEF Typed, AskTyped
      <3>. QED BY <3>1, <3>2 DEF Typed
    <2>4. QuietInv'
      BY <1>0, <1>107, <2>1 DEF QuietInv, Ahead!AsksInQuiet, Ahead!Live
    <2>5. WordsInv'
      BY <1>0, <1>107, <2>1 DEF WordsInv, Ahead!Live
    <2>6. CutInv'
      BY <1>0, <2>1 DEF CutInv
    <2>. QED BY <1>103, <1>105, <1>106, <1>107, <2>1, <2>3, <2>4, <2>5, <2>6
  <1>16. CASE UNCHANGED Ahead!vars
    <2>1. UNCHANGED <<mode, said_ahead, speaking_ahead, stops_ahead, verdict, interim, agg_ahead, finalized_ahead,
                      open_ahead, bot_ahead, decoded, unreported, preview, settle, cut, heardCut, hist, pending,
                      waiting, live, req, adopted, missed, over>>
      BY <1>16 DEF Ahead!vars
    <2>2. Typed'
      <3>1. TurnTyped'
        BY <1>0, <2>1 DEF Typed, TurnTyped
      <3>2. AskTyped'
        BY <1>0, <2>1 DEF Typed, AskTyped
      <3>. QED BY <3>1, <3>2 DEF Typed
    <2>3. QuietInv' /\ WordsInv' /\ CutInv'
      BY <1>0, <2>1 DEF QuietInv, WordsInv, CutInv, Ahead!AsksInQuiet, Ahead!Live
    <2>. QED BY <1>16, <2>2, <2>3
  <1>17. CASE Ahead!Over
    BY <1>16, <1>17 DEF Ahead!Over
  <1>18. CASE Ahead!WaitRunsOut
    <2>1. /\ cut = "sent" /\ cut' = "late" /\ waiting' = {}
          /\ UNCHANGED <<mode, said_ahead, speaking_ahead, stops_ahead, verdict, interim, agg_ahead, finalized_ahead,
                         open_ahead, bot_ahead, decoded, unreported, preview, settle, heardCut, hist, pending,
                         live, req, adopted, missed, over>>
      BY <1>18 DEF Ahead!WaitRunsOut, Ahead!Fenced
    <2>2. Typed'
      <3>1. TurnTyped'
        BY <1>0, <2>1 DEF Typed, TurnTyped
      <3>2. AskTyped'
        BY <1>0, <2>1 DEF Typed, AskTyped
      <3>. QED BY <3>1, <3>2 DEF Typed
    <2>3. QuietInv' /\ WordsInv' /\ CutInv'
      BY <1>0, <2>1 DEF QuietInv, WordsInv, CutInv, Ahead!AsksInQuiet, Ahead!Live
    <2>. QED BY <1>102, <1>105, <1>106, <2>1, <2>2, <2>3
  <1>. QED
    BY <1>1, <1>2, <1>3, <1>4, <1>5, <1>6, <1>7, <1>8, <1>9, <1>10, <1>11, <1>12, <1>13, <1>14, <1>15, <1>16, <1>17,
       <1>18
       DEF Ahead!Next

LEMMA AheadAlone == [Next]_vars => [Ahead!Next]_Ahead!vars
BY DEF Next, PauseGoes, TurnGoes, AheadGoes, ControlGoes, VoiceGoes, MicGoes, pauseOnly,
   turnOnly, controlOnly, voiceOnly, micOnly, vars, aheadVars, Ahead!vars, Ahead!sttVars,
   Ahead!textVars, Ahead!stopVars, Ahead!ctxVars, Ahead!specVars, Ahead!endVars

LEMMA AheadStarts == ASSUME DraftBounds PROVE Ahead!Init => AheadInv
  <1>1. SUFFICES ASSUME Ahead!Init PROVE Typed /\ QuietInv /\ WordsInv /\ CutInv
    BY TypedIs DEF AheadInv
  <1>2. 0 \in 0..MaxDrafts /\ 0 \in 0..MaxStops /\ 0 \in 0..MaxWrites
    BY DEF DraftBounds
  <1>3. hist \in Ahead!Hists /\ hist.reply = "none"
    BY <1>1, <1>2 DEF Ahead!Init, Ahead!Hists
  <1>4. TurnTyped
    BY <1>1, <1>2 DEF Ahead!Init, TurnTyped
  <1>5. AskTyped
    BY <1>1, <1>2, <1>3 DEF Ahead!Init, AskTyped
  <1>6. QuietInv /\ WordsInv /\ CutInv
    BY <1>1, <1>3 DEF Ahead!Init, QuietInv, WordsInv, CutInv, Ahead!AsksInQuiet, Ahead!Live
  <1>. QED BY <1>4, <1>5, <1>6 DEF Typed

(* A request ahead of the turn runs only while the caller is quiet and the   *)
(* session lasts, is opened on the words the turn would commit now, is the   *)
(* answer only to the very conversation it was asked on, and no reply that   *)
(* was cut is read as if it had been heard whole where no wait for the cut   *)
(* ran out (speculate.py, endpointing.py).                                   *)
THEOREM AheadStaysAsAsked ==
  ASSUME MaxDrafts \in Nat, MaxStops \in Nat, MaxWrites \in Nat
  PROVE  Spec => AheadIsAsAsked
  <1>0. DraftBounds
    BY DEF DraftBounds
  <1>1. Init => AheadInv
    BY <1>0, AheadStarts, EachStarts
  <1>2. AheadInv /\ [Next]_vars => AheadInv'
    BY <1>0, AheadKeeps, AheadAlone
  <1>3. AheadInv => Ahead!AsksInQuiet
    BY DEF AheadInv, QuietInv
  <1>4. AheadInv /\ [Next]_vars => [AheadStep]_Ahead!vars
    BY <1>0, AheadKeeps, AheadAlone
  <1>5. [AheadStep]_Ahead!vars =>
          /\ [live' # live /\ live' # Ahead!NoReply /\ live'.st = "open" /\ mode # "peeks"
                => live'.text = agg_ahead' \cup interim']_Ahead!vars
          /\ [Ahead!Requests /\ adopted' = "hit"
                => hist' = [live.hist EXCEPT !.said = @ \cup req]
                   /\ (Ahead!InOrder => hist'.reply # "whole")]_Ahead!vars
          /\ [Ahead!Requests /\ Ahead!InOrder => hist'.reply # "whole"]_Ahead!vars
    BY DEF AheadStep, OpensOn
  <1>. QED BY <1>1, <1>2, <1>3, <1>4, <1>5, PTL
       DEF Spec, AheadIsAsAsked, Ahead!AsksTheWords, Ahead!AdoptedAsAsked, Ahead!CutIsHeard

-----------------------------------------------------------------------------
(* The room bridge, for any number of dials, faults and others: the box.    *)

(* Of the parts that listen, the bridge goes its own way. *)
LEMMA RoomAlone == [Next]_vars => [Room!Next]_Room!vars
BY DEF Next, PauseGoes, TurnGoes, AheadGoes, ControlGoes, VoiceGoes, MicGoes, pauseOnly,
   turnOnly, aheadOnly, controlOnly, voiceOnly, vars, micVars, Room!vars, Room!bridgeVars,
   Room!sessionVars, Room!brainVars, Room!worldVars, Room!pastVars

(* While a Talk client has the box that we lost to them, the next dial      *)
(* waits; a bridge that starts looks for them first. A bridge in a session  *)
(* has dialled one.                                                         *)
BridgeInv ==
  /\ dials \in Nat
  /\ at = "session" => dials # 0
  /\ theirs => other = "talk" /\ (backoff \/ at = "start")

\* No step dials over a client who took the box, and none forgets them.
LEMMA BridgeKeeps ==
  ASSUME BridgeInv, [Room!Next]_Room!vars
  PROVE  BridgeInv' /\ (dials' > dials => ~theirs)
  <1>. USE DEF BridgeInv, Room!bridgeVars, Room!sessionVars, Room!brainVars, Room!worldVars, Room!pastVars
  <1>1. CASE Room!Starts
    <2>1. at' = "opening" /\ UNCHANGED <<dials, other>>
      BY <1>1 DEF Room!Starts
    <2>2. (theirs' => other = "talk") /\ (other = "talk" => backoff')
      BY <1>1, Zenon DEF Room!Starts
    <2>. QED BY <2>1, <2>2
  <1>2. CASE Room!Opens
    BY <1>2 DEF Room!Opens
  <1>3. CASE Room!BackoffOver
    BY <1>3 DEF Room!BackoffOver
  <1>4. CASE Room!Dial
    BY <1>4 DEF Room!Dial, Room!MayDial, Room!Dials_, Room!DialFails
  <1>5. CASE Room!Waited
    BY <1>5 DEF Room!Waited
  <1>6. CASE Room!Ended
    <2>1. PICK why \in Room!Reasons : Room!After(why) /\ theirs' = (why \in {"taken", "busy"} /\ other = "talk")
      BY <1>6 DEF Room!Ended
    <2>2. UNCHANGED <<dials, other>> /\ at = "session"
      BY <1>6 DEF Room!Ended
    <2>3. theirs' => other = "talk" /\ backoff'
      BY <2>1, Zenon DEF Room!After, Room!LosesBox
    <2>. QED BY <2>1, <2>2, <2>3
  <1>7. CASE Room!Arms \/ Room!Busies
    <2>1. UNCHANGED <<dials, other, backoff, at, theirs>>
      BY <1>7 DEF Room!Arms, Room!Busies
    <2>. QED BY <2>1
  <1>8. ASSUME NEW n \in Room!Dials, Room!Builds(n) \/ Room!Refuses(n) \/ Room!Granted(n)
        PROVE  BridgeInv' /\ dials' = dials
    BY <1>8 DEF Room!Builds, Room!Refuses, Room!Granted
  <1>9. ASSUME NEW n \in Room!Dials, Room!Wakes(n) \/ Room!Fails(n) \/ Room!Over_(n)
        PROVE  BridgeInv' /\ dials' = dials
    BY <1>9 DEF Room!Wakes, Room!Fails, Room!Over_
  <1>10. CASE Room!OtherComes("talk") \/ Room!OtherComes("call")
    BY <1>10 DEF Room!OtherComes
  <1>11. CASE Room!OtherLeaves
    BY <1>11 DEF Room!OtherLeaves
  <1>12. CASE Room!CardFails
    BY <1>12 DEF Room!CardFails
  <1>13. CASE Room!CardReturns \/ Room!BrainReturns
    BY <1>13 DEF Room!CardReturns, Room!BrainReturns
  <1>14. CASE Room!BridgeDies
    BY <1>14 DEF Room!BridgeDies
  <1>15. CASE Room!BrainDies
    BY <1>15 DEF Room!BrainDies
  <1>16. CASE UNCHANGED Room!vars
    BY <1>16 DEF Room!vars
  <1>. QED
    BY <1>1, <1>2, <1>3, <1>4, <1>5, <1>6, <1>7, <1>8, <1>9, <1>10, <1>11, <1>12, <1>13, <1>14,
       <1>15, <1>16 DEF Room!Next, Room!Spent

(* A Talk client who took the box is not dialled over while they have it,   *)
(* through card failures and restarts of the bridge.                        *)
THEOREM NobodyIsDialledOver == Spec => TakenIsTheirs
  <1>1. Init => BridgeInv
    BY DEF Init, Room!Init, BridgeInv
  <1>2. BridgeInv /\ [Next]_vars => BridgeInv' /\ [dials' > dials => ~theirs]_Room!vars
    BY BridgeKeeps, RoomAlone
  <1>. QED BY <1>1, <1>2, PTL DEF Spec, TakenIsTheirs, Room!TakenIsTheirs

-----------------------------------------------------------------------------
(* The room bridge: the conversation.                                       *)

Session == [at: {"none", "asks", "built", "runs", "ends", "over"}, awake: BOOLEAN,
            asleep: BOOLEAN, woke: BOOLEAN, conv: 0..MaxDials, hung: BOOLEAN]

BrainType ==
  /\ brain \in [Room!Dials -> Session] /\ dials \in 0..MaxDials /\ store \in 0..MaxDials
  /\ left \subseteq Room!Dials /\ gone \subseteq left
  /\ cl \in [gated: BOOLEAN, awake: BOOLEAN, armed: {"no", "restart", "sleep"}, bye: BOOLEAN, busy: BOOLEAN]

(* Of n nothing can have been said yet.                                     *)
Unsaid(n) == brain[n].at \in {"none", "asks", "built"} \/ brain[n].asleep
(* n has the slot.                                                          *)
Holds(n) == brain[n].at \in {"runs", "ends"}

(* A session that is still to be dialled is none; what nothing was said in  *)
(* was not left, is not kept and is nobody else's conversation.             *)
DialInv ==
  \A n \in Room!Dials :
    /\ n > dials => brain[n] = Room!NoSession
    /\ brain[n].at # "none" => brain[n].conv \in Room!Dials
    /\ brain[n].at \in {"asks", "built"} => brain[n].conv = n
    /\ brain[n].awake => brain[n].woke
    /\ brain[n].woke => ~brain[n].asleep
    /\ Unsaid(n) => /\ n \notin left /\ store # n
                    /\ \A m \in Room!Dials : brain[m].conv = n => m = n

(* The model arms an end only of a session that it talks in.                *)
ArmedInv == cl.armed # "no" => dials \in Room!Dials /\ ~Unsaid(dials)

(* One session at a time has the slot.                                      *)
OneHolds == \A m, n \in Room!Dials : Holds(m) /\ Holds(n) => m = n

(* A conversation left may be the one kept only while the fresh one is in   *)
(* the slot, which will be kept in its place.                               *)
RoomFreshInv ==
  /\ \A n \in Room!Dials : Holds(n) /\ ~brain[n].asleep => brain[n].conv \notin gone
  /\ ~wake_mode => store = 0 /\ \A n \in Room!Dials : ~brain[n].asleep
  /\ store \in gone => \E n \in Room!Dials : Holds(n) /\ brain[n].woke

ConvInv == BrainType /\ DialInv /\ OneHolds /\ RoomFreshInv
(* The next dial is awake or not, and the room has wake words or not.       *)
FlagsInv == wake_mode \in BOOLEAN /\ restart \in BOOLEAN

RoomInv == ConvInv /\ ArmedInv

\* A session's record, moved on.
LEMMA MovedOn ==
  ASSUME NEW x \in Session, NEW a \in {"none", "asks", "built", "runs", "ends", "over"},
         NEW y, y = [x EXCEPT !.at = a]
  PROVE  /\ y \in Session /\ y.at = a /\ y.awake = x.awake /\ y.asleep = x.asleep
         /\ y.woke = x.woke /\ y.conv = x.conv
  BY DEF Session

\* A session's record, hung up.
LEMMA HungNow ==
  ASSUME NEW x \in Session, NEW y, y = [x EXCEPT !.hung = TRUE]
  PROVE  /\ y \in Session /\ y.at = x.at /\ y.awake = x.awake /\ y.asleep = x.asleep
         /\ y.woke = x.woke /\ y.conv = x.conv
  <1>1. [x EXCEPT !.hung = TRUE] \in Session
    BY DEF Session
  <1>. QED BY <1>1 DEF Session

(* What goes on in a session that says nothing new.                         *)
Same(n) == /\ brain'[n].awake = brain[n].awake /\ brain'[n].asleep = brain[n].asleep
           /\ brain'[n].woke = brain[n].woke /\ brain'[n].conv = brain[n].conv
           /\ n > dials => brain'[n] = brain[n]
           /\ brain'[n].at = "none" <=> brain[n].at = "none"
           /\ brain'[n].at \in {"asks", "built"} => brain[n].at \in {"asks", "built"}

\* As long as nothing new is said, nothing unsaid comes up elsewhere.
LEMMA DialKeeps ==
  ASSUME BrainType, DialInv, BrainType', \A n \in Room!Dials : Same(n), UNCHANGED dials,
         \A n \in left' : n \in left \/ \E m \in Room!Dials : n = brain[m].conv /\ ~Unsaid(m),
         store' \in {0, store} \/ \E m \in Room!Dials : store' = brain[m].conv /\ ~Unsaid(m)
  PROVE  DialInv' /\ \A n \in Room!Dials : Unsaid(n)' => Unsaid(n)
  <1>1. ASSUME NEW n \in Room!Dials, Unsaid(n)' PROVE Unsaid(n)
    BY <1>1 DEF Unsaid, Same
  <1>2. ASSUME NEW n \in Room!Dials, Unsaid(n)'
        PROVE  /\ n \notin left' /\ store' # n
               /\ \A m \in Room!Dials : brain'[m].conv = n => m = n
    <2>1. /\ Unsaid(n) /\ n \notin left /\ store # n /\ n # 0
          /\ \A m \in Room!Dials : brain[m].conv = n => m = n
      BY <1>1, <1>2 DEF DialInv, Room!Dials
    <2>. QED BY <2>1 DEF Same
  <1>3. ASSUME NEW n \in Room!Dials
        PROVE  /\ n > dials' => brain'[n] = Room!NoSession
               /\ brain'[n].at # "none" => brain'[n].conv \in Room!Dials
               /\ brain'[n].at \in {"asks", "built"} => brain'[n].conv = n
               /\ brain'[n].awake => brain'[n].woke
               /\ brain'[n].woke => ~brain'[n].asleep
    <2>1. Same(n)
      OBVIOUS
    <2>2. n > dials => brain[n].at = "none"
      BY DEF DialInv, Room!NoSession
    <2>. QED BY <2>1, <2>2 DEF Same, DialInv
  <1>. QED BY <1>1, <1>2, <1>3 DEF DialInv

\* While the slot stays whose it is, so does what is kept.
LEMMA SlotKeeps ==
  ASSUME ConvInv, BrainType', \A n \in Room!Dials : Same(n) /\ (Holds(n)' <=> Holds(n)),
         UNCHANGED <<dials, gone, wake_mode>>, store' \in {0, store},
         \A n \in left' : n \in left \/ \E m \in Room!Dials : n = brain[m].conv /\ ~Unsaid(m)
  PROVE  ConvInv' /\ \A n \in Room!Dials : Unsaid(n)' => Unsaid(n)
  <1>1. DialInv' /\ \A n \in Room!Dials : Unsaid(n)' => Unsaid(n)
    BY DialKeeps DEF ConvInv
  <1>2. OneHolds'
    BY DEF ConvInv, OneHolds
  <1>3. 0 \notin gone
    BY DEF ConvInv, BrainType, Room!Dials
  <1>4. RoomFreshInv'
    BY <1>3 DEF ConvInv, RoomFreshInv, Same
  <1>. QED BY <1>1, <1>2, <1>4 DEF ConvInv

\* A session hung up, or none, changes nothing of it.
LEMMA HungUpKeeps ==
  ASSUME RoomInv, brain' = Room!HungUp \/ brain' = brain, UNCHANGED <<dials, gone, wake_mode, store>>,
         cl' = Room!Closed, left' = left \/ (left' = left \cup {brain[dials].conv} /\ cl.armed # "no")
  PROVE  RoomInv'
  <1>1. brain \in [Room!Dials -> Session] /\ BrainType
    BY DEF RoomInv, ConvInv, BrainType
  <1>2. ASSUME NEW n \in Room!Dials
        PROVE  /\ brain'[n] \in Session /\ brain'[n].at = brain[n].at
               /\ brain'[n].awake = brain[n].awake /\ brain'[n].asleep = brain[n].asleep
               /\ brain'[n].woke = brain[n].woke /\ brain'[n].conv = brain[n].conv
    <2>1. brain'[n] = brain[n] \/ brain'[n] = [brain[n] EXCEPT !.hung = TRUE]
      BY <1>1 DEF Room!HungUp
    <2>2. brain[n] \in Session
      BY <1>1
    <2>3. CASE brain'[n] = brain[n]
      BY <2>2, <2>3
    <2>4. CASE brain'[n] = [brain[n] EXCEPT !.hung = TRUE]
      BY <2>2, <2>4, HungNow
    <2>. QED BY <2>1, <2>3, <2>4
  <1>3. brain' \in [Room!Dials -> Session]
    BY <1>1, <1>2 DEF Room!HungUp
  <1>4. cl.armed # "no" => dials \in Room!Dials /\ ~Unsaid(dials) /\ brain[dials].conv \in Room!Dials
    BY DEF RoomInv, ArmedInv, ConvInv, DialInv, Unsaid
  <1>5. /\ left' \subseteq Room!Dials /\ gone' \subseteq left'
        /\ \A n \in left' : n \in left \/ \E m \in Room!Dials : n = brain[m].conv /\ ~Unsaid(m)
    BY <1>1, <1>4 DEF BrainType
  <1>6. BrainType'
    BY <1>1, <1>3, <1>5 DEF BrainType, Room!Closed
  <1>8. \A n \in Room!Dials : n > dials => brain'[n] = brain[n]
    <2>1. \A n \in Room!Dials : n # dials => Room!HungUp[n] = brain[n]
      BY <1>1 DEF Room!HungUp
    <2>2. \A n \in Room!Dials : n > dials => n # dials
      BY <1>1 DEF BrainType, Room!Dials
    <2>. QED BY <2>1, <2>2
  <1>. QED
    BY <1>2, <1>5, <1>6, <1>8, SlotKeeps DEF RoomInv, Same, Holds, ArmedInv, Room!Closed

\* Sessions that move on without taking the slot, or leaving it.
LEMMA MovesKeep ==
  ASSUME MaxDials \in Nat, RoomInv, NEW S \in SUBSET Room!Dials, NEW a \in {"built", "ends", "over"},
         brain' = [m \in Room!Dials |-> IF m \in S THEN [brain[m] EXCEPT !.at = a] ELSE brain[m]],
         \A m \in S : \/ a = "built" /\ brain[m].at = "asks"
                      \/ a = "ends" /\ brain[m].at = "runs"
                      \/ a = "over" /\ brain[m].at \in {"asks", "built"},
         UNCHANGED <<dials, gone, left, wake_mode>>, store' \in {0, store},
         cl' = cl \/ cl' = [cl EXCEPT !.gated = TRUE]
  PROVE  RoomInv'
  <1>1. BrainType /\ brain \in [Room!Dials -> Session]
    BY DEF RoomInv, ConvInv, BrainType
  <1>2. ASSUME NEW n \in Room!Dials
        PROVE  /\ brain'[n] \in Session /\ Same(n) /\ (Holds(n)' <=> Holds(n))
    <2>1. CASE n \in S
      <3>1. /\ brain'[n] \in Session /\ brain'[n].at = a
            /\ brain'[n].awake = brain[n].awake /\ brain'[n].asleep = brain[n].asleep
            /\ brain'[n].woke = brain[n].woke /\ brain'[n].conv = brain[n].conv
        BY <1>1, <2>1, MovedOn
      <3>2. ~(n > dials)
        BY <2>1 DEF RoomInv, ConvInv, DialInv, Room!NoSession
      <3>. QED BY <2>1, <3>1, <3>2 DEF Same, Holds
    <2>2. CASE n \notin S
      BY <1>1, <2>2 DEF Same, Holds
    <2>. QED BY <2>1, <2>2
  <1>3. brain' \in [Room!Dials -> Session]
    BY <1>2
  <1>4. cl'.armed = cl.armed
        /\ cl' \in [gated: BOOLEAN, awake: BOOLEAN, armed: {"no", "restart", "sleep"}, bye: BOOLEAN, busy: BOOLEAN]
    BY <1>1 DEF BrainType
  <1>5. 0 \in 0..MaxDials
    BY <1>1 DEF BrainType
  <1>6. BrainType'
    BY <1>1, <1>3, <1>4, <1>5 DEF BrainType
  <1>7. ConvInv' /\ \A n \in Room!Dials : Unsaid(n)' => Unsaid(n)
    BY <1>2, <1>6, SlotKeeps DEF RoomInv
  <1>. QED BY <1>4, <1>7 DEF RoomInv, ArmedInv

\* What does not touch the conversations.
LEMMA StillKeeps ==
  ASSUME RoomInv, UNCHANGED <<brain, dials, store, left, gone, wake_mode, cl>>
  PROVE  RoomInv'
  BY DEF RoomInv, ConvInv, BrainType, DialInv, OneHolds, RoomFreshInv, ArmedInv, Unsaid, Holds

\* A new session is nobody's yet.
LEMMA DialKeepsConv ==
  ASSUME MaxDials \in Nat, RoomInv, FlagsInv, Room!Dials_(restart), UNCHANGED <<left, gone, wake_mode>>
  PROVE  RoomInv'
  <1>. DEFINE d == dials + 1
              fresh == [at |-> "asks", awake |-> restart, asleep |-> wake_mode /\ ~restart,
                      woke |-> restart, conv |-> d, hung |-> FALSE]
  <1>1. BrainType /\ brain \in [Room!Dials -> Session] /\ d \in Room!Dials /\ dials' = d /\ d \in 0..MaxDials
    BY DEF RoomInv, ConvInv, BrainType, Room!Dials_, Room!Dials
  <1>2. fresh \in Session
    BY <1>1 DEF FlagsInv, Session
  <1>3. brain' = [brain EXCEPT ![d] = fresh] /\ UNCHANGED store
    BY DEF Room!Dials_
  <1>4. /\ fresh.at = "asks" /\ fresh.conv = d /\ (fresh.awake => fresh.woke) /\ (fresh.woke => ~fresh.asleep)
        /\ (~wake_mode => ~fresh.asleep)
    OBVIOUS
  <1>5. cl' \in [gated: BOOLEAN, awake: BOOLEAN, armed: {"no", "restart", "sleep"}, bye: BOOLEAN, busy: BOOLEAN]
        /\ cl'.armed = "no"
    BY DEF Room!Dials_, Room!Closed, FlagsInv
  <1>. HIDE DEF fresh
  <1>6. brain' \in [Room!Dials -> Session] /\ brain'[d] = fresh /\ \A n \in Room!Dials : n # d => brain'[n] = brain[n]
    BY <1>1, <1>2, <1>3
  <1>7. BrainType'
    BY <1>1, <1>3, <1>5, <1>6 DEF BrainType
  <1>8. brain[d].at = "none" /\ brain[d].conv = 0 /\ Unsaid(d) /\ ~Holds(d)
    <2>1. d > dials
      BY <1>1 DEF BrainType
    <2>2. brain[d] = Room!NoSession
      BY <1>1, <2>1 DEF RoomInv, ConvInv, DialInv
    <2>. QED BY <2>2 DEF Room!NoSession, Unsaid, Holds
  <1>9. DialInv
    BY DEF RoomInv, ConvInv
  <1>. HIDE DEF d
  <1>10. ASSUME NEW n \in Room!Dials, Unsaid(n)'
         PROVE  /\ n \notin left /\ store # n
                /\ \A m \in Room!Dials : brain'[m].conv = n => m = n
    <2>1. Unsaid(n)
      BY <1>6, <1>8, <1>10 DEF Unsaid
    <2>2. /\ n \notin left /\ store # n /\ \A m \in Room!Dials : brain[m].conv = n => m = n
      BY <1>9, <2>1 DEF DialInv
    <2>. QED BY <1>4, <1>6, <2>2
  <1>11. DialInv'
    <2>1. \A n \in Room!Dials : n > dials' => n > dials /\ n # d
      BY <1>1 DEF BrainType, d, Room!Dials
    <2>. QED BY <1>1, <1>3, <1>4, <1>6, <1>9, <1>10, <2>1 DEF DialInv
  <1>12. OneHolds' /\ RoomFreshInv'
    <2>1. \A n \in Room!Dials : Holds(n)' <=> Holds(n)
      BY <1>4, <1>6, <1>8 DEF Holds
    <2>2. \A n \in Room!Dials : Holds(n) => brain'[n] = brain[n]
      BY <1>6, <1>8
    <2>. QED BY <1>3, <1>4, <1>6, <2>1, <2>2 DEF RoomInv, ConvInv, OneHolds, RoomFreshInv
  <1>. QED BY <1>5, <1>7, <1>11, <1>12 DEF RoomInv, ConvInv, ArmedInv

\* The one that gets the slot is nobody's yet; what had been left by then is gone.
LEMMA GrantedKeeps ==
  ASSUME MaxDials \in Nat, RoomInv, NEW n \in Room!Dials, Room!Granted(n)
  PROVE  RoomInv'
  <1>1. /\ brain[n].at = "built"
        /\ UNCHANGED <<link, cl, dials, store, wake_mode, left>>
    BY DEF Room!Granted, Room!bridgeVars, Room!sessionVars
  <1>2. BrainType /\ brain \in [Room!Dials -> Session]
    BY DEF RoomInv, ConvInv, BrainType
  <1>3. CASE \E m \in Room!Dials \ {n} : Holds(m)
    <2>. DEFINE S == {m \in Room!Dials : m # n /\ brain[m].at = "runs"}
    <2>1. brain' = [m \in Room!Dials |-> IF m \in S THEN [brain[m] EXCEPT !.at = "ends"] ELSE brain[m]]
          /\ UNCHANGED gone
      BY <1>3 DEF Room!Granted, Holds
    <2>2. S \in SUBSET Room!Dials /\ \A m \in S : brain[m].at = "runs"
      OBVIOUS
    <2>. HIDE DEF S
    <2>. QED BY <1>1, <2>1, <2>2, MovesKeep
  <1>4. CASE ~ \E m \in Room!Dials \ {n} : Holds(m)
    <2>1. brain' = [brain EXCEPT ![n].at = "runs"] /\ gone' = IF brain[n].awake THEN left ELSE gone
      BY <1>4 DEF Room!Granted, Holds
    <2>2. brain'[n] = [brain[n] EXCEPT !.at = "runs"] /\ \A m \in Room!Dials : m # n => brain'[m] = brain[m]
      BY <1>2, <2>1
    <2>3. /\ brain'[n] \in Session /\ brain'[n].at = "runs"
          /\ brain'[n].awake = brain[n].awake /\ brain'[n].asleep = brain[n].asleep
          /\ brain'[n].woke = brain[n].woke /\ brain'[n].conv = brain[n].conv
      BY <1>2, <2>2, MovedOn
    <2>4. BrainType'
      <3>1. brain' \in [Room!Dials -> Session]
        BY <1>2, <2>1, <2>3
      <3>2. gone' \subseteq left'
        BY <1>1, <1>2, <2>1 DEF BrainType
      <3>. QED BY <1>1, <1>2, <3>1, <3>2 DEF BrainType
    <2>5. ~(n > dials) /\ brain[n].conv = n /\ Unsaid(n) /\ n \notin left
          /\ (brain[n].awake => brain[n].woke)
      BY <1>1 DEF RoomInv, ConvInv, DialInv, Room!NoSession, Unsaid
    <2>6. \A m \in Room!Dials : Same(m)
      BY <1>1, <2>2, <2>3, <2>5 DEF Same
    <2>7. DialInv' /\ \A m \in Room!Dials : Unsaid(m)' => Unsaid(m)
      BY <1>1, <1>2, <2>4, <2>6, DialKeeps DEF RoomInv, ConvInv
    <2>8. \A m \in Room!Dials : (Holds(m)' => m = n) /\ ~Holds(m)
      BY <1>1, <1>4, <2>2 DEF Holds
    <2>9. OneHolds'
      BY <2>8 DEF OneHolds
    <2>10. Holds(n)'
      BY <2>3 DEF Holds
    <2>11. n \notin gone' /\ (brain[n].awake \/ gone' = gone)
      BY <1>2, <2>1, <2>5 DEF BrainType
    <2>12. store' \in gone' => brain'[n].woke
      <3>1. store \notin gone
        BY <2>8 DEF RoomInv, ConvInv, RoomFreshInv
      <3>. QED BY <1>1, <2>3, <2>5, <2>11, <3>1
    <2>13. RoomFreshInv'
      BY <1>1, <2>3, <2>5, <2>6, <2>8, <2>10, <2>11, <2>12 DEF RoomFreshInv, Same, RoomInv, ConvInv
    <2>. QED BY <1>1, <2>4, <2>7, <2>9, <2>13 DEF RoomInv, ConvInv, ArmedInv
  <1>. QED BY <1>3, <1>4

\* Woken to a conversation: the one kept, which was not left, or its own.
LEMMA WakesKeeps ==
  ASSUME MaxDials \in Nat, RoomInv, NEW n \in Room!Dials, Room!Wakes(n)
  PROVE  RoomInv'
  <1>1. /\ brain[n].at = "runs" /\ brain[n].asleep
        /\ UNCHANGED <<dials, left, gone, wake_mode>>
        /\ cl' = cl \/ cl' = [cl EXCEPT !.awake = TRUE]
    BY DEF Room!Wakes, Room!bridgeVars, Room!pastVars
  <1>2. BrainType /\ brain \in [Room!Dials -> Session]
    BY DEF RoomInv, ConvInv, BrainType
  <1>3. PICK c \in {store, n} :
          /\ brain' = [brain EXCEPT ![n].asleep = FALSE, ![n].woke = TRUE, ![n].conv = c]
          /\ c = store => store # 0
          /\ store' \in {0, store}
    <2>1. PICK keeps \in BOOLEAN :
            /\ keeps => store # 0
            /\ brain' = [brain EXCEPT ![n].asleep = FALSE, ![n].woke = TRUE, ![n].conv = IF keeps THEN store ELSE n]
            /\ store' = IF keeps THEN store ELSE 0
      BY DEF Room!Wakes
    <2>2. n # 0
      BY DEF Room!Dials
    <2>3. CASE keeps
      BY <2>1, <2>3
    <2>4. CASE ~keeps
      BY <2>1, <2>2, <2>4
    <2>. QED BY <2>3, <2>4
  <1>4. /\ brain'[n] = [brain[n] EXCEPT !.asleep = FALSE, !.woke = TRUE, !.conv = c]
        /\ \A m \in Room!Dials : m # n => brain'[m] = brain[m]
    BY <1>2, <1>3
  <1>5. c \in Room!Dials
    BY <1>2, <1>3 DEF BrainType, Room!Dials
  <1>6. /\ brain'[n] \in Session /\ brain'[n].at = "runs" /\ ~brain'[n].asleep /\ brain'[n].woke
        /\ brain'[n].conv = c
    <2>1. c \in 0..MaxDials /\ brain[n] \in Session
      BY <1>2, <1>5 DEF Room!Dials
    <2>2. /\ brain'[n] \in Session /\ brain'[n].at = brain[n].at /\ ~brain'[n].asleep /\ brain'[n].woke
          /\ brain'[n].conv = c
      <3>. DEFINE x == brain[n]
                  y == brain'[n]
      <3>1. x \in Session /\ c \in 0..MaxDials /\ y = [x EXCEPT !.asleep = FALSE, !.woke = TRUE, !.conv = c]
        BY <1>4, <2>1
      <3>. HIDE DEF x, y
      <3>2. y \in Session /\ y.at = x.at /\ ~y.asleep /\ y.woke /\ y.conv = c
        <4>1. [x EXCEPT !.asleep = FALSE, !.woke = TRUE, !.conv = c] \in Session
          BY <3>1 DEF Session
        <4>. QED BY <3>1, <4>1 DEF Session
      <3>. QED BY <3>2 DEF x, y
    <2>. QED BY <1>1, <2>2
  <1>7. BrainType'
    <2>1. brain' \in [Room!Dials -> Session]
      BY <1>2, <1>3, <1>6
    <2>2. store' \in 0..MaxDials
      BY <1>2, <1>3 DEF BrainType
    <2>3. cl' \in [gated: BOOLEAN, awake: BOOLEAN, armed: {"no", "restart", "sleep"}, bye: BOOLEAN, busy: BOOLEAN]
      BY <1>1, <1>2 DEF BrainType
    <2>. QED BY <1>1, <1>2, <2>1, <2>2, <2>3 DEF BrainType
  <1>8. /\ DialInv /\ OneHolds /\ RoomFreshInv /\ Holds(n) /\ ~(n > dials) /\ ~brain[n].woke
        /\ n \notin left /\ store # n /\ \A m \in Room!Dials : brain[m].conv = n => m = n
    BY <1>1 DEF RoomInv, ConvInv, DialInv, Room!NoSession, Unsaid, Holds
  <1>9. ASSUME NEW m \in Room!Dials, Unsaid(m)'
        PROVE  /\ m # n /\ Unsaid(m) /\ m \notin left' /\ store' # m
               /\ \A k \in Room!Dials : brain'[k].conv = m => k = m
    <2>3. m # n
      BY <1>6, <1>9 DEF Unsaid
    <2>1. Unsaid(m) /\ m # 0
      BY <1>4, <1>9, <2>3 DEF Unsaid, Room!Dials
    <2>2. /\ m \notin left /\ store # m /\ \A k \in Room!Dials : brain[k].conv = m => k = m
      BY <1>8, <2>1 DEF DialInv
    <2>4. \A k \in Room!Dials : brain'[k].conv = m => k = m
      BY <1>3, <1>4, <1>6, <2>2, <2>3
    <2>. QED BY <1>1, <1>3, <2>1, <2>2, <2>3, <2>4
  <1>10. DialInv'
    <2>1. ASSUME NEW m \in Room!Dials
          PROVE  /\ m > dials' => brain'[m] = Room!NoSession
                 /\ brain'[m].at # "none" => brain'[m].conv \in Room!Dials
                 /\ brain'[m].at \in {"asks", "built"} => brain'[m].conv = m
                 /\ brain'[m].awake => brain'[m].woke
                 /\ brain'[m].woke => ~brain'[m].asleep
      <3>1. CASE m = n
        BY <1>1, <1>5, <1>6, <1>8, <3>1
      <3>2. CASE m # n
        BY <1>1, <1>4, <1>8, <3>2 DEF DialInv
      <3>. QED BY <3>1, <3>2
    <2>. QED BY <1>9, <2>1 DEF DialInv
  <1>11. \A m \in Room!Dials : Holds(m)' <=> Holds(m)
    BY <1>1, <1>4, <1>6 DEF Holds
  <1>12. store \notin gone /\ 0 \notin gone /\ c \notin gone
    <2>1. store \notin gone
      BY <1>8 DEF RoomFreshInv, OneHolds
    <2>. QED BY <1>2, <1>3, <1>8, <2>1 DEF BrainType, Room!Dials
  <1>13. wake_mode
    BY <1>1, <1>8 DEF RoomFreshInv
  <1>14. RoomFreshInv'
    <2>1. \A m \in Room!Dials : Holds(m)' /\ ~brain'[m].asleep => brain'[m].conv \notin gone'
      BY <1>1, <1>4, <1>6, <1>8, <1>11, <1>12 DEF RoomFreshInv
    <2>. QED BY <1>1, <1>3, <1>12, <1>13, <2>1 DEF RoomFreshInv
  <1>15. ArmedInv'
    <2>1. cl'.armed = cl.armed
      BY <1>1, <1>2 DEF BrainType
    <2>. QED BY <1>1, <1>9, <2>1 DEF RoomInv, ArmedInv
  <1>. QED BY <1>7, <1>8, <1>10, <1>11, <1>14, <1>15 DEF RoomInv, ConvInv, OneHolds

\* A session that is over is kept, if it was woken: then it was not left.
LEMMA OverKeeps ==
  ASSUME MaxDials \in Nat, RoomInv, NEW n \in Room!Dials, Room!Over_(n)
  PROVE  RoomInv'
  <1>1. /\ Holds(n) /\ brain' = [brain EXCEPT ![n].at = "over"]
        /\ store' = (IF Room!Keeps(n) THEN brain[n].conv ELSE store)
        /\ UNCHANGED <<cl, dials, left, gone, wake_mode>>
    BY DEF Room!Over_, Holds, Room!bridgeVars, Room!pastVars
  <1>2. BrainType /\ brain \in [Room!Dials -> Session] /\ DialInv /\ OneHolds /\ RoomFreshInv
    BY DEF RoomInv, ConvInv, BrainType
  <1>3. brain'[n] = [brain[n] EXCEPT !.at = "over"] /\ \A m \in Room!Dials : m # n => brain'[m] = brain[m]
    BY <1>1, <1>2
  <1>4. /\ brain'[n] \in Session /\ brain'[n].at = "over"
        /\ brain'[n].awake = brain[n].awake /\ brain'[n].asleep = brain[n].asleep
        /\ brain'[n].woke = brain[n].woke /\ brain'[n].conv = brain[n].conv
    BY <1>2, <1>3, MovedOn
  <1>5. brain[n].at # "none" /\ ~(n > dials) /\ brain[n].conv \in Room!Dials
    BY <1>1, <1>2 DEF DialInv, Room!NoSession, Holds
  <1>6. \A m \in Room!Dials : Same(m)
    BY <1>3, <1>4, <1>5 DEF Same
  <1>7. Room!Keeps(n) => wake_mode /\ ~brain[n].asleep /\ ~Unsaid(n)
    BY <1>1, <1>2 DEF Room!Keeps, DialInv, Holds, Unsaid
  <1>8. BrainType'
    <2>1. brain' \in [Room!Dials -> Session]
      BY <1>1, <1>2, <1>4
    <2>2. store' \in 0..MaxDials
      BY <1>1, <1>2, <1>5 DEF BrainType, Room!Dials
    <2>. QED BY <1>1, <1>2, <2>1, <2>2 DEF BrainType
  <1>9. DialInv' /\ \A m \in Room!Dials : Unsaid(m)' => Unsaid(m)
    BY <1>1, <1>2, <1>6, <1>7, <1>8, DialKeeps
  <1>10. \A m \in Room!Dials : ~Holds(m)'
    BY <1>1, <1>2, <1>3, <1>4 DEF Holds, OneHolds
  <1>11. store' \notin gone
    <2>1. CASE Room!Keeps(n)
      BY <1>1, <1>2, <1>7, <2>1 DEF RoomFreshInv
    <2>2. CASE ~Room!Keeps(n)
      <3>1. 0 \notin gone
        BY <1>2 DEF BrainType, Room!Dials
      <3>. QED BY <1>1, <1>2, <2>2, <3>1 DEF RoomFreshInv, OneHolds, Room!Keeps
    <2>. QED BY <2>1, <2>2
  <1>12. RoomFreshInv'
    BY <1>1, <1>2, <1>6, <1>7, <1>10, <1>11 DEF RoomFreshInv, Same
  <1>. QED BY <1>1, <1>8, <1>9, <1>10, <1>12 DEF RoomInv, ConvInv, OneHolds, ArmedInv

\* With the brain's memory goes what was kept in it.
LEMMA BrainDiesKeeps ==
  ASSUME MaxDials \in Nat, RoomInv, Room!BrainDies
  PROVE  RoomInv'
  <1>1. /\ store' = 0 /\ UNCHANGED <<cl, dials, left, gone, wake_mode>>
        /\ brain' = [n \in Room!Dials |-> IF brain[n].at = "none" THEN brain[n] ELSE [brain[n] EXCEPT !.at = "over"]]
    BY DEF Room!BrainDies, Room!bridgeVars
  <1>2. BrainType /\ brain \in [Room!Dials -> Session] /\ DialInv /\ OneHolds /\ RoomFreshInv
    BY DEF RoomInv, ConvInv, BrainType
  <1>3. ASSUME NEW n \in Room!Dials
        PROVE  brain'[n] \in Session /\ Same(n) /\ ~Holds(n)'
    <2>1. CASE brain[n].at = "none"
      BY <1>1, <1>2, <2>1 DEF Same, Holds
    <2>2. CASE brain[n].at # "none"
      <3>1. /\ brain'[n] \in Session /\ brain'[n].at = "over"
            /\ brain'[n].awake = brain[n].awake /\ brain'[n].asleep = brain[n].asleep
            /\ brain'[n].woke = brain[n].woke /\ brain'[n].conv = brain[n].conv
        BY <1>1, <1>2, <2>2, MovedOn
      <3>. QED BY <1>2, <2>2, <3>1 DEF Same, Holds, DialInv, Room!NoSession
    <2>. QED BY <2>1, <2>2
  <1>4. BrainType' /\ 0 \notin gone
    <2>1. brain' \in [Room!Dials -> Session]
      BY <1>1, <1>3
    <2>2. 0 \in 0..MaxDials /\ 0 \notin Room!Dials
      BY DEF Room!Dials
    <2>. QED BY <1>1, <1>2, <2>1, <2>2 DEF BrainType
  <1>5. DialInv' /\ \A m \in Room!Dials : Unsaid(m)' => Unsaid(m)
    BY <1>1, <1>2, <1>3, <1>4, DialKeeps
  <1>6. RoomFreshInv'
    BY <1>1, <1>2, <1>3, <1>4 DEF RoomFreshInv, Same
  <1>. QED BY <1>1, <1>3, <1>4, <1>5, <1>6 DEF RoomInv, ConvInv, OneHolds, ArmedInv

\* Every step of the room keeps it.
LEMMA RoomKeeps ==
  ASSUME MaxDials \in Nat, BridgeInv, RoomInv, FlagsInv, [Room!Next]_Room!vars
  PROVE  RoomInv' /\ FlagsInv'
  <1>. USE DEF Room!bridgeVars, Room!sessionVars, Room!brainVars, Room!worldVars, Room!pastVars
  <1>1. CASE Room!Starts
    BY <1>1, StillKeeps DEF Room!Starts, FlagsInv
  <1>2. CASE Room!Opens \/ Room!BackoffOver \/ Room!Waited \/ Room!OtherLeaves \/ Room!CardReturns \/ Room!BrainReturns
    <2>1. UNCHANGED <<brain, dials, store, left, gone, wake_mode, cl, restart>>
      BY <1>2 DEF Room!Opens, Room!BackoffOver, Room!Waited, Room!OtherLeaves, Room!CardReturns, Room!BrainReturns
    <2>. QED BY <2>1, StillKeeps DEF FlagsInv
  <1>3. CASE Room!Dial
    <2>1. restart' = FALSE /\ UNCHANGED <<left, gone, wake_mode>>
      BY <1>3 DEF Room!Dial, Room!StillAsked
    <2>2. FlagsInv'
      BY <2>1, Zenon DEF FlagsInv
    <2>3. CASE Room!Dials_(restart)
      BY <2>1, <2>2, <2>3, DialKeepsConv
    <2>4. CASE Room!DialFails
      BY <2>1, <2>2, <2>4, StillKeeps DEF Room!DialFails
    <2>. QED BY <1>3, <2>3, <2>4 DEF Room!Dial
  <1>4. CASE Room!Ended
    <2>1. PICK why \in Room!Reasons : /\ Room!After(why)
                                 /\ left' = IF why = "restart" THEN left \cup {brain[dials].conv} ELSE left
      BY <1>4 DEF Room!Ended
    <2>2. cl' = Room!Closed /\ brain' = Room!HungUp /\ UNCHANGED <<wake_mode, dials, store, gone>>
      BY <1>4 DEF Room!Ended
    <2>3. why = "restart" => cl.armed # "no"
      BY <2>1 DEF Room!Reasons
    <2>4. RoomInv'
      BY <2>1, <2>2, <2>3, HungUpKeeps
    <2>5. FlagsInv'
      BY <2>1, <2>2, Zenon DEF Room!After, FlagsInv
    <2>. QED BY <2>4, <2>5
  <1>5. CASE Room!Arms \/ Room!Busies
    <2>1. UNCHANGED <<brain, dials, store, left, gone, wake_mode, restart>> /\ Room!Talking
      BY <1>5 DEF Room!Arms, Room!Busies
    <2>2. cl' \in [gated: BOOLEAN, awake: BOOLEAN, armed: {"no", "restart", "sleep"}, bye: BOOLEAN, busy: BOOLEAN]
      BY ZenonT(60), <1>5 DEF RoomInv, ConvInv, BrainType, Room!Arms, Room!Busies
    <2>3. ConvInv'
      BY <2>1, <2>2 DEF RoomInv, ConvInv, BrainType, DialInv, OneHolds, RoomFreshInv, Unsaid, Holds
    <2>4. dials \in Room!Dials /\ ~Unsaid(dials)
      BY <2>1 DEF Room!Talking, BridgeInv, RoomInv, ConvInv, BrainType, Room!Dials, Unsaid
    <2>. QED BY <2>1, <2>3, <2>4 DEF RoomInv, ArmedInv, FlagsInv, Unsaid
  <1>6. ASSUME NEW n \in Room!Dials, Room!Builds(n) PROVE RoomInv' /\ FlagsInv'
    <2>1. /\ brain[n].at = "asks" /\ brain' = [brain EXCEPT ![n].at = "built"]
          /\ store' \in {0, store} /\ UNCHANGED <<dials, gone, left, wake_mode, restart>>
          /\ cl' = cl \/ cl' = [cl EXCEPT !.gated = TRUE]
      BY <1>6 DEF Room!Builds
    <2>2. brain' = [m \in Room!Dials |-> IF m \in {n} THEN [brain[m] EXCEPT !.at = "built"] ELSE brain[m]]
      BY <2>1 DEF RoomInv, ConvInv, BrainType
    <2>. QED BY ZenonT(60), <2>1, <2>2, MovesKeep DEF FlagsInv
  <1>7. ASSUME NEW n \in Room!Dials, Room!Refuses(n) PROVE RoomInv' /\ FlagsInv'
    <2>1. /\ brain[n].at \in {"asks", "built"} /\ brain' = [brain EXCEPT ![n].at = "over"]
          /\ UNCHANGED <<dials, gone, left, wake_mode, restart, store, cl>>
      BY <1>7 DEF Room!Refuses
    <2>2. brain' = [m \in Room!Dials |-> IF m \in {n} THEN [brain[m] EXCEPT !.at = "over"] ELSE brain[m]]
      BY <2>1 DEF RoomInv, ConvInv, BrainType
    <2>. QED BY ZenonT(60), <2>1, <2>2, MovesKeep DEF FlagsInv
  <1>8. ASSUME NEW n \in Room!Dials, Room!Granted(n) PROVE RoomInv' /\ FlagsInv'
    BY <1>8, GrantedKeeps DEF FlagsInv, Room!Granted
  <1>9. ASSUME NEW n \in Room!Dials, Room!Wakes(n) PROVE RoomInv' /\ FlagsInv'
    BY <1>9, WakesKeeps DEF FlagsInv, Room!Wakes
  <1>10. ASSUME NEW n \in Room!Dials, Room!Fails(n) PROVE RoomInv' /\ FlagsInv'
    <2>1. /\ brain[n].at = "runs" /\ brain' = [brain EXCEPT ![n].at = "ends"]
          /\ UNCHANGED <<dials, gone, left, wake_mode, restart, store, cl>>
      BY <1>10 DEF Room!Fails
    <2>2. brain' = [m \in Room!Dials |-> IF m \in {n} THEN [brain[m] EXCEPT !.at = "ends"] ELSE brain[m]]
      BY <2>1 DEF RoomInv, ConvInv, BrainType
    <2>. QED BY ZenonT(60), <2>1, <2>2, MovesKeep DEF FlagsInv
  <1>11. ASSUME NEW n \in Room!Dials, Room!Over_(n) PROVE RoomInv' /\ FlagsInv'
    BY <1>11, OverKeeps DEF FlagsInv, Room!Over_
  <1>12. ASSUME NEW who \in {"talk", "call"}, Room!OtherComes(who) PROVE RoomInv' /\ FlagsInv'
    <2>. DEFINE S == {n \in Room!Dials : brain[n].at = "runs"}
    <2>1. /\ brain' = [n \in Room!Dials |-> IF n \in S THEN [brain[n] EXCEPT !.at = "ends"] ELSE brain[n]]
          /\ UNCHANGED <<dials, gone, left, wake_mode, restart, store, cl>>
      BY <1>12 DEF Room!OtherComes
    <2>2. S \in SUBSET Room!Dials /\ \A m \in S : brain[m].at = "runs"
      OBVIOUS
    <2>. HIDE DEF S
    <2>. QED BY <2>1, <2>2, MovesKeep DEF FlagsInv
  <1>13. CASE Room!CardFails
    BY <1>13, HungUpKeeps DEF Room!CardFails, FlagsInv
  <1>14. CASE Room!BridgeDies
    <2>1. /\ brain' = Room!HungUp \/ brain' = brain
          /\ cl' = Room!Closed /\ restart' = FALSE /\ UNCHANGED <<dials, gone, wake_mode, store, left>>
      BY <1>14 DEF Room!BridgeDies
    <2>2. FlagsInv'
      BY <2>1, Zenon DEF FlagsInv
    <2>. QED BY <2>1, <2>2, HungUpKeeps
  <1>15. CASE Room!BrainDies
    BY <1>15, BrainDiesKeeps DEF Room!BrainDies, FlagsInv
  <1>16. CASE UNCHANGED Room!vars
    BY <1>16, StillKeeps DEF Room!vars, FlagsInv
  <1>. QED
    BY <1>1, <1>2, <1>3, <1>4, <1>5, <1>6, <1>7, <1>8, <1>9, <1>10, <1>11, <1>12, <1>13, <1>14,
       <1>15, <1>16 DEF Room!Next, Room!Spent

(* A conversation left for a fresh one does not come back once that has      *)
(* begun, whatever session saved last.                                      *)
THEOREM FreshStaysFresh == ASSUME MaxDials \in Nat PROVE Spec => []FreshIsFresh
  <1>0. Init => BridgeInv
    BY DEF Init, Room!Init, BridgeInv
  <1>1. Init => RoomInv /\ FlagsInv
    <2>. SUFFICES ASSUME Room!Init PROVE RoomInv /\ FlagsInv
      BY DEF Init
    <2>1. Room!NoSession \in Session
      BY DEF Room!NoSession, Session
    <2>2. BrainType
      BY <2>1 DEF Room!Init, BrainType, Room!Closed, Room!Dials
    <2>3. FlagsInv
      BY Zenon DEF Room!Init, FlagsInv
    <2>4. \A n \in Room!Dials : brain[n] = Room!NoSession /\ n # 0
      BY DEF Room!Init, Room!Dials
    <2>. QED BY <2>2, <2>3, <2>4
      DEF Room!Init, RoomInv, ConvInv, DialInv, OneHolds, RoomFreshInv, ArmedInv, Unsaid, Holds, Room!NoSession, Room!Closed
  <1>2. BridgeInv /\ RoomInv /\ FlagsInv /\ [Next]_vars => BridgeInv' /\ RoomInv' /\ FlagsInv'
    BY BridgeKeeps, RoomKeeps, RoomAlone
  <1>3. RoomInv => FreshIsFresh
    BY DEF RoomInv, ConvInv, RoomFreshInv, FreshIsFresh, Room!FreshIsFresh, Holds
  <1>. QED BY <1>0, <1>1, <1>2, <1>3, PTL DEF Spec
=============================================================================
