----------------------------- MODULE MCProgress -----------------------------
(* What each part must come to in the end, under its own fairness, on small *)
(* bounds. A behaviour is of one part (`scene`), and so the parts take turns*)
(* on the same variables: v1 is the first of each module's, and so on.      *)

EXTENDS Naturals

CONSTANTS
  alice1, alice2, call1, None, alice, phone, kitchen, call2, k1, c1, NoWords,
  a, b, s1

VARIABLES
  scene,   \* whose behaviour it is
  promise, \* one of its promises, looked after through it
  v1, v2, v3, v4, v5, v6, v7, v8, v9, v10, v11, v12, v13, v14, v15, v16, v17,
  v18, v19, v20, v21, v22, v23, v24, v25, v26, v27, v28, v29, v30, v31, v32,
  v33, v34, v35

vars == <<scene, promise, v1, v2, v3, v4, v5, v6, v7, v8, v9, v10, v11, v12,
  v13, v14, v15, v16, v17, v18, v19, v20, v21, v22, v23, v24, v25, v26, v27,
  v28, v29, v30, v31, v32, v33, v34, v35>>

Clients == INSTANCE SessionArbiter
  WITH pc <- v1, on <- v2, owner <- v3, line <- v4, callsWaiting <- v5,
       holder <- v6, held <- v7, heldFor <- v8, ending <- v9, hold <- v10,
       holdFor <- v11, resuming <- v12, answer <- v13, answered <- v14,
       released <- v15, using <- v16, overrun <- v17, away <- v18,
       touched <- v19, Talks <- {alice1, alice2}, Rooms <- {},
       Calls <- {call1},
       Client <- [c \in {alice1, alice2, call1} |-> IF c = call1 THEN phone ELSE alice]
talksOnly == UNCHANGED <<scene, promise, v20, v21, v22, v23, v24, v25, v26,
    v27, v28, v29, v30, v31, v32, v33, v34, v35>>
TalksGoes == scene = "talks" /\ Clients!Next /\ talksOnly

Kitchen == INSTANCE SessionArbiter
  WITH pc <- v1, on <- v2, owner <- v3, line <- v4, callsWaiting <- v5,
       holder <- v6, held <- v7, heldFor <- v8, ending <- v9, hold <- v10,
       holdFor <- v11, resuming <- v12, answer <- v13, answered <- v14,
       released <- v15, using <- v16, overrun <- v17, away <- v18,
       touched <- v19, Talks <- {}, Rooms <- {kitchen},
       Calls <- {call1, call2},
       Client <- [c \in {kitchen, call1, call2} |-> IF c = kitchen THEN None ELSE phone]
roomOnly == UNCHANGED <<scene, promise, v20, v21, v22, v23, v24, v25, v26,
    v27, v28, v29, v30, v31, v32, v33, v34, v35>>
RoomGoes == scene = "room" /\ Kitchen!Next /\ roomOnly

Held == INSTANCE HeldSession
  WITH arb <- v1, questions <- v2, caller <- v3, askAt <- v4, fut <- v5,
       closed <- v6, told <- v7, line <- v8, passing <- v9, waited <- v10,
       mute <- v11, holding <- v12, held <- v13, gateHeld <- v14,
       holdOff <- v15, ownCut <- v16, stt <- v17, greeting <- v18,
       MaxQuestions <- 1
heldOnly == UNCHANGED <<scene, promise, v19, v20, v21, v22, v23, v24, v25,
    v26, v27, v28, v29, v30, v31, v32, v33, v34, v35>>
HeldGoes == scene = "held" /\ Held!Next /\ heldOnly

Turn == INSTANCE UserTurn
  WITH starts <- v1, stops <- v2, said <- v3, bot <- v4, audio <- v5,
       seg <- v6, faults <- v7, toStt <- v8, edges <- v9, texts <- v10,
       seen <- v11, wait <- v12, buffer <- v13, interims <- v14,
       unasked <- v15, commits <- v16, answered <- v17, stranded <- v18,
       atStop <- v19, counted <- v20, owed <- v21, receipts <- v22,
       speaking <- v23, stopped <- v24, complete <- v25, text <- v26,
       finalized <- v27, open <- v28, inferred <- v29, refused <- v30,
       gap <- v31, agg <- v32, committed <- v33, lost <- v34, judged <- v35,
       MaxSpeech <- 2, MaxWords <- 1, MaxFaults <- 0
turnOnly == UNCHANGED <<scene, promise>>
TurnGoes == scene = "turn" /\ Turn!Next /\ turnOnly

Hold == INSTANCE ReplyHold
  WITH said <- v1, line <- v2, worded <- v3, open <- v4, agg <- v5,
       commit <- v6, cuts <- v7, ctx <- v8, lastUser <- v9, merge <- v10,
       asked <- v11, writing <- v12, replies <- v13, answers <- v14,
       call <- v15, q <- v16, armed <- v17, tool_call <- v18, holding <- v19,
       drops <- v20, droppedCalls <- v21, ending <- v22,
       discard_to_end <- v23, capped <- v24, out <- v25, overtaken <- v26,
       played <- v27, settled <- v28, timeouts <- v29, over <- v30,
       MaxSaid <- 2, MaxRare <- 0
holdOnly == UNCHANGED <<scene, promise, v31, v32, v33, v34, v35>>
HoldGoes == scene = "hold" /\ Hold!Next /\ holdOnly

Book == INSTANCE Owed
  WITH rec <- v1, born <- v2, caller <- v3, turns <- v4, view <- v5,
       requests <- v6, replies <- v7, judging <- v8, declining <- v9,
       lull <- v10, run <- v11, closed <- v12, MAX_RENDERED <- 1,
       MaxRequests <- 2, MaxTurns <- 1, Consults <- {k1}, Tools <- {}
bookOnly == UNCHANGED <<scene, promise, v13, v14, v15, v16, v17, v18, v19,
    v20, v21, v22, v23, v24, v25, v26, v27, v28, v29, v30, v31, v32, v33, v34,
    v35>>
BookGoes == scene = "book" /\ Book!Next /\ bookOnly

Notes == INSTANCE ClientNotes
  WITH context <- v1, pending <- v2, posted <- v3, order <- v4,
       orderOld <- v5, held_for <- v6, drainer <- v7, recent <- v8,
       turn <- v9, react <- v10, sent <- v11, turns <- v12, MaxSent <- 2,
       MaxNotes <- 1, MaxTurns <- 2
notesOnly == UNCHANGED <<scene, promise, v13, v14, v15, v16, v17, v18, v19,
    v20, v21, v22, v23, v24, v25, v26, v27, v28, v29, v30, v31, v32, v33, v34,
    v35>>
NotesGoes == scene = "notes" /\ Notes!Next /\ notesOnly

Ledger == INSTANCE TranscriptLedger
  WITH kind <- v1, llm <- v2, told <- v3, full <- v4, pushedEnd <- v5,
       between <- v6, cut <- v7, cuts <- v8, pauses <- v9, toTts <- v10,
       ctxs <- v11, toOut <- v12, playing <- v13, speaking <- v14,
       held <- v15, played <- v16, gen <- v17, queue <- v18, turns <- v19,
       had <- v20, ended <- v21, closed <- v22, fifo <- v23, win <- v24,
       paused <- v25, flushing <- v26, wrote <- v27, settled <- v28,
       MaxSaid <- 2, MaxCuts <- 1, MaxPauses <- 1
ledgerOnly == UNCHANGED <<scene, promise, v29, v30, v31, v32, v33, v34, v35>>
LedgerGoes == scene = "ledger" /\ Ledger!Next /\ ledgerOnly

Claimed == INSTANCE RunControl
  WITH mayCross <- v1, timely <- v2, text <- v3, said <- v4, emitting <- v5,
       arriving <- v6, held <- v7, asked <- v8, asks <- v9, out <- v10,
       taken <- v11, ended <- v12, consult <- v13, working <- v14,
       calls <- v15, toPlugin <- v16, toBrain <- v17, open <- v18,
       heard <- v19, order <- v20, actedAt <- v21, usedUp <- v22,
       claim <- v23, running <- v24, duty <- v25, acted <- v26, read <- v27,
       confirmed <- v28, late <- v29, met <- v30, Control <- {c1},
       Plain <- {}, MaxConsults <- 1, LastFrame <- 2
controlOnly == UNCHANGED <<scene, promise, v31, v32, v33, v34, v35>>
ControlGoes == scene = "control" /\ Claimed!Next /\ controlOnly

FairLine == INSTANCE SipCalls
  WITH overlap <- v1, autoAnswer <- v2, gw <- v3, inbox <- v4, hung <- v5,
       reader <- v6, ring <- v7, answered <- v8, sent <- v9, declined <- v10,
       setup <- v11, bring <- v12, active <- v13, pipe <- v14, down <- v15,
       tear <- v16, busy <- v17, claims <- v18, Calls <- {call1, call2},
       Punctual <- TRUE, BuildMayFail <- FALSE
fairLineOnly == UNCHANGED <<scene, promise, v19, v20, v21, v22, v23, v24, v25,
    v26, v27, v28, v29, v30, v31, v32, v33, v34, v35>>
FairLineGoes == scene = "fairLine" /\ FairLine!Next /\ fairLineOnly

Pair == INSTANCE Pairing
  WITH issued <- v1, pairing <- v2, creating <- v3, session <- v4,
       current <- v5, code_dead <- v6, old <- v7, locked <- v8, wrong <- v9,
       spent <- v10, tap <- v11, stopped <- v12, page <- v13, minted <- v14,
       made <- v15, result <- v16, waiter <- v17, listed <- v18, found <- v19,
       MaxCodes <- 2, MaxWrong <- 2
pairOnly == UNCHANGED <<scene, promise, v20, v21, v22, v23, v24, v25, v26,
    v27, v28, v29, v30, v31, v32, v33, v34, v35>>
PairGoes == scene = "pair" /\ Pair!Next /\ pairOnly

Device == INSTANCE DevicePairing
  WITH gen <- v1, asking <- v2, offer <- v3, last <- v4, unshown <- v5,
       watcher <- v6, on_spent <- v7, screen <- v8, shown <- v9,
       closed <- v10, code <- v11, pairing <- v12, usable <- v13,
       claim <- v14, made <- v15, ending <- v16, codes <- v17, stops <- v18,
       started <- v19, MaxStarts <- 3, MaxStops <- 2
deviceOnly == UNCHANGED <<scene, promise, v20, v21, v22, v23, v24, v25, v26,
    v27, v28, v29, v30, v31, v32, v33, v34, v35>>
DeviceGoes == scene = "device" /\ Device!Next /\ deviceOnly

Key == INSTANCE AgentKey
  WITH file <- v1, env <- v2, procenv <- v3, oc <- v4, gw <- v5,
       gw_restarts <- v6, sha <- v7, mismatched <- v8, restart <- v9,
       saving <- v10, gen <- v11, lock <- v12, looking <- v13, owed <- v14,
       crashes <- v15, pc <- v16, key <- v17, prev <- v18, prev_file <- v19,
       text <- v20, gen0 <- v21, oc0 <- v22, newest <- v23, Keys <- {a, b},
       First <- a, Savers <- {s1}, MaxCrashes <- 1, Apart <- TRUE
keyOnly == UNCHANGED <<scene, promise, v24, v25, v26, v27, v28, v29, v30, v31,
    v32, v33, v34, v35>>
KeyGoes == scene = "key" /\ Key!Next /\ keyOnly

Room == INSTANCE RoomBridge
  WITH wake_mode <- v1, at <- v2, backoff <- v3, restart <- v4,
       connect_now <- v5, card <- v6, link <- v7, cl <- v8, dials <- v9,
       brain <- v10, up <- v11, store <- v12, other <- v13, others <- v14,
       faults <- v15, theirs <- v16, left <- v17, gone <- v18, MaxDials <- 2,
       MaxFaults <- 1, MaxOthers <- 1
micOnly == UNCHANGED <<scene, promise, v19, v20, v21, v22, v23, v24, v25, v26,
    v27, v28, v29, v30, v31, v32, v33, v34, v35>>
MicGoes == scene = "mic" /\ Room!Next /\ micOnly

Wifi == INSTANCE WifiSetup
  WITH at <- v1, status <- v2, screen <- v3, ap <- v4, served <- v5,
       posts <- v6, request <- v7, wake <- v8, key <- v9, target <- v10,
       account <- v11, pending <- v12, psk <- v13, made <- v14,
       created <- v15, on <- v16, late <- v17, joins <- v18, cut <- v19,
       rc <- v20, MaxPosts <- 2, MaxJoins <- 1
wifiOnly == UNCHANGED <<scene, promise, v21, v22, v23, v24, v25, v26, v27,
    v28, v29, v30, v31, v32, v33, v34, v35>>
WifiGoes == scene = "wifi" /\ Wifi!Next /\ wifiOnly

Voice == INSTANCE WifiVoice
  WITH slow <- v1, live <- v2, state <- v3, unclear <- v4, byModel <- v5,
       first <- v6, starting <- v7, cancelling <- v8, polling <- v9,
       last <- v10, before <- v11, look <- v12, new <- v13, tried <- v14,
       timer <- v15, unit <- v16, run <- v17, file <- v18, starts <- v19,
       ends <- v20, mine <- v21, owed <- v22, MaxRuns <- 1, MaxFails <- 0,
       Orphans <- FALSE
voiceOnly == UNCHANGED <<scene, promise, v23, v24, v25, v26, v27, v28, v29,
    v30, v31, v32, v33, v34, v35>>
VoiceGoes == scene = "voice" /\ Voice!Next /\ voiceOnly

Slices == INSTANCE SlicedTurn
  WITH text <- v1, now <- v2, talking <- v3, stops <- v4, strays <- v5,
       mark <- v6, pending <- v7, wanted <- v8, slips <- v9, lates <- v10,
       sent <- v11, through <- v12, decoded <- v13, commits <- v14,
       turns <- v15, early <- v16, peek <- v17, open <- v18, last <- v19,
       capped <- v20, settling <- v21, closed <- v22, out <- v23,
       Says <- {<<"a", "b">>}, Words <- 2, MaxStops <- 1, MaxStray <- 0,
       MaxFaults <- 0, Peeks <- TRUE
slicesOnly == UNCHANGED <<scene, promise, v24, v25, v26, v27, v28, v29, v30,
    v31, v32, v33, v34, v35>>
SlicesGoes == scene = "slices" /\ Slices!Next /\ slicesOnly

Init ==
  \/ scene = "talks" /\ Clients!Init /\ promise \in Clients!Promises
     /\ v20 = 0 /\ v21 = 0 /\ v22 = 0 /\ v23 = 0 /\ v24 = 0 /\ v25 = 0 /\
        v26 = 0 /\ v27 = 0 /\ v28 = 0 /\ v29 = 0 /\ v30 = 0 /\ v31 = 0 /\
        v32 = 0 /\ v33 = 0 /\ v34 = 0 /\ v35 = 0
  \/ scene = "room" /\ Kitchen!Init /\ promise \in Kitchen!Promises
     /\ v20 = 0 /\ v21 = 0 /\ v22 = 0 /\ v23 = 0 /\ v24 = 0 /\ v25 = 0 /\
        v26 = 0 /\ v27 = 0 /\ v28 = 0 /\ v29 = 0 /\ v30 = 0 /\ v31 = 0 /\
        v32 = 0 /\ v33 = 0 /\ v34 = 0 /\ v35 = 0
  \/ scene = "held" /\ Held!Init /\ promise \in Held!Promises
     /\ v19 = 0 /\ v20 = 0 /\ v21 = 0 /\ v22 = 0 /\ v23 = 0 /\ v24 = 0 /\
        v25 = 0 /\ v26 = 0 /\ v27 = 0 /\ v28 = 0 /\ v29 = 0 /\ v30 = 0 /\
        v31 = 0 /\ v32 = 0 /\ v33 = 0 /\ v34 = 0 /\ v35 = 0
  \/ scene = "turn" /\ Turn!Init /\ promise \in Turn!Promises
  \/ scene = "hold" /\ Hold!Init /\ promise \in Hold!Promises
     /\ v31 = 0 /\ v32 = 0 /\ v33 = 0 /\ v34 = 0 /\ v35 = 0
  \/ scene = "book" /\ Book!Init /\ promise \in Book!Promises
     /\ v13 = 0 /\ v14 = 0 /\ v15 = 0 /\ v16 = 0 /\ v17 = 0 /\ v18 = 0 /\
        v19 = 0 /\ v20 = 0 /\ v21 = 0 /\ v22 = 0 /\ v23 = 0 /\ v24 = 0 /\
        v25 = 0 /\ v26 = 0 /\ v27 = 0 /\ v28 = 0 /\ v29 = 0 /\ v30 = 0 /\
        v31 = 0 /\ v32 = 0 /\ v33 = 0 /\ v34 = 0 /\ v35 = 0
  \/ scene = "notes" /\ Notes!Init /\ promise \in Notes!Promises
     /\ v13 = 0 /\ v14 = 0 /\ v15 = 0 /\ v16 = 0 /\ v17 = 0 /\ v18 = 0 /\
        v19 = 0 /\ v20 = 0 /\ v21 = 0 /\ v22 = 0 /\ v23 = 0 /\ v24 = 0 /\
        v25 = 0 /\ v26 = 0 /\ v27 = 0 /\ v28 = 0 /\ v29 = 0 /\ v30 = 0 /\
        v31 = 0 /\ v32 = 0 /\ v33 = 0 /\ v34 = 0 /\ v35 = 0
  \/ scene = "ledger" /\ Ledger!Init /\ promise = 2
     /\ v29 = 0 /\ v30 = 0 /\ v31 = 0 /\ v32 = 0 /\ v33 = 0 /\ v34 = 0 /\
        v35 = 0
  \/ scene = "control" /\ Claimed!Init /\ promise \in Claimed!Promises /\ ~v1 /\ ~v2
     /\ v31 = 0 /\ v32 = 0 /\ v33 = 0 /\ v34 = 0 /\ v35 = 0
  \/ scene = "fairLine" /\ FairLine!Init /\ promise \in FairLine!Promises /\ promise[2] = call1 /\ ~v1 /\ v2
     /\ v19 = 0 /\ v20 = 0 /\ v21 = 0 /\ v22 = 0 /\ v23 = 0 /\ v24 = 0 /\
        v25 = 0 /\ v26 = 0 /\ v27 = 0 /\ v28 = 0 /\ v29 = 0 /\ v30 = 0 /\
        v31 = 0 /\ v32 = 0 /\ v33 = 0 /\ v34 = 0 /\ v35 = 0
  \/ scene = "pair" /\ Pair!Init /\ promise \in Pair!Promises
     /\ v20 = 0 /\ v21 = 0 /\ v22 = 0 /\ v23 = 0 /\ v24 = 0 /\ v25 = 0 /\
        v26 = 0 /\ v27 = 0 /\ v28 = 0 /\ v29 = 0 /\ v30 = 0 /\ v31 = 0 /\
        v32 = 0 /\ v33 = 0 /\ v34 = 0 /\ v35 = 0
  \/ scene = "device" /\ Device!Init /\ promise \in Device!Promises
     /\ v20 = 0 /\ v21 = 0 /\ v22 = 0 /\ v23 = 0 /\ v24 = 0 /\ v25 = 0 /\
        v26 = 0 /\ v27 = 0 /\ v28 = 0 /\ v29 = 0 /\ v30 = 0 /\ v31 = 0 /\
        v32 = 0 /\ v33 = 0 /\ v34 = 0 /\ v35 = 0
  \/ scene = "key" /\ Key!Init /\ promise \in Key!Promises
     /\ v24 = 0 /\ v25 = 0 /\ v26 = 0 /\ v27 = 0 /\ v28 = 0 /\ v29 = 0 /\
        v30 = 0 /\ v31 = 0 /\ v32 = 0 /\ v33 = 0 /\ v34 = 0 /\ v35 = 0
  \/ scene = "mic" /\ Room!Init /\ promise \in Room!Promises
     /\ v19 = 0 /\ v20 = 0 /\ v21 = 0 /\ v22 = 0 /\ v23 = 0 /\ v24 = 0 /\
        v25 = 0 /\ v26 = 0 /\ v27 = 0 /\ v28 = 0 /\ v29 = 0 /\ v30 = 0 /\
        v31 = 0 /\ v32 = 0 /\ v33 = 0 /\ v34 = 0 /\ v35 = 0
  \/ scene = "wifi" /\ Wifi!Init /\ promise \in Wifi!Promises
     /\ v21 = 0 /\ v22 = 0 /\ v23 = 0 /\ v24 = 0 /\ v25 = 0 /\ v26 = 0 /\
        v27 = 0 /\ v28 = 0 /\ v29 = 0 /\ v30 = 0 /\ v31 = 0 /\ v32 = 0 /\
        v33 = 0 /\ v34 = 0 /\ v35 = 0
  \/ scene = "voice" /\ Voice!Init /\ promise \in Voice!Promises /\ ~v1
     /\ v23 = 0 /\ v24 = 0 /\ v25 = 0 /\ v26 = 0 /\ v27 = 0 /\ v28 = 0 /\
        v29 = 0 /\ v30 = 0 /\ v31 = 0 /\ v32 = 0 /\ v33 = 0 /\ v34 = 0 /\
        v35 = 0
  \/ scene = "slices" /\ Slices!Init /\ promise \in Slices!Promises
     /\ v24 = 0 /\ v25 = 0 /\ v26 = 0 /\ v27 = 0 /\ v28 = 0 /\ v29 = 0 /\
        v30 = 0 /\ v31 = 0 /\ v32 = 0 /\ v33 = 0 /\ v34 = 0 /\ v35 = 0

Next == TalksGoes \/ RoomGoes \/ HeldGoes \/ TurnGoes \/ HoldGoes \/
        BookGoes \/ NotesGoes \/ LedgerGoes \/ ControlGoes \/ FairLineGoes \/
        PairGoes \/ DeviceGoes \/ KeyGoes \/ MicGoes \/ WifiGoes \/
        VoiceGoes \/ SlicesGoes

(* Each part's own fairness. A behaviour has one scene, so that actions of several   *)
(* scenes are fair together or not at all.                                          *)
Fair1 ==
  \/ scene = "talks" /\ Clients!Acquiring(alice1) /\ talksOnly
  \/ scene = "room" /\ Kitchen!Acquiring(kitchen) /\ roomOnly
  \/ scene = "held" /\ v9 > 0 /\ Held!Interruption /\ heldOnly
  \/ scene = "turn" /\ Turn!Stops /\ turnOnly
  \/ scene = "hold" /\ Hold!Stops /\ holdOnly
  \/ scene = "book" /\ Book!ReplyEnds /\ bookOnly
  \/ scene = "notes" /\ Notes!TurnEnds /\ notesOnly
  \/ scene = "ledger" /\ Ledger!Says /\ ledgerOnly
  \/ scene = "control" /\ Claimed!Take /\ controlOnly
  \/ scene = "fairLine" /\ FairLine!Reader(call1) /\ fairLineOnly
  \/ scene = "pair" /\ Pair!MintStarts(1) /\ pairOnly
  \/ scene = "device" /\ (Device!StartFails(1) \/ Device!StartReturns(1)) /\ deviceOnly
  \/ scene = "key" /\ Key!Steps(s1) /\ keyOnly
  \/ scene = "mic" /\ Room!Starts /\ micOnly
  \/ scene = "wifi" /\ Wifi!Main /\ wifiOnly
  \/ scene = "voice" /\ Voice!Voice /\ voiceOnly
  \/ scene = "slices" /\ Slices!Goes /\ slicesOnly
Fair2 ==
  \/ scene = "talks" /\ Clients!Running(alice1) /\ talksOnly
  \/ scene = "room" /\ Kitchen!Running(kitchen) /\ roomOnly
  \/ scene = "held" /\ Held!NoticeEnds /\ heldOnly
  \/ scene = "turn" /\ Turn!Stt /\ turnOnly
  \/ scene = "hold" /\ Hold!Commits /\ holdOnly
  \/ scene = "book" /\ Book!Judged /\ bookOnly
  \/ scene = "notes" /\ Notes!RequestPasses /\ notesOnly
  \/ scene = "ledger" /\ Ledger!EndsStream /\ ledgerOnly
  \/ scene = "control" /\ Claimed!Emit /\ controlOnly
  \/ scene = "fairLine" /\ FairLine!BringUp(call1) /\ fairLineOnly
  \/ scene = "pair" /\ Pair!MintEnds(1) /\ pairOnly
  \/ scene = "device" /\ (Device!StartFails(2) \/ Device!StartReturns(2)) /\ deviceOnly
  \/ scene = "key" /\ Key!settle_torn /\ keyOnly
  \/ scene = "mic" /\ Room!Opens /\ micOnly
  \/ scene = "wifi" /\ Wifi!Late /\ wifiOnly
  \/ scene = "voice" /\ Voice!Lapses /\ voiceOnly
  \/ scene = "slices" /\ Slices!Preview /\ slicesOnly
Fair3 ==
  \/ scene = "talks" /\ Clients!Acquiring(alice2) /\ talksOnly
  \/ scene = "room" /\ Kitchen!Acquiring(call1) /\ roomOnly
  \/ scene = "held" /\ Held!Asked /\ heldOnly
  \/ scene = "turn" /\ Turn!SttPaused /\ turnOnly
  \/ scene = "hold" /\ Hold!Proceeds /\ holdOnly
  \/ scene = "book" /\ Book!FallsQuiet /\ bookOnly
  \/ scene = "notes" /\ (Notes!Reads \/ Notes!Fails) /\ notesOnly
  \/ scene = "ledger" /\ Ledger!TTS /\ ledgerOnly
  \/ scene = "control" /\ Claimed!Expire /\ controlOnly
  \/ scene = "fairLine" /\ FairLine!Teardown(call1) /\ fairLineOnly
  \/ scene = "pair" /\ Pair!Refused(1) /\ pairOnly
  \/ scene = "device" /\ (Device!StartFails(3) \/ Device!StartReturns(3)) /\ deviceOnly
  \/ scene = "key" /\ Key!LookStarts /\ keyOnly
  \/ scene = "mic" /\ Room!BackoffOver /\ micOnly
  \/ scene = "voice" /\ Voice!GivesUp /\ voiceOnly
  \/ scene = "slices" /\ Slices!Delta /\ slicesOnly
Fair4 ==
  \/ scene = "talks" /\ Clients!Running(alice2) /\ talksOnly
  \/ scene = "room" /\ Kitchen!Running(call1) /\ roomOnly
  \/ scene = "held" /\ (Held!Answered \/ Held!Deadline) /\ heldOnly
  \/ scene = "turn" /\ Turn!StrandedFires /\ turnOnly
  \/ scene = "hold" /\ Hold!Closes /\ holdOnly
  \/ scene = "book" /\ Book!Commit /\ bookOnly
  \/ scene = "notes" /\ Notes!ReplyEnds /\ notesOnly
  \/ scene = "ledger" /\ Ledger!Out /\ ledgerOnly
  \/ scene = "fairLine" /\ FairLine!BusyTaskEnds(call1) /\ fairLineOnly
  \/ scene = "pair" /\ Pair!WatchRunsOut(1) /\ pairOnly
  \/ scene = "device" /\ (Device!StartFails(4) \/ Device!StartReturns(4)) /\ deviceOnly
  \/ scene = "key" /\ Key!LookEnds /\ keyOnly
  \/ scene = "mic" /\ (v1 \/ v5) /\ Room!Dial /\ micOnly
  \/ scene = "slices" /\ Slices!Progress /\ slicesOnly
Fair5 ==
  \/ scene = "talks" /\ Clients!Acquiring(call1) /\ talksOnly
  \/ scene = "room" /\ Kitchen!Acquiring(call2) /\ roomOnly
  \/ scene = "held" /\ Held!HoldBegins /\ heldOnly
  \/ scene = "turn" /\ Turn!Engine /\ turnOnly
  \/ scene = "hold" /\ Hold!AsksOnTurn /\ holdOnly
  \/ scene = "book" /\ Book!RunGoes /\ bookOnly
  \/ scene = "notes" /\ Notes!DrainWindow /\ notesOnly
  \/ scene = "ledger" /\ Ledger!Resumes /\ ledgerOnly
  \/ scene = "fairLine" /\ call1 \in v9 /\ FairLine!PickUp(call1) /\ fairLineOnly
  \/ scene = "pair" /\ Pair!MintStarts(2) /\ pairOnly
  \/ scene = "device" /\ (Device!StartFails(5) \/ Device!StartReturns(5)) /\ deviceOnly
  \/ scene = "key" /\ Key!RestartAsked /\ keyOnly
  \/ scene = "mic" /\ Room!Waited /\ micOnly
  \/ scene = "slices" /\ (Slices!Prune \/ Slices!Settle \/ Slices!Settled) /\ slicesOnly
Fair6 ==
  \/ scene = "talks" /\ Clients!Running(call1) /\ talksOnly
  \/ scene = "room" /\ Kitchen!Running(call2) /\ roomOnly
  \/ scene = "held" /\ Held!HoldSaid /\ heldOnly
  \/ scene = "turn" /\ Turn!Texts /\ turnOnly
  \/ scene = "hold" /\ Hold!AsksOnResult /\ holdOnly
  \/ scene = "book" /\ (Book!ViewSettled \/ Book!ViewTimesOut) /\ bookOnly
  \/ scene = "ledger" /\ Ledger!CutAtLLM /\ ledgerOnly
  \/ scene = "fairLine" /\ FairLine!Leaves(call1) /\ fairLineOnly
  \/ scene = "pair" /\ Pair!MintEnds(2) /\ pairOnly
  \/ scene = "device" /\ Device!Handed /\ deviceOnly
  \/ scene = "key" /\ Key!RestartNoted /\ keyOnly
  \/ scene = "mic" /\ v7 # "up" /\ Room!Ended /\ micOnly
Fair7 ==
  \/ scene = "held" /\ Held!HoldDone /\ heldOnly
  \/ scene = "turn" /\ Turn!TimerFires /\ turnOnly
  \/ scene = "hold" /\ Hold!Writes /\ holdOnly
  \/ scene = "book" /\ Book!ViewReads /\ bookOnly
  \/ scene = "ledger" /\ Ledger!CutAtTTS /\ ledgerOnly
  \/ scene = "fairLine" /\ v3[call1] = "leaving" /\ FairLine!CallEnds(call1) /\ fairLineOnly
  \/ scene = "pair" /\ Pair!Refused(2) /\ pairOnly
  \/ scene = "device" /\ Device!RunsOut /\ deviceOnly
  \/ scene = "mic" /\ Room!Builds(1) /\ micOnly
Fair8 ==
  \/ scene = "held" /\ Held!ResumeBegins /\ heldOnly
  \/ scene = "turn" /\ Turn!Finalizes /\ turnOnly
  \/ scene = "hold" /\ Hold!Cuts /\ holdOnly
  \/ scene = "book" /\ Book!DeclineJudged /\ bookOnly
  \/ scene = "ledger" /\ Ledger!CutAtOut /\ ledgerOnly
  \/ scene = "fairLine" /\ FairLine!Reader(call2) /\ fairLineOnly
  \/ scene = "pair" /\ Pair!WatchRunsOut(2) /\ pairOnly
  \/ scene = "device" /\ Device!PairingEnds /\ deviceOnly
  \/ scene = "mic" /\ Room!Refuses(1) /\ micOnly
Fair9 ==
  \/ scene = "held" /\ Held!Resumed /\ heldOnly
  \/ scene = "turn" /\ Turn!Edges /\ turnOnly
  \/ scene = "hold" /\ Hold!Passes /\ holdOnly
  \/ scene = "book" /\ Book!Render /\ bookOnly
  \/ scene = "fairLine" /\ FairLine!BringUp(call2) /\ fairLineOnly
  \/ scene = "pair" /\ (Pair!HandedOut(1) \/ Pair!MintFailed(1)) /\ pairOnly
  \/ scene = "device" /\ Device!WatcherHears /\ deviceOnly
  \/ scene = "mic" /\ Room!Granted(1) /\ micOnly
Fair10 ==
  \/ scene = "held" /\ Held!PutLine("question") /\ heldOnly
  \/ scene = "turn" /\ Turn!Ceiling /\ turnOnly
  \/ scene = "hold" /\ Hold!OutGoesOn /\ holdOnly
  \/ scene = "book" /\ Book!LullReads /\ bookOnly
  \/ scene = "fairLine" /\ FairLine!Teardown(call2) /\ fairLineOnly
  \/ scene = "pair" /\ (Pair!HandedOut(2) \/ Pair!MintFailed(2)) /\ pairOnly
  \/ scene = "mic" /\ Room!Over_(1) /\ micOnly
Fair11 ==
  \/ scene = "held" /\ Held!PutLine("step") /\ heldOnly
  \/ scene = "hold" /\ Hold!Released /\ holdOnly
  \/ scene = "book" /\ Book!LullAsks /\ bookOnly
  \/ scene = "fairLine" /\ FairLine!BusyTaskEnds(call2) /\ fairLineOnly
  \/ scene = "pair" /\ Pair!CodeRunsOut /\ pairOnly
  \/ scene = "mic" /\ Room!Builds(2) /\ micOnly
Fair12 ==
  \/ scene = "held" /\ Held!PutLine("notice") /\ heldOnly
  \/ scene = "hold" /\ (\E n \in Hold!Replies : Hold!ToolEnds(n)) /\ holdOnly
  \/ scene = "book" /\ Book!LullOver /\ bookOnly
  \/ scene = "fairLine" /\ call2 \in v9 /\ FairLine!PickUp(call2) /\ fairLineOnly
  \/ scene = "pair" /\ Pair!PollEnds /\ pairOnly
  \/ scene = "mic" /\ Room!Refuses(2) /\ micOnly
Fair13 ==
  \/ scene = "hold" /\ Hold!Reconciles /\ holdOnly
  \/ scene = "fairLine" /\ FairLine!Leaves(call2) /\ fairLineOnly
  \/ scene = "pair" /\ Pair!WaitEnds /\ pairOnly
  \/ scene = "mic" /\ Room!Granted(2) /\ micOnly
Fair14 ==
  \/ scene = "fairLine" /\ v3[call2] = "leaving" /\ FairLine!CallEnds(call2) /\ fairLineOnly
  \/ scene = "mic" /\ Room!Over_(2) /\ micOnly

Fairness == WF_vars(Fair1) /\ WF_vars(Fair2) /\ WF_vars(Fair3) /\
            WF_vars(Fair4) /\ WF_vars(Fair5) /\ WF_vars(Fair6) /\
            WF_vars(Fair7) /\ WF_vars(Fair8) /\ WF_vars(Fair9) /\
            WF_vars(Fair10) /\ WF_vars(Fair11) /\ WF_vars(Fair12) /\
            WF_vars(Fair13) /\ WF_vars(Fair14)

Spec == Init /\ [][Next]_vars /\ Fairness

-----------------------------------------------------------------------------
(* What the part of this behaviour owes, and when it has made it good.               *)
AreDue ==
  CASE scene = "talks" -> Clients!AreDue
    [] scene = "room" -> Kitchen!AreDue
    [] scene = "held" -> Held!AreDue
    [] scene = "turn" -> Turn!AreDue
    [] scene = "hold" -> Hold!AreDue
    [] scene = "book" -> Book!AreDue
    [] scene = "notes" -> Notes!AreDue
    [] scene = "ledger" -> Ledger!AreDue
    [] scene = "control" -> Claimed!AreDue
    [] scene = "fairLine" -> FairLine!AreDue
    [] scene = "pair" -> Pair!AreDue
    [] scene = "device" -> Device!AreDue
    [] scene = "key" -> Key!AreDue
    [] scene = "mic" -> Room!AreDue
    [] scene = "wifi" -> Wifi!AreDue
    [] scene = "voice" -> Voice!AreDue
    [] scene = "slices" -> Slices!AreDue

AreKept ==
  CASE scene = "talks" -> Clients!AreKept
    [] scene = "room" -> Kitchen!AreKept
    [] scene = "held" -> Held!AreKept
    [] scene = "turn" -> Turn!AreKept
    [] scene = "hold" -> Hold!AreKept
    [] scene = "book" -> Book!AreKept
    [] scene = "notes" -> Notes!AreKept
    [] scene = "ledger" -> Ledger!AreKept
    [] scene = "control" -> Claimed!AreKept
    [] scene = "fairLine" -> FairLine!AreKept
    [] scene = "pair" -> Pair!AreKept
    [] scene = "device" -> Device!AreKept
    [] scene = "key" -> Key!AreKept
    [] scene = "mic" -> Room!AreKept
    [] scene = "wifi" -> Wifi!AreKept
    [] scene = "voice" -> Voice!AreKept
    [] scene = "slices" -> Slices!AreKept

(* Whatever of these a part has promised it makes good: every question,     *)
(* call and restart ends, every word, note, frame and answer goes where it  *)
(* is to go, every phone, claim and turn is answered, a code comes off the  *)
(* screen, and the room's bridge comes back.                                *)
EveryPromiseKept == (promise \in AreDue) ~> (promise \in AreKept)
=============================================================================
