---------------------------- MODULE RepliesProofs ----------------------------
(***************************************************************************)
(* What holds of the components of a reply, for all values of their        *)
(* constants.  They share no state: each is an instance of its own.        *)
(***************************************************************************)
EXTENDS Replies, Naturals, QueuesProofs

-----------------------------------------------------------------------------
(* The gate: no result is left unread.                                      *)

GateInv == due \in Nat /\ Gate!ResultIsRead

\* Every step of the gate hands a result on, or leaves it where it is.
LEMMA GateKeeps ==
  ASSUME GateInv, [Gate!Next]_Gate!vars
  PROVE  GateInv'
  <1>. USE DEF GateInv, Gate!ResultIsRead,
               Gate!speechVars, Gate!waitVars, Gate!boundVars, Gate!turnVars
  <1>1. CASE Gate!VADStarts
    BY <1>1 DEF Gate!VADStarts
  <1>2. CASE Gate!VADStops
    BY <1>2 DEF Gate!VADStops
  <1>3. CASE Gate!SpeechOver
    BY <1>3 DEF Gate!SpeechOver, Gate!Released
  <1>4. CASE Gate!TurnStarts
    BY <1>4 DEF Gate!TurnStarts, Gate!Interrupts, Gate!DropRun
  <1>5. CASE Gate!TurnCommits
    BY <1>5 DEF Gate!TurnCommits, Gate!words_committed
  <1>6. CASE Gate!OwnLine
    <2>1. UNCHANGED <<user, unread, due>> /\ (unread /\ ~lost' => due # 0)
      BY <1>6, Zenon DEF Gate!OwnLine
    <2>2. due # 0 => due > 0
      OBVIOUS
    <2>. QED BY <2>1, <2>2
  <1>7. CASE Gate!Hold
    BY <1>7 DEF Gate!Hold
  <1>8. CASE Gate!Rendered
    BY <1>8 DEF Gate!Rendered
  <1>9. CASE Gate!Completes
    BY <1>9 DEF Gate!Completes
  <1>10. CASE Gate!LateEnd
    BY <1>10 DEF Gate!LateEnd
  <1>11. CASE Gate!BotStops
    BY <1>11 DEF Gate!BotStops
  <1>12. CASE Gate!CallStarts
    BY <1>12 DEF Gate!CallStarts
  <1>13. CASE Gate!CallResult
    BY <1>13 DEF Gate!CallResult, Gate!CallSettled
  <1>14. CASE Gate!AnswerComes
    <2>1. due' \in Nat
      BY <1>14 DEF Gate!AnswerComes
    <2>2. user \/ answer' \/ asked' # {}
      BY <1>14, Zenon DEF Gate!AnswerComes
    <2>3. UNCHANGED <<user, unread, lost>>
      BY <1>14 DEF Gate!AnswerComes
    <2>. QED BY <2>1, <2>2, <2>3
  <1>15. CASE Gate!AnswerCapped
    BY <1>15 DEF Gate!AnswerCapped, Gate!Released
  <1>16. CASE Gate!Ask
    BY <1>16 DEF Gate!Ask
  <1>17. CASE Gate!AskNote
    BY <1>17 DEF Gate!AskNote
  <1>18. CASE Gate!DoorOpens
    BY <1>18 DEF Gate!DoorOpens
  <1>19. CASE Gate!RunGoes
    BY <1>19 DEF Gate!RunGoes, Gate!Goes, Gate!prompt, Gate!door_open, Gate!clear, Gate!caller_speaking
  <1>20. CASE Gate!RunCapped
    BY <1>20 DEF Gate!RunCapped
  <1>21. CASE Gate!NoteWaits
    BY <1>21 DEF Gate!NoteWaits
  <1>22. CASE Gate!NoteGoes
    BY <1>22 DEF Gate!NoteGoes, Gate!Goes, Gate!prompt, Gate!clear
  <1>23. CASE Gate!Over
    BY <1>23 DEF Gate!Over, Gate!vars
  <1>24. CASE UNCHANGED Gate!vars
    BY <1>24 DEF Gate!vars
  <1>25. CASE Gate!TurnEndsEmpty
    BY <1>25 DEF Gate!TurnEndsEmpty
  <1>. QED BY <1>25, <1>1, <1>2, <1>3, <1>4, <1>5, <1>6, <1>7, <1>8, <1>9, <1>10, <1>11, <1>12, <1>13, <1>14, <1>15, <1>16, <1>17, <1>18, <1>19, <1>20, <1>21, <1>22, <1>23, <1>24 DEF Gate!Next

(* Of the parts that answer, the gate goes its own way. *)
LEMMA GateAlone == [Next]_vars => [Gate!Next]_Gate!vars
BY DEF Next, BookGoes, GateGoes, NotesGoes, LedgerGoes, HoldGoes, SlicesGoes, CorrectsGoes,
   bookOnly, notesOnly, ledgerOnly, holdOnly, slicesOnly, correctsOnly, vars, gateVars,
   Gate!vars, Gate!speechVars, Gate!waitVars, Gate!boundVars, Gate!turnVars

(* A tool's result is read: by a request on its way, by the answer held or  *)
(* to be asked for, or by the turn that is open; unless a line of the       *)
(* session's own, or a turn with nothing to commit, dropped its answer.     *)
THEOREM ResultsAreRead == Spec => []ResultIsRead
  <1>1. Init => GateInv
    BY DEF Init, Gate!Init, GateInv, Gate!ResultIsRead
  <1>2. GateInv /\ [Next]_vars => GateInv'
    BY GateKeeps, GateAlone
  <1>3. GateInv => ResultIsRead
    BY DEF GateInv, ResultIsRead
  <1>. QED BY <1>1, <1>2, <1>3, PTL DEF Spec

-----------------------------------------------------------------------------
(* The book: an answer owed is in somebody's hands.                         *)

Keys == Book!Keys

Record == [state: Book!States, left: Nat, told: Nat, cuts: Nat, reoffers: 0..1,
           missed: BOOLEAN, decline: {"no", "cut", "said"}, born: Nat,
           failure: BOOLEAN, ids: SUBSET Tools, waits: BOOLEAN]
Records == [Keys -> Record]

Reply == [kind: {"none", "commit", "post"} \cup Book!Runs, noted: SUBSET Keys, fresh: SUBSET Tools,
          n: Nat, cut: {"no", "caller", "own"}, said: BOOLEAN, blocks: BOOLEAN]
Judging == [asks: SUBSET Keys, cut: BOOLEAN, fresh: SUBSET Tools, owes: BOOLEAN,
            blocks: BOOLEAN, own: BOOLEAN, said: BOOLEAN, drops: SUBSET Keys]

(* A request that is no run's, and no run, is about nobody.                 *)
BookType ==
  /\ rec \in Records /\ born \in Nat /\ requests \in Nat
  /\ replies \subseteq Reply /\ judging \subseteq Judging /\ declining \subseteq Keys
  /\ view \in [kind: {"none", "commit", "post"} \cup Book!Runs, keys: SUBSET Keys,
               at: {"none", "settles", "reads", "waits"}, late: BOOLEAN]
  /\ view.kind \notin Book!Runs => view.keys = {}
  /\ run \in [keys: SUBSET Keys, purpose: {"none"} \cup Book!Runs]
  /\ run.purpose \notin Book!Runs => run.keys = {}
  /\ lull \in {"off", "waits", "reads"} /\ closed \in {"no", "ending", "over"}

BookInv == BookType /\ Book!NobodyForgotten

(* What is owed in t was owed in s, as it was, or is one of new.            *)
Follows(s, t, new) ==
  /\ t \in Records
  /\ \A k \in Book!owed(t) : k \notin new =>
       /\ k \in Book!owed(s) /\ t[k].reoffers = s[k].reoffers
       /\ s[k].waits => t[k].waits
       /\ s[k].missed => t[k].missed

\* What ends is not owed, and nothing else changes.
LEMMA EndFollows ==
  ASSUME NEW r \in Records, NEW ks, NEW how \in Book!States \ {"owed"}
  PROVE  Follows(r, Book!End(r, ks, how), {})
  <1>1. Book!End(r, ks, how) \in Records
    BY ZenonT(60) DEF Keys, Book!End, Records, Record
  <1>. QED BY ZenonT(60), <1>1 DEF Keys, Follows, Book!End, Book!owed, Records, Record

\* Whoever is evicted is dropped.
LEMMA EvictFollows ==
  ASSUME NEW r \in Records
  PROVE  Follows(r, Book!evict(r), {})
  <1>1. Follows(r, r, {})
    BY DEF Follows
  <1>. QED BY <1>1, EndFollows DEF Book!evict, Book!States

\* An answer owed is the only one more.
LEMMA OweFollows ==
  ASSUME NEW r \in Records, NEW k \in Keys, NEW n \in Nat, NEW failure \in BOOLEAN
  PROVE  Follows(r, Book!owe(r, k, n, failure), {k})
  <1>. DEFINE s == [r EXCEPT ![k] = [@ EXCEPT !.state = "owed", !.born = n, !.failure = failure]]
  <1>1. s \in Records
    BY ZenonT(60) DEF Records, Record, Book!States
  <1>2. Follows(s, Book!evict(s), {})
    BY <1>1, EvictFollows
  <1>3. \A l \in Keys : l # k => s[l] = r[l]
    BY DEF Records
  <1>. QED BY <1>2, <1>3 DEF Keys, Follows, Book!owe, Book!owed

\* Arming changes nothing but what is missed.
LEMMA ArmFollows ==
  ASSUME NEW r \in Records, NEW ks
  PROVE  /\ Follows(r, Book!arm(r, ks), {})
         /\ Book!owed(Book!arm(r, ks)) = Book!owed(r)
         /\ \A k \in ks \cap Book!owed(r) : Book!arm(r, ks)[k].missed
  <1>1. Book!arm(r, ks) \in Records
    BY DEF Keys, Book!arm, Records, Record
  <1>. QED BY <1>1 DEF Keys, Follows, Book!arm, Book!owed, Records, Record

\* What was told is not owed, and a try less changes nothing of it.
LEMMA ToldFollows ==
  ASSUME NEW r \in Records, NEW ks \in SUBSET Keys
  PROVE  /\ Follows(r, Book!told_all(r, ks), {})
         /\ (\A k \in ks : r[k].left > 0) => Follows(r, Book!try_less(r, ks), {})
  <1>. DEFINE toldAll == Book!told_all(r, ks)
              tryLess == Book!try_less(r, ks)
  <1>1. toldAll \in Records /\ \A k \in Keys : toldAll[k].state = "owed" => toldAll[k] = r[k]
    <2>1. \A x \in Record : /\ [x EXCEPT !.left = 0, !.state = "closed"] \in Record
                            /\ [x EXCEPT !.left = 0, !.state = "closed"].state = "closed"
      BY DEF Record, Book!States
    <2>. QED BY <2>1 DEF Book!told_all, Records, Keys
  <1>2. ASSUME \A k \in ks : r[k].left > 0
        PROVE  /\ tryLess \in Records
               /\ \A k \in Keys : /\ tryLess[k].state = r[k].state /\ tryLess[k].reoffers = r[k].reoffers
                                  /\ tryLess[k].waits = r[k].waits /\ tryLess[k].missed = r[k].missed
    <2>1. ASSUME NEW x \in Record, x.left > 0
          PROVE  /\ [x EXCEPT !.left = @ - 1] \in Record
                 /\ [x EXCEPT !.left = @ - 1].state = x.state
                 /\ [x EXCEPT !.left = @ - 1].reoffers = x.reoffers
                 /\ [x EXCEPT !.left = @ - 1].waits = x.waits
                 /\ [x EXCEPT !.left = @ - 1].missed = x.missed
      <3>1. \A a \in Nat : [x EXCEPT !.left = a] \in Record
        BY DEF Record
      <3>2. x.left - 1 \in Nat
        BY <2>1 DEF Record
      <3>. QED BY <3>1, <3>2 DEF Record
    <2>. QED BY <1>2, <2>1 DEF Book!try_less, Records, Keys
  <1>. HIDE DEF toldAll, tryLess
  <1>3. Follows(r, toldAll, {})
    BY <1>1 DEF Follows, Book!owed, Keys
  <1>4. (\A k \in ks : r[k].left > 0) => Follows(r, tryLess, {})
    BY <1>2 DEF Follows, Book!owed, Keys
  <1>. QED BY <1>3, <1>4 DEF toldAll, tryLess

\* A cut answer is the only one more, and is armed.
LEMMA CutAnswerFollows ==
  ASSUME NEW r \in Records, NEW counted \in BOOLEAN, NEW spoke \in BOOLEAN,
         NEW ks \in SUBSET Tools, NEW n \in Nat
  PROVE  LET t == Book!cut_answer(r, counted, spoke, ks, n) IN
         /\ t \in Records
         /\ \E new \in SUBSET ks :
              /\ Follows(r, t, new)
              /\ \A k \in new \cap Book!owed(t) : t[k].missed
  <1>1. CASE ks = {}
    BY <1>1 DEF Book!cut_answer, Follows
  <1>2. CASE ks # {}
    <2>. DEFINE k  == CHOOSE x \in ks : TRUE
                r1 == [x \in Keys |-> IF x \in ks THEN [r[x] EXCEPT !.left = 0, !.state = "closed"] ELSE r[x]]
                r2 == [r1 EXCEPT ![k].ids = ks, ![k].cuts = IF counted THEN 1 ELSE 0,
                                 ![k].decline = IF ~counted THEN "no" ELSE IF spoke THEN "said" ELSE "cut"]
                r3 == Book!owe(r2, k, n, FALSE)
                r4 == Book!arm(r3, {k})
    <2>6. Book!cut_answer(r, counted, spoke, ks, n) = r4
      BY <1>2 DEF Book!cut_answer, Keys
    <2>1. k \in ks /\ k \in Keys
      BY <1>2 DEF Keys, Book!Keys
    <2>. HIDE DEF k
    <2>2. r1 \in Records /\ Follows(r, r1, {})
      <3>1. \A x \in Record : [x EXCEPT !.left = 0, !.state = "closed"] \in Record
        BY DEF Record, Book!States
      <3>2. r1 \in Records
        BY <3>1 DEF Records
      <3>3. \A x \in Keys : r1[x].state = "owed" => r1[x] = r[x]
        BY <3>1 DEF Records, Record
      <3>. HIDE DEF r1
      <3>. QED BY <3>2, <3>3 DEF Follows, Book!owed, Keys
    <2>. HIDE DEF r1
    <2>3. r2 \in Records /\ Follows(r1, r2, {})
      <3>. DEFINE ncuts == IF counted THEN 1 ELSE 0
                  decline == IF ~counted THEN "no" ELSE IF spoke THEN "said" ELSE "cut"
      <3>1. ncuts \in Nat /\ decline \in {"no", "cut", "said"}
        OBVIOUS
      <3>. HIDE DEF ncuts, decline
      <3>2. r2 = [r1 EXCEPT ![k] = [r1[k] EXCEPT !.ids = ks, !.cuts = ncuts, !.decline = decline]]
        BY <2>1, <2>2 DEF Records, Record, ncuts, decline
      <3>3. [r1[k] EXCEPT !.ids = ks, !.cuts = ncuts, !.decline = decline] \in Record
        <4>1. \A x \in Record, i \in SUBSET Tools, a \in Nat, d \in {"no", "cut", "said"} :
                [x EXCEPT !.ids = i, !.cuts = a, !.decline = d] \in Record
          BY DEF Record
        <4>2. r1[k] \in Record
          BY <2>1, <2>2 DEF Records
        <4>. QED BY <3>1, <4>1, <4>2
      <3>. HIDE DEF r2
      <3>4. r2 \in Records
        BY <2>1, <2>2, <3>2, <3>3 DEF Records
      <3>5. \A x \in Keys : r2[x].state = r1[x].state /\ r2[x].reoffers = r1[x].reoffers
                             /\ r2[x].waits = r1[x].waits /\ r2[x].missed = r1[x].missed
        BY <2>1, <2>2, <3>2 DEF Records, Record
      <3>. QED BY <3>4, <3>5 DEF Follows, Book!owed, Keys
    <2>. HIDE DEF r2
    <2>4. r3 \in Records /\ Follows(r2, r3, {k})
      BY <2>1, <2>3, OweFollows DEF Follows
    <2>. HIDE DEF r3
    <2>5. r4 \in Records /\ Follows(r3, r4, {})
          /\ \A x \in {k} \cap Book!owed(r4) : r4[x].missed
      BY <2>4, ArmFollows DEF Follows
    <2>. HIDE DEF r4
    <2>7. Follows(r, r4, {k})
      BY <2>2, <2>3, <2>4, <2>5 DEF Follows
    <2>. QED BY <2>1, <2>5, <2>6, <2>7
  <1>. QED BY <1>1, <1>2

\* What is r0 is watched for.
LEMMA ArmedWatches ==
  ASSUME BookType, NEW ks
  PROVE  /\ Book!armed(ks) \in {"off", "waits", "reads"}
         /\ lull # "off" => Book!armed(ks) # "off"
         /\ ks # {} /\ closed = "no" => Book!armed(ks) # "off"
  BY DEF BookType, Book!armed

\* A reply that settles: a run's has what it left unheard r0, and so has what it owes.
LEMMA SettleFollows ==
  ASSUME BookType, NEW p \in replies, NEW end \in Book!Ends, Book!settle(p, end)
  PROVE  /\ rec' \in Records /\ born' \in Nat
         /\ replies' = replies \ {p} /\ judging' \subseteq Judging
         /\ lull' \in {"off", "waits", "reads"}
         /\ lull # "off" => lull' # "off"
         /\ \E new \in SUBSET Keys :
              /\ Follows(rec, rec', new)
              /\ closed = "no" =>
                   \A k \in Book!owed(rec') :
                     k \in new \/ (p.kind \in Book!Runs /\ k \in p.noted) => rec'[k].missed /\ lull' # "off"
  <1>. DEFINE was == {k \in Book!evidence(p) : rec[k].state = "owed"}
              got == [k \in was |-> Book!Heard(p, k, end)]
              r1 == [k \in Keys |-> IF k \in was THEN got[k].r ELSE rec[k]]
              missed == Book!Missed(p, end, r1)
              fresh == {k \in p.fresh : rec[k].left > 0}
              telling == IF Book!tells_fresh(end) THEN fresh ELSE {}
              r0 == Book!arm(r1, missed)
              r2 == Book!try_less(r0, fresh \ telling)
              asks == {k \in was : got[k].asked}
              owes == telling # {} /\ end.owes
              judged == asks # {} \/ (owes /\ end.how = "cut")
              counted == p.cut # "own" /\ end.how = "unaligned"
              j == [asks |-> asks, cut |-> end.how # "whole", fresh |-> telling, owes |-> owes,
                    blocks |-> p.blocks, own |-> p.cut = "own", said |-> p.said,
                    drops |-> {k \in asks : got[k].drops}]
  <1>1. /\ replies' = replies \ {p}
        /\ judging' = judging \/ judging' = judging \cup {j}
        /\ \/ judged /\ rec' = r2 /\ born' = born /\ lull' = Book!armed(missed)
           \/ /\ ~judged /\ owes /\ rec' = Book!cut_answer(r2, counted, p.said, telling, born + 1)
              /\ born' = born + 1 /\ lull' = Book!armed(missed \cup telling)
           \/ /\ ~judged /\ ~owes /\ rec' = Book!told_all(r2, telling)
              /\ born' = born /\ lull' = Book!armed(missed)
    BY DEF Book!settle, Keys
  <1>2. p \in Reply /\ rec \in Records /\ born \in Nat /\ born + 1 \in Nat
    BY DEF BookType
  <1>0. Book!evidence(p) \subseteq Keys /\ p.noted \subseteq Book!evidence(p)
    BY <1>2 DEF Book!evidence, Reply, Keys
  <1>14. end.how \in {"whole", "cut", "unaligned", "textless", "unheard", "silent"} /\ end.owes \in BOOLEAN
    BY DEF Book!Ends
  <1>3. ASSUME NEW k \in was
        PROVE  /\ got[k].r \in Record /\ got[k].r.left = rec[k].left
               /\ got[k].r.state = "owed" =>
                    /\ got[k].r.reoffers = rec[k].reoffers /\ got[k].r.waits = rec[k].waits
                    /\ got[k].r.missed = rec[k].missed
    <2>1. rec[k] \in Record
      BY <1>0, <1>2 DEF Records
    <2>2. got[k] = Book!Heard(p, k, end)
      OBVIOUS
    <2>. QED BY ZenonT(60), <2>1, <2>2 DEF Book!Heard, Record, Book!States
  <1>4. /\ r1 \in Records /\ Follows(rec, r1, {})
        /\ \A k \in Keys : r1[k].left = rec[k].left
    BY <1>2, <1>3 DEF Records, Follows, Book!owed, Keys
  <1>9. j \in Judging
    BY <1>0, <1>2 DEF Judging, Reply
  <1>11. p.kind \in Book!Runs => p.noted \cap Book!owed(r1) \subseteq missed
    BY <1>0 DEF Book!Missed
  <1>15. counted \in BOOLEAN /\ telling \in SUBSET Tools /\ p.said \in BOOLEAN
    BY <1>2 DEF Reply
  <1>16. telling \in SUBSET Keys
    BY <1>15 DEF Keys, Book!Keys
  <1>. HIDE DEF r1, j, counted, missed
  <1>5. /\ r0 \in Records /\ Follows(r1, r0, {}) /\ Book!owed(r0) = Book!owed(r1)
        /\ \A k \in missed \cap Book!owed(r1) : r0[k].missed
    BY <1>4, ArmFollows DEF Follows
  <1>6. \A k \in fresh : k \in Keys /\ r0[k].left > 0
    <2>1. \A k \in fresh : k \in Keys
      BY <1>2 DEF Reply, Keys, Book!Keys
    <2>2. \A k \in Keys : r0[k].left = r1[k].left
      BY <1>4 DEF Book!arm, Records, Record, Keys
    <2>. QED BY <1>4, <2>1, <2>2
  <1>. HIDE DEF r0, fresh, telling
  <1>7. r2 \in Records /\ Follows(r0, r2, {})
    BY <1>5, <1>6, ToldFollows DEF Follows
  <1>. HIDE DEF r2, owes, judged
  <1>8. Follows(rec, r2, {}) /\ Follows(r1, r2, {})
    BY <1>4, <1>5, <1>7 DEF Follows
  <1>12. PICK new \in SUBSET Keys :
           /\ Follows(r2, rec', new)
           /\ new # {} => new \subseteq telling /\ lull' = Book!armed(missed \cup telling)
           /\ \A k \in new \cap Book!owed(rec') : rec'[k].missed
    <2>1. CASE rec' = r2
      <3>1. Follows(r2, rec', {})
        BY <1>7, <2>1 DEF Follows
      <3>. QED BY <3>1
    <2>2. CASE rec' = Book!told_all(r2, telling)
      BY <1>7, <1>16, <2>2, ToldFollows
    <2>3. CASE rec' = Book!cut_answer(r2, counted, p.said, telling, born + 1)
               /\ lull' = Book!armed(missed \cup telling)
      <3>1. PICK new \in SUBSET telling : Follows(r2, rec', new) /\ \A k \in new \cap Book!owed(rec') : rec'[k].missed
        BY <1>2, <1>7, <1>15, <2>3, CutAnswerFollows
      <3>. QED BY <1>16, <2>3, <3>1
    <2>. QED BY <1>1, <2>1, <2>2, <2>3
  <1>13. Follows(rec, rec', new) /\ rec' \in Records
    BY <1>8, <1>12 DEF Follows
  <1>17. PICK ks : lull' = Book!armed(ks) /\ missed \subseteq ks
    BY <1>1
  <1>18. lull' \in {"off", "waits", "reads"} /\ (lull # "off" => lull' # "off")
    BY <1>17, ArmedWatches
  <1>10. ASSUME closed = "no", NEW k \in Book!owed(rec'),
                k \in new \/ (p.kind \in Book!Runs /\ k \in p.noted)
         PROVE  rec'[k].missed /\ lull' # "off"
    <2>1. CASE k \in new
      BY <1>10, <1>12, <2>1, ArmedWatches
    <2>2. CASE k \notin new
      <3>1. k \in Book!owed(r2) /\ (r2[k].missed => rec'[k].missed)
        BY <1>10, <1>12, <2>2 DEF Follows
      <3>2. k \in Book!owed(r0) /\ (r0[k].missed => r2[k].missed)
        BY <1>7, <3>1 DEF Follows
      <3>3. k \in missed
        BY <1>5, <1>10, <1>11, <2>2, <3>2
      <3>. QED BY <1>5, <1>10, <1>17, <3>1, <3>2, <3>3, ArmedWatches
    <2>. QED BY <2>1, <2>2
  <1>. QED BY <1>1, <1>2, <1>9, <1>10, <1>13, <1>18 DEF BookType

\* The verdicts on a reply: whoever is owed by them is r0.
LEMMA ApplyFollows ==
  ASSUME BookType, NEW j \in judging, NEW hs, NEW how \in {"told", "owed", "no_answer"},
         Book!apply(j, hs, how)
  PROVE  /\ rec' \in Records /\ born' \in Nat
         /\ lull' \in {"off", "waits", "reads"}
         /\ lull # "off" => lull' # "off"
         /\ \E new \in SUBSET Keys :
              /\ Follows(rec, rec', new)
              /\ closed = "no" => \A k \in new \cap Book!owed(rec') : rec'[k].missed /\ lull' # "off"
  <1>. DEFINE opening == {k \in j.asks : rec[k].state = "owed"}
              r1 == Book!End(rec, opening \cap hs, "closed")
              r2 == Book!End(r1, (opening \ hs) \cap j.drops, "dropped")
              fresh == {k \in j.fresh : rec[k].left > 0}
              owes == how = "owed" /\ fresh # {}
  <1>1. /\ rec' = CASE how = "owed" -> Book!cut_answer(r2, ~j.own, j.said, fresh, born + 1)
                     [] how = "told" -> Book!told_all(r2, fresh)
                     [] how = "no_answer" -> Book!try_less(r2, fresh)
        /\ born' = IF owes THEN born + 1 ELSE born
        /\ lull' = Book!armed(IF owes THEN fresh ELSE {})
    BY DEF Book!apply
  <1>2. j \in Judging /\ rec \in Records /\ born + 1 \in Nat /\ born' \in Nat
    <2>1. j \in Judging /\ rec \in Records /\ born \in Nat
      BY SMTT(30) DEF BookType
    <2>2. born' = born \/ born' = born + 1
      BY <1>1
    <2>. QED BY <2>1, <2>2
  <1>3. r1 \in Records /\ Follows(rec, r1, {})
    BY <1>2, EndFollows DEF Follows, Book!States
  <1>4. r2 \in Records /\ Follows(r1, r2, {})
    BY <1>3, EndFollows DEF Follows, Book!States
  <1>10. fresh \in SUBSET Tools /\ fresh \in SUBSET Keys
    BY <1>2 DEF Judging, Keys, Book!Keys
  <1>5. \A k \in fresh : r2[k].left > 0
    <2>1. \A x \in Records : \A ks, h : \A k \in Keys : Book!End(x, ks, h)[k].left = x[k].left
      BY DEF Book!End, Records, Record, Keys
    <2>2. \A k \in Keys : r1[k].left = rec[k].left
      BY <1>2, <2>1
    <2>3. \A k \in Keys : r2[k].left = r1[k].left
      BY <1>3, <2>1
    <2>. QED BY <1>10, <2>2, <2>3
  <1>. HIDE DEF r1, r2, fresh, opening
  <1>6. Follows(r2, Book!told_all(r2, fresh), {}) /\ Follows(r2, Book!try_less(r2, fresh), {})
    BY <1>4, <1>5, <1>10, ToldFollows
  <1>8. CASE how # "owed"
    <2>1. Follows(rec, rec', {}) /\ rec' \in Records
      <3>1. rec' = Book!told_all(r2, fresh) \/ rec' = Book!try_less(r2, fresh)
        BY <1>1, <1>8
      <3>. QED BY <1>3, <1>4, <1>6, <3>1 DEF Follows
    <2>. QED BY <1>1, <1>2, <2>1, ArmedWatches
  <1>9. CASE how = "owed"
    <2>. DEFINE counted == ~j.own
    <2>1. rec' = Book!cut_answer(r2, counted, j.said, fresh, born + 1)
      BY <1>1, <1>9
    <2>2. counted \in BOOLEAN /\ j.said \in BOOLEAN
      BY <1>2 DEF Judging
    <2>. HIDE DEF counted
    <2>3. PICK new \in SUBSET fresh :
            /\ rec' \in Records /\ Follows(r2, rec', new)
            /\ \A k \in new \cap Book!owed(rec') : rec'[k].missed
      BY <1>2, <1>4, <1>10, <2>1, <2>2, CutAnswerFollows
    <2>5. Follows(rec, rec', new)
      BY <1>3, <1>4, <2>3 DEF Follows
    <2>6. closed = "no" /\ fresh # {} => lull' # "off"
      BY <1>1, <1>9, ArmedWatches
    <2>. QED BY <1>1, <1>2, <1>10, <2>3, <2>5, <2>6, ArmedWatches
  <1>. QED BY SMTT(30), <1>8, <1>9

(* The answers in somebody's hands that the lull loop does not watch.       *)
InHand ==
  run.keys \cup view.keys \cup {k \in Keys : \E p \in replies : p.kind \in Book!Runs /\ k \in p.noted}

\* Who lets go of an answer arms it, and it stays watched while it is owed.
LEMMA HandedOn ==
  ASSUME BookInv, closed = "no", NEW new, Follows(rec, rec', new), lull # "off" => lull' # "off",
         \A k \in (InHand \cup new) \cap Book!owed(rec') :
           k \in InHand' \/ rec'[k].waits \/ (rec'[k].missed /\ lull' # "off")
  PROVE  Book!NobodyForgotten'
  <1>. SUFFICES ASSUME NEW k \in Book!owed(rec'), rec'[k].reoffers # 1, ~rec'[k].waits
                PROVE  k \in InHand' \/ (rec'[k].missed /\ lull' # "off")
    BY DEF Book!NobodyForgotten, InHand
  <1>0. k \in Keys
    BY DEF Book!owed, Keys
  <1>1. CASE k \in new
    BY <1>1
  <1>2. CASE k \notin new
    <2>1. /\ k \in Book!owed(rec) /\ rec[k].reoffers # 1 /\ ~rec[k].waits
          /\ rec[k].missed => rec'[k].missed
      BY <1>2 DEF Follows
    <2>2. k \in InHand \/ (rec[k].missed /\ lull # "off")
      BY <1>0, <2>1 DEF BookInv, Book!NobodyForgotten, InHand
    <2>. QED BY <2>1, <2>2
  <1>. QED BY <1>1, <1>2

\* A session that is ending forgets nobody: what it knew comes back.
LEMMA NotOpen == closed' # "no" => Book!NobodyForgotten'
  BY DEF Book!NobodyForgotten

\* Every step of the book keeps who is owed in hand.
LEMMA BookKeeps ==
  ASSUME BookInv, [Book!Next]_Book!vars
  PROVE  BookInv'
  <1>. USE DEF BookInv
  <1>0. rec \in Records /\ Follows(rec, rec, {})
    BY DEF BookType, Follows
  <1>91. /\ \A x \in Reply : /\ \A c \in {"no", "caller", "own"} : [x EXCEPT !.cut = c] \in Reply
                              /\ [x EXCEPT !.said = TRUE] \in Reply /\ [x EXCEPT !.blocks = FALSE] \in Reply
         /\ \A x \in Judging : /\ [x EXCEPT !.said = TRUE] \in Judging
                                /\ [x EXCEPT !.blocks = FALSE] \in Judging
    BY DEF Reply, Judging
  <1>1. ASSUME NEW k \in Keys, Book!Dispatch(k) PROVE BookInv'
    <2>0. closed = "no" /\ UNCHANGED <<born, view, requests, replies, judging, declining, lull, run, closed>>
      BY <1>1 DEF Book!Dispatch
    <2>1. rec' \in Records /\ Follows(rec, rec', {})
      <3>1. PICK st \in {"running", "answer"}, n \in Nat :
              rec' = [rec EXCEPT ![k] = [rec[k] EXCEPT !.state = st, !.left = n]]
        <4>1. /\ rec' = [rec EXCEPT ![k].state = IF k \in Consults THEN "running" ELSE "answer",
                                   ![k].left = IF k \in Consults THEN 0 ELSE 2]
              /\ rec[k] \in Record
          BY <1>0, <1>1 DEF Book!Dispatch, Records
        <4>2. CASE k \in Consults
          BY <1>0, <4>1, <4>2 DEF Records, Record
        <4>3. CASE k \notin Consults
          BY <1>0, <4>1, <4>3 DEF Records, Record
        <4>. QED BY <4>2, <4>3
      <3>2. \A x \in Record : [x EXCEPT !.state = st, !.left = n] \in Record
        BY DEF Record, Book!States
      <3>3. rec' \in Records
        BY <1>0, <3>1, <3>2 DEF Records
      <3>4. \A l \in Keys : rec'[l].state = "owed" => rec'[l] = rec[l]
        BY <1>0, <3>1 DEF Records, Record
      <3>. QED BY SMTT(30), <3>3, <3>4 DEF Follows, Book!owed, Keys
    <2>2. BookType'
      BY <2>0, <2>1 DEF BookType
    <2>. QED BY <2>0, <2>1, <2>2, HandedOn DEF InHand
  <1>2. ASSUME NEW k \in Keys, Book!Land(k) PROVE BookInv'
    <2>. PICK failure \in BOOLEAN :
           LET r == Book!owe(rec, k, born + 1, failure) IN
           IF Book!caller_request_pending
           THEN rec' = Book!arm(r, {k}) /\ lull' = Book!armed({k}) /\ UNCHANGED run
           ELSE rec' = r /\ Book!ask({k}, "run") /\ UNCHANGED lull
      BY <1>2 DEF Book!Land
    <2>. DEFINE r == Book!owe(rec, k, born + 1, failure)
    <2>1. closed = "no" /\ born' = born + 1 /\ born + 1 \in Nat /\ k \in Keys
          /\ UNCHANGED <<caller, turns, view, requests, replies, judging, declining, closed>>
      BY <1>2 DEF Book!Land, BookType, Keys
    <2>2. r \in Records /\ Follows(rec, r, {k})
      BY <1>0, <2>1, OweFollows DEF Follows
    <2>. HIDE DEF r
    <2>3. CASE rec' = Book!arm(r, {k}) /\ lull' = Book!armed({k}) /\ UNCHANGED run
      <3>1. rec' \in Records /\ Follows(rec, rec', {k}) /\ \A l \in {k} \cap Book!owed(rec') : rec'[l].missed
        BY <2>2, <2>3, ArmFollows DEF Follows
      <3>2. lull' \in {"off", "waits", "reads"} /\ lull' # "off"
        BY <2>1, <2>3, ArmedWatches
      <3>3. BookType'
        BY <2>1, <2>3, <3>1, <3>2 DEF BookType
      <3>. QED BY <2>1, <2>3, <3>1, <3>2, <3>3, HandedOn DEF InHand
    <2>4. CASE rec' = r /\ Book!ask({k}, "run") /\ UNCHANGED lull
      <3>1. BookType'
        BY <2>1, <2>2, <2>4 DEF BookType, Book!ask, Book!Runs
      <3>. QED BY <2>1, <2>2, <2>4, <3>1, HandedOn DEF InHand, Book!ask
    <2>. QED BY <2>3, <2>4 DEF r
  <1>3. ASSUME NEW k \in Keys, Book!Cancelled(k) PROVE BookInv'
    <2>0. closed = "no" /\ UNCHANGED <<born, view, requests, replies, judging, declining, lull, run, closed>>
      BY <1>3 DEF Book!Cancelled
    <2>1. rec' \in Records /\ Follows(rec, rec', {})
      BY <1>3, <1>0 DEF Book!Cancelled, Records, Record, Book!States, Follows, Book!owed, Keys
    <2>2. BookType'
      BY <2>0, <2>1 DEF BookType
    <2>. QED BY <2>0, <2>1, <2>2, HandedOn DEF InHand
  <1>4. CASE Book!ReplyEnds
    <2>. PICK p \in replies, end \in Book!Ends : Book!settle(p, end)
      BY <1>4 DEF Book!ReplyEnds, Book!EndsOf
    <2>0. closed = "no" /\ UNCHANGED <<caller, turns, view, requests, declining, run, closed>>
      BY <1>4 DEF Book!ReplyEnds
    <2>1. /\ rec' \in Records /\ born' \in Nat
          /\ replies' = replies \ {p} /\ judging' \subseteq Judging
          /\ lull' \in {"off", "waits", "reads"}
          /\ lull # "off" => lull' # "off"
      BY SettleFollows
    <2>2. PICK new \in SUBSET Keys :
            /\ Follows(rec, rec', new)
            /\ \A k \in Book!owed(rec') :
                 k \in new \/ (p.kind \in Book!Runs /\ k \in p.noted) => rec'[k].missed /\ lull' # "off"
      BY <2>0, SettleFollows
    <2>3. BookType'
      BY <2>0, <2>1 DEF BookType
    <2>. QED BY <2>0, <2>1, <2>2, <2>3, HandedOn DEF InHand
  <1>5. CASE Book!Judged
    <2>3. PICK j \in judging : judging' = judging \ {j}
            /\ \E hs \in SUBSET j.asks, how \in {"told", "owed", "no_answer"} : Book!apply(j, hs, how)
      BY <1>5 DEF Book!Judged
    <2>. PICK hs \in SUBSET j.asks, how \in {"told", "owed", "no_answer"} : Book!apply(j, hs, how)
      BY <2>3
    <2>0. closed = "no" /\ UNCHANGED <<caller, turns, view, requests, replies, declining, run, closed>>
      BY <1>5 DEF Book!Judged
    <2>1. /\ rec' \in Records /\ born' \in Nat
          /\ lull' \in {"off", "waits", "reads"}
          /\ lull # "off" => lull' # "off"
          /\ \E new \in SUBSET Keys :
               /\ Follows(rec, rec', new)
               /\ closed = "no" => \A k \in new \cap Book!owed(rec') : rec'[k].missed /\ lull' # "off"
      BY ApplyFollows
    <2>2. BookType'
      BY <2>0, <2>1, <2>3 DEF BookType
    <2>. QED BY <2>0, <2>1, <2>2, HandedOn DEF InHand
  <1>6. CASE Book!Talks
    <2>0. closed = "no" /\ UNCHANGED <<rec, born, view, requests, replies, judging, declining, lull, run, closed>>
      BY <1>6 DEF Book!Talks
    <2>1. BookType'
      BY <2>0 DEF BookType
    <2>. QED BY <1>0, <2>0, <2>1, HandedOn DEF InHand
  <1>7. CASE Book!FallsQuiet
    <2>0. closed = "no" /\ UNCHANGED <<born, turns, view, requests, replies, judging, declining, closed>>
      BY <1>7 DEF Book!FallsQuiet
    <2>1. CASE Book!run_dropped
      <3>1. /\ rec' \in Records /\ Follows(rec, rec', {}) /\ Book!owed(rec') = Book!owed(rec)
            /\ \A k \in run.keys \cap Book!owed(rec') : rec'[k].missed
        BY <1>0, <2>1, ArmFollows DEF Book!run_dropped, Follows
      <3>2. /\ lull' \in {"off", "waits", "reads"}
            /\ lull # "off" => lull' # "off"
            /\ run.keys \cap Book!owed(rec') # {} => lull' # "off"
        BY <2>0, <2>1, <3>1, ArmedWatches DEF Book!run_dropped
      <3>3. run' = Book!NoRun
        BY <2>1 DEF Book!run_dropped
      <3>4. BookType'
        BY <2>0, <3>1, <3>2, <3>3 DEF BookType, Book!NoRun
      <3>. QED BY <2>0, <3>1, <3>2, <3>4, HandedOn DEF InHand
    <2>2. CASE UNCHANGED <<rec, lull, run>>
      <3>1. BookType'
        BY <2>0, <2>2 DEF BookType
      <3>. QED BY <1>0, <2>0, <2>2, <3>1, HandedOn DEF InHand
    <2>. QED BY <1>7, <2>1, <2>2 DEF Book!FallsQuiet
  <1>8. CASE Book!caller_turn
    <2>. DEFINE r == [k \in Keys |-> [rec[k] EXCEPT !.waits = FALSE]]
    <2>0. /\ closed = "no" /\ view' = Book!NoView /\ run' = Book!NoRun
          /\ rec' = Book!arm(r, Book!owed(rec)) /\ lull' = Book!armed(Book!owed(rec))
          /\ replies' = {[p EXCEPT !.cut = IF @ = "no" THEN "caller" ELSE @] : p \in replies}
          /\ UNCHANGED <<born, requests, judging, declining, closed>>
      BY <1>8 DEF Book!caller_turn, Keys
    <2>1. r \in Records /\ Book!owed(r) = Book!owed(rec)
      <3>1. \A x \in Record : [x EXCEPT !.waits = FALSE] \in Record /\ [x EXCEPT !.waits = FALSE].state = x.state
        BY DEF Record
      <3>2. \A k \in Keys : r[k] \in Record /\ r[k].state = rec[k].state
        BY <1>0, <3>1 DEF Records
      <3>. QED BY <3>2 DEF Records, Book!owed, Keys
    <2>. HIDE DEF r
    <2>2. /\ rec' \in Records /\ Book!owed(rec') = Book!owed(rec)
          /\ \A k \in Book!owed(rec') : rec'[k].missed
      BY <2>0, <2>1, ArmFollows DEF Follows
    <2>3. /\ lull' \in {"off", "waits", "reads"}
          /\ Book!owed(rec') # {} => lull' # "off"
      BY <2>0, <2>2, ArmedWatches
    <2>4. replies' \subseteq Reply
      <3>1. \A x \in replies' : \E p \in replies : x = [p EXCEPT !.cut = IF @ = "no" THEN "caller" ELSE @]
        BY <2>0
      <3>2. \A p \in Reply : [p EXCEPT !.cut = IF @ = "no" THEN "caller" ELSE @] \in Reply
        BY DEF Reply
      <3>3. replies \subseteq Reply
        BY DEF BookType
      <3>. QED BY <3>1, <3>2, <3>3, Zenon
    <2>5. BookType'
      BY <2>0, <2>2, <2>3, <2>4 DEF BookType, Book!NoView, Book!NoRun
    <2>6. Book!NobodyForgotten'
      BY <2>2, <2>3 DEF Book!NobodyForgotten
    <2>. QED BY <2>5, <2>6
  <1>27. CASE Book!OwnLine
    <2>. DEFINE gone == {k \in Book!owed(rec) : /\ view.kind \in Book!Runs /\ k \in view.keys
                                                /\ ~(rec[k].missed /\ lull # "off")}
    <2>0. /\ closed = "no" /\ view' = Book!NoView
          /\ requests' = requests \/ requests' = requests + 1
          /\ rec' = [k \in Keys |-> [rec[k] EXCEPT !.waits = @ \/ k \in gone]]
          /\ UNCHANGED <<born, turns, judging, declining, lull, run, closed>>
      BY <1>27 DEF Book!OwnLine, Keys
    <2>1. PICK late \in {"caller", "own"} :
            replies' = {[p EXCEPT !.cut = IF @ = "caller" THEN late ELSE "own"] : p \in replies}
      BY <1>27 DEF Book!OwnLine
    <2>2. /\ rec' \in Records
          /\ \A k \in Keys : /\ rec'[k].state = rec[k].state /\ rec'[k].reoffers = rec[k].reoffers
                             /\ rec'[k].missed = rec[k].missed
                             /\ rec'[k].waits = (rec[k].waits \/ k \in gone)
      <3>1. \A x \in Record, w \in BOOLEAN :
              /\ [x EXCEPT !.waits = w] \in Record /\ [x EXCEPT !.waits = w].state = x.state
              /\ [x EXCEPT !.waits = w].reoffers = x.reoffers /\ [x EXCEPT !.waits = w].missed = x.missed
              /\ [x EXCEPT !.waits = w].waits = w
        BY DEF Record
      <3>2. \A k \in Keys : /\ rec[k] \in Record /\ (rec[k].waits \/ k \in gone) \in BOOLEAN
                            /\ rec'[k] = [rec[k] EXCEPT !.waits = rec[k].waits \/ k \in gone]
        BY <1>0, <2>0 DEF Records, Record
      <3>3. rec' = [k \in Keys |-> rec'[k]]
        BY <2>0
      <3>4. ASSUME NEW k \in Keys
            PROVE  /\ rec'[k] \in Record
                   /\ rec'[k].state = rec[k].state /\ rec'[k].reoffers = rec[k].reoffers
                   /\ rec'[k].missed = rec[k].missed
                   /\ rec'[k].waits = (rec[k].waits \/ k \in gone)
        <4>. DEFINE w == rec[k].waits \/ k \in gone
        <4>1. rec[k] \in Record /\ w \in BOOLEAN /\ rec'[k] = [rec[k] EXCEPT !.waits = w]
          BY <3>2
        <4>. HIDE DEF w
        <4>. DEFINE x == rec[k]
                    y == [x EXCEPT !.waits = w]
        <4>3. /\ y \in Record /\ y.state = x.state /\ y.reoffers = x.reoffers
              /\ y.missed = x.missed /\ y.waits = w
          BY <3>1, <4>1
        <4>4. rec'[k] = y
          BY <4>1
        <4>. HIDE DEF y
        <4>2. /\ rec'[k] \in Record
              /\ rec'[k].state = rec[k].state /\ rec'[k].reoffers = rec[k].reoffers
              /\ rec'[k].missed = rec[k].missed /\ rec'[k].waits = w
          BY <4>3, <4>4
        <4>. QED BY Zenon, <4>2 DEF w
      <3>. HIDE DEF gone
      <3>5. rec' \in Records
        BY <3>3, <3>4 DEF Records
      <3>. QED BY <3>4, <3>5
    <2>3. Follows(rec, rec', {})
      BY <2>2 DEF Follows, Book!owed, Keys
    <2>4. /\ replies' \subseteq Reply
          /\ \A p \in replies : \E o \in replies' : o.kind = p.kind /\ o.noted = p.noted
      <3>1. \A p \in Reply : LET pp == [p EXCEPT !.cut = IF @ = "caller" THEN late ELSE "own"]
                             IN pp \in Reply /\ pp.kind = p.kind /\ pp.noted = p.noted
        BY DEF Reply
      <3>2. replies \subseteq Reply
        BY DEF BookType
      <3>. QED BY <2>1, <3>1, <3>2
    <2>5. BookType'
      BY <2>0, <2>2, <2>4 DEF BookType, Book!NoView
    <2>6. ASSUME NEW k \in view.keys \cap Book!owed(rec')
          PROVE  rec'[k].waits \/ (rec'[k].missed /\ lull' # "off")
      <3>1. k \in Keys /\ k \in Book!owed(rec) /\ view.kind \in Book!Runs
        BY <2>2, <2>6 DEF BookType, Book!owed, Keys
      <3>. QED BY <2>0, <2>2, <2>6, <3>1
    <2>. HIDE DEF gone
    <2>. QED BY <2>0, <2>3, <2>4, <2>5, <2>6, HandedOn DEF InHand
  <1>28. CASE Book!TurnEndsEmpty
    <2>0. closed = "no" /\ UNCHANGED <<rec, born, view, requests, replies, judging, declining, lull, run, closed>>
      BY <1>28 DEF Book!TurnEndsEmpty
    <2>1. BookType'
      BY <2>0 DEF BookType
    <2>. QED BY <1>0, <2>0, <2>1, HandedOn DEF InHand
  <1>9. CASE Book!Commit
    <2>0. /\ closed = "no" /\ view = Book!NoView
          /\ rec' = [k \in Keys |-> [rec[k] EXCEPT !.decline = IF @ = "cut" THEN "said" ELSE @]]
          /\ \/ view' = [kind |-> "commit", keys |-> {}, at |-> "settles", late |-> FALSE]
             \/ view' = view
          /\ replies' = {[p EXCEPT !.said = TRUE] : p \in replies}
          /\ judging' = {[j EXCEPT !.said = TRUE] : j \in judging}
          /\ UNCHANGED <<born, turns, requests, declining, lull, run, closed>>
      BY <1>9 DEF Book!Commit, Keys
    <2>1. rec' \in Records /\ Follows(rec, rec', {})
      <3>1. \A x \in Record : [x EXCEPT !.decline = IF @ = "cut" THEN "said" ELSE @] \in Record
        BY DEF Record
      <3>2. rec' \in Records
        BY <1>0, <2>0, <3>1 DEF Records
      <3>3. \A k \in Keys : /\ rec'[k].state = rec[k].state /\ rec'[k].reoffers = rec[k].reoffers
                            /\ rec'[k].waits = rec[k].waits /\ rec'[k].missed = rec[k].missed
        BY <1>0, <2>0 DEF Records, Record
      <3>. QED BY <3>2, <3>3 DEF Follows, Book!owed, Keys
    <2>2. /\ replies' \subseteq Reply /\ judging' \subseteq Judging
          /\ \A p \in replies : \E o \in replies' : o.kind = p.kind /\ o.noted = p.noted
      <3>1. replies' \subseteq Reply /\ judging' \subseteq Judging
        <4>1. /\ \A x \in replies' : \E p \in replies : x = [p EXCEPT !.said = TRUE]
              /\ \A x \in judging' : \E j \in judging : x = [j EXCEPT !.said = TRUE]
          BY <2>0
        <4>2. replies \subseteq Reply /\ judging \subseteq Judging
          BY DEF BookType
        <4>. QED BY <1>91, <4>1, <4>2, ZenonT(60)
      <3>2. \A p \in replies : [p EXCEPT !.said = TRUE].kind = p.kind /\ [p EXCEPT !.said = TRUE].noted = p.noted
        BY DEF BookType, Reply
      <3>. QED BY <2>0, <3>1, <3>2
    <2>4. /\ view' \in [kind: {"none", "commit", "post"} \cup Book!Runs, keys: SUBSET Keys,
                        at: {"none", "settles", "reads", "waits"}, late: BOOLEAN]
          /\ view'.kind \notin Book!Runs => view'.keys = {}
      <3>1. CASE view' = view
        BY <3>1 DEF BookType
      <3>2. CASE view' = [kind |-> "commit", keys |-> {}, at |-> "settles", late |-> FALSE]
        BY <3>2 DEF Book!Runs
      <3>. QED BY <2>0, <3>1, <3>2
    <2>3. BookType'
      BY <2>0, <2>1, <2>2, <2>4 DEF BookType
    <2>. QED BY <2>0, <2>1, <2>2, <2>3, HandedOn DEF InHand, Book!NoView
  <1>10. CASE Book!Post
    <2>0. /\ closed = "no" /\ view = Book!NoView
          /\ view' = [kind |-> "post", keys |-> {}, at |-> "settles", late |-> FALSE]
          /\ UNCHANGED <<rec, born, caller, turns, requests, replies, judging, declining, lull, run, closed>>
      BY <1>10 DEF Book!Post
    <2>1. BookType'
      BY <2>0 DEF BookType, Book!Runs
    <2>. QED BY <1>0, <2>0, <2>1, HandedOn DEF InHand, Book!NoView
  <1>11. CASE Book!RunGoes
    <2>0. /\ closed = "no" /\ view = Book!NoView
          /\ view' = [kind |-> run.purpose, keys |-> run.keys, at |-> "settles", late |-> FALSE]
          /\ run' = Book!NoRun
          /\ UNCHANGED <<rec, born, caller, turns, requests, replies, judging, declining, lull, closed>>
      BY <1>11 DEF Book!RunGoes
    <2>1. BookType'
      BY <2>0 DEF BookType, Book!Runs, Book!NoRun
    <2>. QED BY <1>0, <2>0, <2>1, HandedOn DEF InHand, Book!NoView
  <1>12. CASE Book!ViewSettled
    <2>0. /\ view' = [view EXCEPT !.at = "reads", !.late = replies # {} \/ judging # {}]
          /\ UNCHANGED <<rec, born, caller, turns, requests, replies, judging, declining, lull, run, closed>>
      BY <1>12 DEF Book!ViewSettled
    <2>1. BookType' /\ view'.keys = view.keys
      BY <2>0 DEF BookType
    <2>. QED BY <1>0, <2>0, <2>1, HandedOn, NotOpen DEF InHand
  <1>13. CASE Book!ViewTimesOut
    <2>0. /\ view' = [view EXCEPT !.at = "reads", !.late = TRUE]
          /\ UNCHANGED <<caller, turns, requests, declining, run, closed>>
      BY <1>13 DEF Book!ViewTimesOut
    <2>1. ASSUME NEW p \in replies, Book!settle(p, Book!Unheard)
          PROVE  BookInv'
      <3>0. Book!Unheard \in Book!Ends
        BY DEF Book!Unheard, Book!Ends
      <3>1. /\ rec' \in Records /\ born' \in Nat
            /\ replies' = replies \ {p} /\ judging' \subseteq Judging
            /\ lull' \in {"off", "waits", "reads"}
            /\ lull # "off" => lull' # "off"
        BY <2>1, <3>0, SettleFollows
      <3>2. PICK new \in SUBSET Keys :
              /\ Follows(rec, rec', new)
              /\ closed = "no" =>
                   \A k \in Book!owed(rec') :
                     k \in new \/ (p.kind \in Book!Runs /\ k \in p.noted) => rec'[k].missed /\ lull' # "off"
        BY <2>1, <3>0, SettleFollows
      <3>3. BookType' /\ view'.keys = view.keys
        BY <2>0, <3>1 DEF BookType
      <3>. QED BY <2>0, <3>1, <3>2, <3>3, HandedOn, NotOpen DEF InHand
    <2>2. ASSUME replies' = {[p EXCEPT !.blocks = FALSE] : p \in replies},
                 judging' = {[j EXCEPT !.blocks = FALSE] : j \in judging}, UNCHANGED <<rec, born, lull>>
          PROVE  BookInv'
      <3>1. /\ replies' \subseteq Reply /\ judging' \subseteq Judging
            /\ \A p \in replies : \E o \in replies' : o.kind = p.kind /\ o.noted = p.noted
        <4>0. /\ \A p \in Reply : [p EXCEPT !.blocks = FALSE] \in Reply
              /\ \A j \in Judging : [j EXCEPT !.blocks = FALSE] \in Judging
          BY DEF Reply, Judging
        <4>1. replies' \subseteq Reply /\ judging' \subseteq Judging
          BY <1>91, <2>2, <4>0 DEF BookType
        <4>2. \A p \in replies : [p EXCEPT !.blocks = FALSE].kind = p.kind /\ [p EXCEPT !.blocks = FALSE].noted = p.noted
          BY DEF BookType, Reply
        <4>. QED BY <2>2, <4>1, <4>2
      <3>2. BookType' /\ view'.keys = view.keys
        BY <2>0, <2>2, <3>1 DEF BookType
      <3>. QED BY <1>0, <2>0, <2>2, <3>1, <3>2, HandedOn, NotOpen DEF InHand
    <2>. QED BY <1>13, <2>1, <2>2 DEF Book!ViewTimesOut
  <1>14. ASSUME Book!declines_read
         PROVE  rec' \in Records /\ Follows(rec, rec', {}) /\ declining' \subseteq Keys
    <2>1. \A x \in Record : [x EXCEPT !.decline = "no"] \in Record
      BY DEF Record
    <2>2. rec' \in Records
      BY <1>0, <1>14, <2>1 DEF Book!declines_read, Records, Keys
    <2>3. \A k \in Keys : /\ rec'[k].state = rec[k].state /\ rec'[k].reoffers = rec[k].reoffers
                          /\ rec'[k].waits = rec[k].waits /\ rec'[k].missed = rec[k].missed
      BY <1>0, <1>14 DEF Book!declines_read, Records, Record, Keys
    <2>4. declining' \subseteq Keys
      BY <1>14 DEF Book!declines_read, Book!due_checks, Book!owed, Keys
    <2>. QED BY <2>2, <2>3, <2>4 DEF Follows, Book!owed, Keys
  <1>15. CASE Book!ViewReads
    <2>0. /\ view' = [view EXCEPT !.at = "waits"]
          /\ UNCHANGED <<born, caller, turns, requests, replies, judging, lull, run, closed>>
      BY <1>15 DEF Book!ViewReads
    <2>1. rec' \in Records /\ Follows(rec, rec', {}) /\ declining' \subseteq Keys
      BY <1>14, <1>15 DEF Book!ViewReads
    <2>2. BookType' /\ view'.keys = view.keys
      BY <2>0, <2>1 DEF BookType
    <2>. QED BY <2>0, <2>1, <2>2, HandedOn, NotOpen DEF InHand
  <1>16. CASE Book!DeclineJudged
    <2>0. /\ closed = "no" /\ declining' = {}
          /\ UNCHANGED <<born, caller, turns, view, requests, replies, judging, lull, run, closed>>
      BY <1>16 DEF Book!DeclineJudged
    <2>1. Follows(rec, rec', {})
      BY <1>0, <1>16, EndFollows DEF Book!DeclineJudged, Book!States
    <2>2. BookType'
      BY <2>0, <2>1 DEF BookType, Follows
    <2>. QED BY <2>0, <2>1, <2>2, HandedOn DEF InHand
  <1>17. CASE Book!Render
    <2>. DEFINE fresh(ks) == IF view.kind \in Book!Runs THEN {} ELSE {k \in Tools \ ks : rec[k].left > 0}
                reply(ks) == [kind |-> view.kind, noted |-> Book!Noted, fresh |-> fresh(ks),
                                 n |-> requests, cut |-> "no", said |-> FALSE,
                                 blocks |-> Book!Noted # {} \/ fresh(ks) # {}]
    <2>0. /\ view' = Book!NoView
          /\ UNCHANGED <<born, turns, judging, declining, lull, run, closed>>
      BY <1>17 DEF Book!Render
    <2>1. /\ Book!Noted \subseteq Keys
          /\ view.kind \in Book!Runs => Book!Noted = view.keys \cap Book!owed(rec)
      BY DEF Book!Noted, Book!owed, Keys
    <2>2. CASE view.kind \in Book!Runs /\ Book!Noted = {} /\ UNCHANGED <<rec, replies, requests>>
      <3>1. BookType'
        BY <2>0, <2>2 DEF BookType, Book!NoView, Book!Runs
      <3>. QED BY <1>0, <2>0, <2>1, <2>2, <3>1, HandedOn, NotOpen DEF InHand, BookType
    <2>3. ASSUME NEW ks \in SUBSET (IF view.kind \in Book!Runs THEN {} ELSE Book!carried),
                 requests' = requests + 1, rec' = Book!told_all(rec, ks),
                 replies' = replies \cup {reply(ks)}
          PROVE  BookInv'
      <3>1. ks \subseteq Keys /\ fresh(ks) \subseteq Tools
        BY DEF Keys, Book!Keys, Book!carried
      <3>2. Follows(rec, rec', {}) /\ rec' \in Records
        BY <1>0, <2>3, <3>1, ToldFollows DEF Follows
      <3>3. reply(ks) \in Reply
        BY <2>1, <3>1 DEF Reply, BookType
      <3>4. reply(ks).kind = view.kind /\ reply(ks).noted = Book!Noted
        OBVIOUS
      <3>. HIDE DEF fresh, reply
      <3>5. BookType'
        BY <2>0, <2>3, <3>2, <3>3 DEF BookType, Book!NoView, Book!Runs
      <3>6. \A k \in view.keys \cap Book!owed(rec) :
              \E p \in replies' : p.kind \in Book!Runs /\ k \in p.noted
        BY <2>1, <2>3, <3>4 DEF BookType
      <3>7. \A p \in replies : p \in replies'
        BY <2>3
      <3>8. Book!owed(rec') \subseteq Book!owed(rec)
        BY <3>2 DEF Follows
      <3>. QED BY <2>0, <3>2, <3>5, <3>6, <3>7, <3>8, HandedOn, NotOpen DEF InHand, BookType
    <2>. QED BY <1>17, <2>2, <2>3 DEF Book!Render
  <1>18. CASE Book!LullReads
    <2>0. lull' = "reads" /\ UNCHANGED <<born, caller, turns, view, requests, replies, judging, run, closed>>
      BY <1>18 DEF Book!LullReads
    <2>1. rec' \in Records /\ Follows(rec, rec', {}) /\ declining' \subseteq Keys
      BY <1>14, <1>18 DEF Book!LullReads
    <2>2. BookType'
      BY <2>0, <2>1 DEF BookType
    <2>. QED BY <2>0, <2>1, <2>2, HandedOn, NotOpen DEF InHand
  <1>19. CASE Book!LullAsks
    <2>0. lull' = "waits" /\ UNCHANGED <<born, caller, turns, view, requests, replies, judging, declining, closed>>
      BY <1>19 DEF Book!LullAsks
    <2>1. CASE UNCHANGED <<rec, run>>
      <3>1. BookType'
        BY <2>0, <2>1 DEF BookType
      <3>. QED BY <1>0, <2>0, <2>1, <3>1, HandedOn, NotOpen DEF InHand
    <2>2. ASSUME rec' = [k \in Keys |-> IF k \in Book!due
                                       THEN [rec[k] EXCEPT !.missed = FALSE, !.reoffers = 1] ELSE rec[k]],
                 Book!ask(Book!due, "reoffer")
          PROVE  BookInv'
      <3>1. \A x \in Record : [x EXCEPT !.missed = FALSE, !.reoffers = 1] \in Record
        <4>1. \A x \in Record, n \in 0..1 : [x EXCEPT !.missed = FALSE, !.reoffers = n] \in Record
          BY DEF Record
        <4>2. 1 \in 0..1
          OBVIOUS
        <4>. QED BY <4>1, <4>2
      <3>2. rec' \in Records
        BY <1>0, <2>2, <3>1 DEF Records
      <3>3. \A k \in Keys : /\ k \in Book!due => rec'[k].reoffers = 1
                            /\ k \notin Book!due => rec'[k] = rec[k]
                            /\ rec'[k].state = rec[k].state
        BY <1>0, <2>2 DEF Records, Record
      <3>4. BookType'
        BY <2>0, <2>2, <3>2 DEF BookType, Book!ask, Book!Runs, Book!due, Book!owed, Keys
      <3>5. Book!NobodyForgotten'
        BY <2>0, <2>2, <3>3 DEF Book!NobodyForgotten, Book!owed, Keys, Book!ask
      <3>. QED BY <3>4, <3>5
    <2>. QED BY <1>19, <2>1, <2>2 DEF Book!LullAsks, Keys
  <1>20. CASE Book!LullOver
    <2>0. /\ lull' = "off" /\ Book!due = {}
          /\ UNCHANGED <<rec, born, caller, turns, view, requests, replies, judging, declining, run, closed>>
      BY <1>20 DEF Book!LullOver
    <2>1. BookType'
      BY <2>0 DEF BookType
    <2>2. \A k \in Book!owed(rec) : rec[k].missed => rec[k].reoffers = 1
      BY <1>0, <2>0 DEF Book!due, Book!owed, Records, Record, Keys
    <2>3. Book!NobodyForgotten'
      BY <2>0, <2>2 DEF Book!NobodyForgotten
    <2>. QED BY <2>1, <2>3
  <1>21. CASE Book!SessionEnds
    <2>0. /\ closed' = "ending"
          /\ UNCHANGED <<rec, born, caller, turns, view, requests, replies, judging, declining, lull, run>>
      BY <1>21 DEF Book!SessionEnds
    <2>1. BookType'
      BY <2>0 DEF BookType
    <2>. QED BY <2>0, <2>1, NotOpen
  <1>22. ASSUME NEW k \in Keys, Book!LandUnknown(k) PROVE BookInv'
    <2>0. /\ closed = "ending" /\ rec' = Book!owe(rec, k, born + 1, TRUE) /\ born' = born + 1
          /\ UNCHANGED <<caller, turns, view, requests, replies, judging, declining, lull, run, closed>>
      BY <1>22 DEF Book!LandUnknown
    <2>1. born + 1 \in Nat
      BY DEF BookType
    <2>2. rec' \in Records
      BY <1>0, <2>0, <2>1, OweFollows DEF Follows
    <2>3. BookType'
      BY <2>0, <2>1, <2>2 DEF BookType
    <2>. QED BY <2>0, <2>3, NotOpen
  <1>23. CASE Book!ApplyUnjudged
    <2>0. closed = "ending" /\ UNCHANGED <<caller, turns, view, requests, replies, declining, run, closed>>
      BY <1>23 DEF Book!ApplyUnjudged
    <2>1. PICK j \in judging :
            judging' = judging \ {j} /\ Book!apply(j, IF j.cut THEN {} ELSE j.asks, IF j.owes THEN "owed" ELSE "told")
      BY <1>23 DEF Book!ApplyUnjudged
    <2>2. rec' \in Records /\ born' \in Nat /\ lull' \in {"off", "waits", "reads"}
      BY <2>1, ApplyFollows
    <2>3. BookType'
      BY <2>0, <2>1, <2>2 DEF BookType
    <2>. QED BY <2>0, <2>3, NotOpen
  <1>24. CASE Book!close_session
    <2>0. /\ closed' = "over" /\ view' = Book!NoView /\ replies' = {} /\ declining' = {}
          /\ lull' = "off" /\ run' = Book!NoRun /\ UNCHANGED <<born, turns, requests, judging>>
          /\ rec' = [k \in Keys |-> IF k \in declining /\ rec[k].state = "owed" /\ rec[k].decline = "no"
                                    THEN [rec[k] EXCEPT !.decline = "said"] ELSE rec[k]]
      BY <1>24 DEF Book!close_session, Keys
    <2>1. \A x \in Record : [x EXCEPT !.decline = "said"] \in Record
      BY DEF Record
    <2>2. rec' \in Records
      BY <1>0, <2>0, <2>1 DEF Records
    <2>3. BookType'
      BY <2>0, <2>2 DEF BookType, Book!NoView, Book!NoRun
    <2>. QED BY <2>0, <2>3, NotOpen
  <1>25. CASE Book!restore
    <2>0. /\ rec' = [k \in Keys |-> IF rec[k].state = "owed"
                                    THEN [rec[k] EXCEPT !.missed = FALSE, !.waits = TRUE] ELSE rec[k]]
          /\ closed' = "no"
          /\ UNCHANGED <<born, caller, turns, view, requests, replies, judging, declining, lull, run>>
      BY <1>25 DEF Book!restore, Keys
    <2>1. \A x \in Record : [x EXCEPT !.missed = FALSE, !.waits = TRUE] \in Record
      BY DEF Record
    <2>2. rec' \in Records
      BY <1>0, <2>0, <2>1 DEF Records
    <2>3. BookType'
      BY <2>0, <2>2 DEF BookType
    <2>4. \A k \in Keys : rec'[k].state = "owed" => rec'[k].waits
      BY <1>0, <2>0 DEF Records, Record
    <2>. QED BY <2>3, <2>4 DEF Book!NobodyForgotten, Book!owed, Keys
  <1>26. CASE UNCHANGED Book!vars
    BY <1>26 DEF Book!vars, BookType, Book!NobodyForgotten
  <1>. QED
    BY <1>1, <1>2, <1>3, <1>4, <1>5, <1>6, <1>7, <1>8, <1>9, <1>10, <1>11, <1>12, <1>13, <1>15, <1>16,
       <1>17, <1>18, <1>19, <1>20, <1>21, <1>22, <1>23, <1>24, <1>25, <1>26, <1>27, <1>28
       DEF Book!Next, Book!Over, Keys

(* And so does the book. *)
LEMMA BookAlone == [Next]_vars => [Book!Next]_Book!vars
BY DEF Next, BookGoes, GateGoes, NotesGoes, LedgerGoes, HoldGoes, SlicesGoes, CorrectsGoes,
   gateOnly, notesOnly, ledgerOnly, holdOnly, slicesOnly, correctsOnly, vars, bookVars,
   Book!vars

(* An answer owed is in somebody's hands: a run for it is at the door, being *)
(* rendered or said, or the lull loop will offer it, unless it was offered   *)
(* already, or the caller's next turn alone is to offer it: it came with a   *)
(* conversation restored, or a line of the session's own cut its run before  *)
(* the request was noted.                                                   *)
THEOREM AnswersAreInHand == Spec => []NobodyForgotten
  <1>1. Init => BookInv
    <2>1. ASSUME Book!Init PROVE BookInv
      <3>1. Book!Blank \in Record
        BY DEF Book!Blank, Record, Book!States
      <3>2. BookType
        BY <2>1, <3>1 DEF Book!Init, BookType, Records, Keys, Book!NoView, Book!NoRun, Book!Runs
      <3>3. Book!owed(rec) = {}
        BY <2>1 DEF Book!Init, Book!owed, Book!Blank
      <3>. QED BY <3>2, <3>3 DEF BookInv, Book!NobodyForgotten
    <2>. QED BY <2>1 DEF Init
  <1>2. BookInv /\ [Next]_vars => BookInv'
    BY BookKeeps, BookAlone
  <1>3. BookInv => NobodyForgotten
    BY DEF BookInv, NobodyForgotten
  <1>. QED BY <1>1, <1>2, <1>3, PTL DEF Spec

-----------------------------------------------------------------------------
(* The book's requests: what the caller said when they cut a telling is read *)
(* before an answer is noted again, and what has ended is not owed again.    *)

Ended == {"closed", "dropped", "declined", "cancelled"}

\* Only an answer owed awaits the reading of a cut; only a fresh one has tries.
SaneAt(x) == (x.decline # "no" => x.state = "owed") /\ (x.left > 0 => x.state = "answer")
Sane(r) == \A k \in Keys : SaneAt(r[k])

Stays(s, t) == \A k \in Keys : s[k].state \in Ended => t[k].state = s[k].state

\* No cut of an answer owed is to be read in t that was not in s.
NoMoreCuts(s, t) ==
  \A k \in Book!owed(t) : t[k].decline = "said" => k \in Book!owed(s) /\ s[k].decline = "said"

(* A request that waited for all that was being said of the answers finds    *)
(* nothing left to settle, and once it has read the cuts there is none.      *)
SettledInv ==
  /\ view.at \in {"reads", "waits"} /\ ~view.late => replies = {} /\ judging = {}
  /\ view.at = "waits" /\ ~view.late => Book!due_checks = {}

ReadInv == BookInv /\ Sane(rec) /\ SettledInv

\* What ends has no cut to be read.
LEMMA EndSane ==
  ASSUME NEW r \in Records, Sane(r), NEW ks \in SUBSET Book!owed(r), NEW how \in Book!States \ {"owed"}
  PROVE  /\ Sane(Book!End(r, ks, how)) /\ Stays(r, Book!End(r, ks, how))
         /\ NoMoreCuts(r, Book!End(r, ks, how))
         /\ \A k \in Keys : r[k].state # "owed" => Book!End(r, ks, how)[k] = r[k]
  <1>. DEFINE e == Book!End(r, ks, how)
  <1>1. ASSUME NEW k \in Keys
        PROVE  /\ k \in ks => e[k] = [r[k] EXCEPT !.state = how, !.missed = FALSE, !.decline = "no"]
               /\ k \notin ks => e[k] = r[k]
    BY DEF Book!End, Keys
  <1>2. \A k \in ks : k \in Keys /\ r[k].state = "owed"
    BY DEF Book!owed, Keys
  <1>3. \A k \in Keys : r[k] \in Record
    BY DEF Records
  <1>4. ASSUME NEW k \in ks
        PROVE  e[k].state = how /\ e[k].decline = "no" /\ e[k].left = r[k].left
    <2>1. \A x \in Record : /\ [x EXCEPT !.state = how, !.missed = FALSE, !.decline = "no"].state = how
                             /\ [x EXCEPT !.state = how, !.missed = FALSE, !.decline = "no"].decline = "no"
                             /\ [x EXCEPT !.state = how, !.missed = FALSE, !.decline = "no"].left = x.left
      BY DEF Record
    <2>2. r[k] \in Record
      BY <1>2, <1>3, <1>4
    <2>3. e[k] = [r[k] EXCEPT !.state = how, !.missed = FALSE, !.decline = "no"]
      BY <1>1, <1>2, <1>4
    <2>. HIDE DEF e
    <2>. QED BY Zenon, <2>1, <2>2, <2>3
  <1>. HIDE DEF e
  <1>5. \A k \in Keys : SaneAt(e[k])
    <2>1. TAKE k \in Keys
    <2>2. CASE k \in ks
      BY <1>2, <1>3, <1>4, <2>2 DEF Sane, SaneAt, Record
    <2>3. CASE k \notin ks
      BY <1>1, <2>3 DEF Sane
    <2>. QED BY <2>2, <2>3
  <1>6. Stays(r, e)
    BY <1>1, <1>2 DEF Stays, Ended
  <1>7. NoMoreCuts(r, e)
    BY <1>1, <1>4 DEF NoMoreCuts, Book!owed, Keys
  <1>8. \A k \in Keys : r[k].state # "owed" => e[k] = r[k]
    BY <1>1, <1>2
  <1>. QED BY <1>5, <1>6, <1>7, <1>8 DEF Sane, e

\* An answer that comes to be owed has none but the one it is put with.
LEMMA OweSane ==
  ASSUME NEW r \in Records, NEW k \in Keys, NEW n \in Nat, NEW failure \in BOOLEAN,
         \A x \in Keys : x # k => SaneAt(r[x]), r[k].left = 0
  PROVE  /\ Sane(Book!owe(r, k, n, failure))
         /\ \A x \in Keys : x # k /\ r[x].state \in Ended => Book!owe(r, k, n, failure)[x].state = r[x].state
         /\ r[k].decline = "no" => NoMoreCuts(r, Book!owe(r, k, n, failure))
  <1>. DEFINE s == [r EXCEPT ![k] = [@ EXCEPT !.state = "owed", !.born = n, !.failure = failure]]
              t == Book!owe(r, k, n, failure)
  <1>1. s \in Records
    <2>1. \A x \in Record : [x EXCEPT !.state = "owed", !.born = n, !.failure = failure] \in Record
      BY ZenonT(60) DEF Record, Book!States
    <2>2. [r[k] EXCEPT !.state = "owed", !.born = n, !.failure = failure] \in Record
      BY <2>1 DEF Records
    <2>. QED BY <2>2 DEF Records
  <1>2. /\ \A x \in Keys : x # k => s[x] = r[x]
        /\ s[k].state = "owed" /\ s[k].decline = r[k].decline /\ s[k].left = 0
    BY DEF Records, Record
  <1>3. t = Book!evict(s)
    BY DEF Book!owe
  <1>. HIDE DEF s, t
  <1>4. Sane(s)
    BY <1>2 DEF Sane, SaneAt
  <1>5. Sane(t) /\ Stays(s, t) /\ NoMoreCuts(s, t)
    <2>1. CASE t = s
      BY <1>4, <2>1 DEF Stays, NoMoreCuts
    <2>2. CASE t # s
      <3>1. PICK ks \in SUBSET Book!owed(s) : t = Book!End(s, ks, "dropped")
        BY <1>3, <2>2 DEF Book!evict
      <3>. QED BY <1>1, <1>4, <3>1, EndSane DEF Book!States
    <2>. QED BY <2>1, <2>2
  <1>6. \A x \in Keys : x # k /\ r[x].state \in Ended => t[x].state = r[x].state
    BY <1>2, <1>5 DEF Stays
  <1>7. ASSUME r[k].decline = "no" PROVE NoMoreCuts(r, t)
    BY <1>2, <1>5, <1>7 DEF NoMoreCuts, Book!owed, Keys
  <1>. QED BY <1>5, <1>6, <1>7 DEF t

\* Arming leaves what is to be read, and what has ended.
LEMMA ArmSane ==
  ASSUME NEW r \in Records, NEW ks
  PROVE  /\ Stays(r, Book!arm(r, ks)) /\ NoMoreCuts(r, Book!arm(r, ks))
         /\ Sane(r) => Sane(Book!arm(r, ks))
  <1>1. \A k \in Keys : /\ Book!arm(r, ks)[k].state = r[k].state
                        /\ Book!arm(r, ks)[k].decline = r[k].decline
                        /\ Book!arm(r, ks)[k].left = r[k].left
    BY DEF Book!arm, Records, Record, Keys
  <1>. QED BY <1>1 DEF Stays, NoMoreCuts, Sane, SaneAt, Book!owed, Keys

\* An answer told is closed, and one told less often is an answer still.
LEMMA ToldSane ==
  ASSUME NEW r \in Records, Sane(r), NEW ks \in SUBSET Keys, \A k \in ks : r[k].state = "answer"
  PROVE  /\ LET t == Book!told_all(r, ks) IN Sane(t) /\ Stays(r, t)
         /\ LET t == Book!try_less(r, ks)
            IN Sane(t) /\ Stays(r, t) /\ \A k \in Keys : t[k].state = r[k].state
  <1>. DEFINE toldAll == Book!told_all(r, ks)
              tryLess == Book!try_less(r, ks)
  <1>1. \A k \in Keys : /\ r[k] \in Record /\ SaneAt(r[k])
                        /\ k \in ks => toldAll[k] = [r[k] EXCEPT !.left = 0, !.state = "closed"]
                        /\ k \in ks => tryLess[k] = [r[k] EXCEPT !.left = @ - 1]
                        /\ k \notin ks => toldAll[k] = r[k] /\ tryLess[k] = r[k]
    BY DEF Book!told_all, Book!try_less, Records, Keys, Sane
  <1>2. \A x \in Record : /\ [x EXCEPT !.left = 0, !.state = "closed"].left = 0
                          /\ [x EXCEPT !.left = 0, !.state = "closed"].decline = x.decline
                          /\ [x EXCEPT !.left = @ - 1].decline = x.decline
                          /\ [x EXCEPT !.left = @ - 1].state = x.state
    BY DEF Record
  <1>. HIDE DEF toldAll, tryLess
  <1>3. ASSUME NEW k \in Keys
        PROVE  /\ SaneAt(toldAll[k]) /\ (r[k].state \in Ended => toldAll[k].state = r[k].state)
               /\ SaneAt(tryLess[k]) /\ tryLess[k].state = r[k].state
    <2>1. CASE k \notin ks
      BY <1>1, <2>1
    <2>2. CASE k \in ks
      <3>1. r[k].state = "answer" /\ r[k].decline = "no"
        BY <1>1, <2>2 DEF SaneAt
      <3>2. toldAll[k].left = 0 /\ toldAll[k].decline = "no" /\ tryLess[k].decline = "no" /\ tryLess[k].state = "answer"
        <4>1. /\ toldAll[k] = [r[k] EXCEPT !.left = 0, !.state = "closed"]
              /\ tryLess[k] = [r[k] EXCEPT !.left = @ - 1]
          BY <1>1, <2>2
        <4>. QED BY Zenon, <1>1, <1>2, <3>1, <4>1
      <3>. QED BY <3>1, <3>2 DEF SaneAt, Ended
    <2>. QED BY <2>1, <2>2
  <1>4. Sane(toldAll) /\ Stays(r, toldAll)
    BY <1>3 DEF Sane, Stays
  <1>5. Sane(tryLess) /\ Stays(r, tryLess) /\ \A k \in Keys : tryLess[k].state = r[k].state
    BY <1>3 DEF Sane, Stays
  <1>. QED BY <1>4, <1>5 DEF toldAll, tryLess

\* A cut answer is owed with its cut; the others told with it are closed.
LEMMA CutAnswerSane ==
  ASSUME NEW r \in Records, Sane(r), NEW counted \in BOOLEAN, NEW spoke \in BOOLEAN,
         NEW ks \in SUBSET Tools, NEW n \in Nat, \A k \in ks : r[k].state = "answer"
  PROVE  LET t == Book!cut_answer(r, counted, spoke, ks, n) IN Sane(t) /\ Stays(r, t)
  <1>1. CASE ks = {}
    BY <1>1 DEF Book!cut_answer, Stays
  <1>2. CASE ks # {}
    <2>. DEFINE k  == CHOOSE x \in ks : TRUE
                r1 == [x \in Keys |-> IF x \in ks THEN [r[x] EXCEPT !.left = 0, !.state = "closed"] ELSE r[x]]
                ncuts == IF counted THEN 1 ELSE 0
                decline == IF ~counted THEN "no" ELSE IF spoke THEN "said" ELSE "cut"
                r2 == [r1 EXCEPT ![k].ids = ks, ![k].cuts = ncuts, ![k].decline = decline]
                r3 == Book!owe(r2, k, n, FALSE)
                r4 == Book!arm(r3, {k})
    <2>6. Book!cut_answer(r, counted, spoke, ks, n) = r4
      BY <1>2 DEF Book!cut_answer, Keys
    <2>1. k \in ks /\ k \in Keys
      BY <1>2 DEF Keys, Book!Keys
    <2>9. ks \in SUBSET Keys
      BY DEF Keys, Book!Keys
    <2>0. ncuts \in Nat /\ decline \in {"no", "cut", "said"}
      OBVIOUS
    <2>. HIDE DEF k, ncuts, decline
    <2>2. /\ r1 \in Records /\ \A x \in Keys : x \notin ks => r1[x] = r[x]
          /\ \A x \in ks : r1[x].left = 0 /\ r1[x].state = "closed" /\ r1[x].decline = r[x].decline
      <3>1. \A x \in Record : /\ [x EXCEPT !.left = 0, !.state = "closed"] \in Record
                              /\ [x EXCEPT !.left = 0, !.state = "closed"].left = 0
                              /\ [x EXCEPT !.left = 0, !.state = "closed"].state = "closed"
                              /\ [x EXCEPT !.left = 0, !.state = "closed"].decline = x.decline
        BY DEF Record, Book!States
      <3>. QED BY <2>9, <3>1 DEF Records
    <2>. HIDE DEF r1
    <2>3. /\ r2 \in Records /\ \A x \in Keys : x # k => r2[x] = r1[x]
          /\ r2[k].left = 0
      <3>1. r2 = [r1 EXCEPT ![k] = [r1[k] EXCEPT !.ids = ks, !.cuts = ncuts, !.decline = decline]]
        BY <2>1, <2>2 DEF Records, Record
      <3>2. \A x \in Record, i \in SUBSET Tools, a \in Nat, d \in {"no", "cut", "said"} :
              /\ [x EXCEPT !.ids = i, !.cuts = a, !.decline = d] \in Record
              /\ [x EXCEPT !.ids = i, !.cuts = a, !.decline = d].left = x.left
        BY DEF Record
      <3>3. r1[k] \in Record
        BY <2>1, <2>2 DEF Records
      <3>. HIDE DEF r2
      <3>4. /\ [r1[k] EXCEPT !.ids = ks, !.cuts = ncuts, !.decline = decline] \in Record
            /\ [r1[k] EXCEPT !.ids = ks, !.cuts = ncuts, !.decline = decline].left = 0
        <4>1. r1[k].left = 0
          BY <2>1, <2>2
        <4>. DEFINE x == r1[k]
        <4>2. x \in Record /\ x.left = 0
          BY <3>3, <4>1
        <4>. HIDE DEF x
        <4>3. /\ [x EXCEPT !.ids = ks, !.cuts = ncuts, !.decline = decline] \in Record
              /\ [x EXCEPT !.ids = ks, !.cuts = ncuts, !.decline = decline].left = 0
          BY <2>0, <4>2 DEF Record
        <4>. QED BY <4>3 DEF x
      <3>. QED BY <2>1, <2>2, <3>1, <3>4 DEF Records
    <2>. HIDE DEF r2
    <2>4. \A x \in Keys : x # k => SaneAt(r2[x])
      <3>1. \A x \in ks : r[x].decline = "no"
        BY <2>9 DEF Sane, SaneAt
      <3>. QED BY <2>2, <2>3, <3>1 DEF Sane, SaneAt
    <2>5. /\ r3 \in Records /\ Sane(r3)
          /\ \A x \in Keys : x # k /\ r2[x].state \in Ended => r3[x].state = r2[x].state
      BY <2>1, <2>3, <2>4, OweSane, OweFollows DEF Follows
    <2>. HIDE DEF r3
    <2>7. Sane(r4) /\ Stays(r3, r4)
      BY <2>5, ArmSane
    <2>. HIDE DEF r4
    <2>8. Stays(r, r4)
      <3>1. SUFFICES ASSUME NEW x \in Keys, r[x].state \in Ended PROVE r4[x].state = r[x].state
        BY DEF Stays
      <3>2. x \notin ks /\ x # k
        BY <2>1, <3>1 DEF Ended
      <3>. QED BY <2>2, <2>3, <2>5, <2>7, <3>1, <3>2 DEF Stays
    <2>. QED BY <2>6, <2>7, <2>8
  <1>. QED BY <1>1, <1>2

\* A reply that settles leaves no cut on what it ends, and ends nothing twice.
LEMMA SettleSane ==
  ASSUME BookType, Sane(rec), NEW p \in replies, NEW end \in Book!Ends, Book!settle(p, end)
  PROVE  Sane(rec') /\ Stays(rec, rec')
  <1>. DEFINE was == {k \in Book!evidence(p) : rec[k].state = "owed"}
              got == [k \in was |-> Book!Heard(p, k, end)]
              r1 == [k \in Keys |-> IF k \in was THEN got[k].r ELSE rec[k]]
              missed == Book!Missed(p, end, r1)
              r0 == Book!arm(r1, missed)
              fresh == {k \in p.fresh : rec[k].left > 0}
              telling == IF Book!tells_fresh(end) THEN fresh ELSE {}
              r2 == Book!try_less(r0, fresh \ telling)
              counted == p.cut # "own" /\ end.how = "unaligned"
  <1>1. \/ rec' = r2
        \/ rec' = Book!cut_answer(r2, counted, p.said, telling, born + 1)
        \/ rec' = Book!told_all(r2, telling)
    BY DEF Book!settle, Keys
  <1>2. p \in Reply /\ rec \in Records /\ born + 1 \in Nat /\ Book!evidence(p) \subseteq Keys
    BY DEF BookType, Book!evidence, Reply, Keys
  <1>3. ASSUME NEW k \in was
        PROVE  /\ got[k].r \in Record /\ SaneAt(got[k].r)
    <2>1. rec[k] \in Record /\ rec[k].state = "owed" /\ rec[k].left = 0
      <3>1. rec[k] \in Record /\ rec[k].state = "owed" /\ SaneAt(rec[k])
        BY <1>2 DEF Records, Sane
      <3>. QED BY <3>1 DEF Record, SaneAt
    <2>2. got[k] = Book!Heard(p, k, end)
      OBVIOUS
    <2>3. got[k].r \in Record
      BY ZenonT(60), <2>1, <2>2 DEF Book!Heard, Record, Book!States
    <2>4. /\ got[k].r.left = rec[k].left
          /\ got[k].r.state = "owed" \/ got[k].r.decline = "no"
      BY <2>1, <2>2 DEF Book!Heard, Record
    <2>. QED BY <2>1, <2>3, <2>4 DEF SaneAt
  <1>4. r1 \in Records /\ Sane(r1) /\ \A k \in Keys : k \notin was => r1[k] = rec[k]
    BY <1>2, <1>3 DEF Records, Sane
  <1>11. \A k \in was : rec[k].state = "owed"
    OBVIOUS
  <1>. HIDE DEF r1, was
  <1>12. Stays(rec, r1)
    BY <1>4, <1>11 DEF Stays, Ended
  <1>5. r0 \in Records /\ Sane(r0) /\ Stays(r1, r0)
        /\ \A k \in Keys : r0[k].state = r1[k].state /\ r0[k].left = r1[k].left
    <2>1. \A k \in Keys : r0[k].state = r1[k].state /\ r0[k].left = r1[k].left
      BY <1>4 DEF Book!arm, Records, Record, Keys
    <2>. QED BY <1>4, <2>1, ArmFollows, ArmSane DEF Follows
  <1>6. \A k \in fresh : k \in Keys /\ r0[k].state = "answer" /\ r0[k].left > 0
    <2>1. SUFFICES ASSUME NEW k \in fresh
                   PROVE  k \in Keys /\ r0[k].state = "answer" /\ r0[k].left > 0
      OBVIOUS
    <2>2. k \in Keys /\ rec[k].left > 0 /\ rec[k].state = "answer"
      BY <1>2, <2>1 DEF Reply, Sane, SaneAt, Keys, Book!Keys
    <2>. QED BY <1>4, <1>5, <1>11, <2>2
  <1>7. telling \in SUBSET Tools /\ telling \in SUBSET Keys /\ telling \subseteq fresh
        /\ counted \in BOOLEAN /\ p.said \in BOOLEAN
    BY <1>2 DEF Reply, Keys, Book!Keys
  <1>. HIDE DEF r0, fresh, telling, counted
  <1>8. /\ r2 \in Records /\ Sane(r2) /\ Stays(r0, r2)
        /\ \A k \in Keys : r2[k].state = r0[k].state
    <2>1. fresh \ telling \in SUBSET Keys
      BY <1>6
    <2>. QED BY <1>5, <1>6, <2>1, ToldFollows, ToldSane DEF Follows
  <1>. HIDE DEF r2
  <1>9. \A k \in telling : r2[k].state = "answer"
    BY <1>6, <1>7, <1>8
  <1>10. Sane(rec') /\ Stays(r2, rec')
    <2>1. CASE rec' = r2
      BY <1>8, <2>1 DEF Stays
    <2>2. CASE rec' = Book!told_all(r2, telling)
      BY <1>7, <1>8, <1>9, <2>2, ToldSane
    <2>3. CASE rec' = Book!cut_answer(r2, counted, p.said, telling, born + 1)
      BY <1>2, <1>7, <1>8, <1>9, <2>3, CutAnswerSane
    <2>. QED BY <1>1, <2>1, <2>2, <2>3
  <1>. QED BY <1>5, <1>8, <1>10, <1>12 DEF Stays

\* Nor do the verdicts on it.
LEMMA ApplySane ==
  ASSUME BookType, Sane(rec), NEW j \in judging, NEW hs, NEW how \in {"told", "owed", "no_answer"},
         Book!apply(j, hs, how)
  PROVE  Sane(rec') /\ Stays(rec, rec')
  <1>. DEFINE opening == {k \in j.asks : rec[k].state = "owed"}
              r1 == Book!End(rec, opening \cap hs, "closed")
              r2 == Book!End(r1, (opening \ hs) \cap j.drops, "dropped")
              fresh == {k \in j.fresh : rec[k].left > 0}
              counted == ~j.own
  <1>1. rec' = CASE how = "owed" -> Book!cut_answer(r2, counted, j.said, fresh, born + 1)
                 [] how = "told" -> Book!told_all(r2, fresh)
                 [] how = "no_answer" -> Book!try_less(r2, fresh)
    BY DEF Book!apply
  <1>2. j \in Judging /\ rec \in Records /\ born + 1 \in Nat
    BY DEF BookType
  <1>3. /\ opening \subseteq Book!owed(rec)
        /\ \A k \in fresh : k \in Keys /\ rec[k].state = "answer"
    BY <1>2 DEF Book!owed, Judging, Keys, Book!Keys, Sane, SaneAt
  <1>. HIDE DEF opening, fresh
  <1>4. /\ r1 \in Records /\ Sane(r1) /\ Stays(rec, r1)
        /\ \A k \in Keys : rec[k].state # "owed" => r1[k] = rec[k]
        /\ \A k \in Keys : k \notin opening \cap hs => r1[k] = rec[k]
    <2>1. opening \cap hs \in SUBSET Book!owed(rec)
      BY <1>3
    <2>2. r1 \in Records
      BY <1>2, EndFollows DEF Follows, Book!States
    <2>3. \A k \in Keys : k \notin opening \cap hs => r1[k] = rec[k]
      BY DEF Book!End, Keys
    <2>4. "closed" \in Book!States \ {"owed"}
      BY DEF Book!States
    <2>. QED BY <1>2, <2>1, <2>2, <2>3, <2>4, EndSane
  <1>. HIDE DEF r1
  <1>5. /\ r2 \in Records /\ Sane(r2) /\ Stays(r1, r2)
        /\ \A k \in Keys : r1[k].state # "owed" => r2[k] = r1[k]
    <2>1. (opening \ hs) \cap j.drops \in SUBSET Book!owed(r1)
      BY <1>3, <1>4 DEF Book!owed, Keys
    <2>2. r2 \in Records
      BY <1>4, EndFollows DEF Follows, Book!States
    <2>. QED BY <1>4, <2>1, <2>2, EndSane DEF Book!States
  <1>. HIDE DEF r2
  <1>6. Stays(rec, r2)
    BY <1>4, <1>5 DEF Stays
  <1>7. \A k \in fresh : k \in Keys /\ r2[k].state = "answer" /\ rec[k].state = "answer" /\ r2[k].decline = "no"
    BY <1>3, <1>4, <1>5 DEF Sane, SaneAt
  <1>8. fresh \in SUBSET Keys /\ \A k \in fresh : r2[k].state = "answer"
    BY <1>7
  <1>9. CASE how # "owed"
    <2>1. rec' = Book!told_all(r2, fresh) \/ rec' = Book!try_less(r2, fresh)
      BY <1>1, <1>9
    <2>2. Sane(rec') /\ Stays(r2, rec')
      BY <1>5, <1>8, <2>1, ToldSane
    <2>. QED BY <1>6, <2>2 DEF Stays
  <1>10. CASE how = "owed"
    <2>1. rec' = Book!cut_answer(r2, counted, j.said, fresh, born + 1)
      BY <1>1, <1>10
    <2>2. fresh \in SUBSET Tools /\ counted \in BOOLEAN /\ j.said \in BOOLEAN
      BY <1>2 DEF Judging, fresh
    <2>. HIDE DEF counted
    <2>3. Sane(rec') /\ Stays(r2, rec')
      BY <1>2, <1>5, <1>8, <2>1, <2>2, CutAnswerSane
    <2>. QED BY <1>6, <2>3 DEF Stays
  <1>. QED BY <1>9, <1>10

\* A request is how with a note on no cut that it could have read.
NotesWhatIsRead ==
  \A p \in replies' \ replies :
    ~view.late /\ (\A b \in replies : p.n # b.n) => \A k \in p.noted : rec[k].decline # "said"

\* Nothing new is to settle, and no cut more to be read, for a request that waits.
LEMMA StillSettled ==
  ASSUME SettledInv, view' = view,
         replies = {} /\ judging = {} => replies' = {} /\ judging' = {} /\ NoMoreCuts(rec, rec')
  PROVE  SettledInv'
  BY DEF SettledInv, NoMoreCuts, Book!due_checks, Book!owed, Keys

\* A request that is not waiting has nothing to have settled.
LEMMA NotWaiting == view'.at \notin {"reads", "waits"} => SettledInv'
  BY DEF SettledInv

\* Every step of the book reads the cuts first, and revives nothing.
LEMMA ReadsKeep ==
  ASSUME ReadInv, [Book!Next]_Book!vars
  PROVE  Sane(rec') /\ SettledInv' /\ NotesWhatIsRead /\ Stays(rec, rec')
  <1>. USE DEF ReadInv
  <1>0. /\ rec \in Records /\ Stays(rec, rec) /\ NoMoreCuts(rec, rec) /\ BookType
        /\ replies' \subseteq replies => NotesWhatIsRead
    BY DEF BookInv, BookType, Stays, NoMoreCuts, NotesWhatIsRead
  <1>1. CASE \E k \in Keys : Book!Dispatch(k) \/ Book!Cancelled(k)
    <2>1. PICK k \in Keys : Book!Dispatch(k) \/ Book!Cancelled(k)
      BY <1>1
    <2>2. rec[k] \in Record /\ SaneAt(rec[k])
      BY <1>0 DEF Records, Sane
    <2>3. /\ UNCHANGED <<view, replies, judging>> /\ rec[k].state \in {"none", "running"}
          /\ \A x \in Keys : x # k => rec'[x] = rec[x]
          /\ rec'[k].state \in {"running", "answer", "cancelled"} /\ rec'[k].decline = "no"
          /\ rec'[k].left > 0 => rec'[k].state = "answer"
      <3>1. CASE Book!Dispatch(k)
        BY <1>0, <2>2, <3>1 DEF Book!Dispatch, Records, Record, SaneAt
      <3>2. CASE Book!Cancelled(k)
        BY <1>0, <2>2, <3>2 DEF Book!Cancelled, Records, Record, SaneAt
      <3>. QED BY <2>1, <3>1, <3>2
    <2>4. Sane(rec') /\ Stays(rec, rec') /\ NoMoreCuts(rec, rec')
      BY <2>3 DEF Sane, SaneAt, Stays, NoMoreCuts, Ended, Book!owed, Keys
    <2>. QED BY <1>0, <2>3, <2>4, StillSettled
  <1>2. ASSUME NEW k \in Keys, NEW failure \in BOOLEAN, rec[k].state = "running"
        PROVE  LET r == Book!owe(rec, k, born + 1, failure)
               IN r \in Records /\ Sane(r) /\ Stays(rec, r) /\ NoMoreCuts(rec, r)
    <2>. DEFINE r == Book!owe(rec, k, born + 1, failure)
    <2>1. born + 1 \in Nat /\ rec[k] \in Record /\ SaneAt(rec[k])
      BY <1>0 DEF BookType, Records, Sane
    <2>2. rec[k].left = 0 /\ rec[k].decline = "no"
      BY <1>2, <2>1 DEF Record, SaneAt
    <2>3. /\ r \in Records /\ Sane(r) /\ NoMoreCuts(rec, r)
          /\ \A x \in Keys : x # k /\ rec[x].state \in Ended => r[x].state = rec[x].state
      BY <1>0, <2>1, <2>2, OweSane, OweFollows DEF Follows, Sane
    <2>. HIDE DEF r
    <2>4. Stays(rec, r)
      BY <1>2, <2>3 DEF Stays, Ended
    <2>. QED BY <2>3, <2>4 DEF r
  <1>3. CASE \E k \in Keys : Book!Land(k)
    <2>1. PICK k \in Keys, failure \in BOOLEAN :
            /\ rec[k].state = "running" /\ UNCHANGED <<view, replies, judging>>
            /\ \/ rec' = Book!arm(Book!owe(rec, k, born + 1, failure), {k})
               \/ rec' = Book!owe(rec, k, born + 1, failure)
      BY <1>3 DEF Book!Land
    <2>. DEFINE r == Book!owe(rec, k, born + 1, failure)
    <2>2. r \in Records /\ Sane(r) /\ Stays(rec, r) /\ NoMoreCuts(rec, r)
      BY <1>2, <2>1
    <2>3. rec' = Book!arm(r, {k}) \/ rec' = r
      BY <2>1
    <2>. HIDE DEF r
    <2>4. Sane(rec') /\ Stays(r, rec') /\ NoMoreCuts(r, rec')
      BY <2>2, <2>3, ArmSane DEF Stays, NoMoreCuts
    <2>5. Stays(rec, rec') /\ NoMoreCuts(rec, rec')
      BY <2>2, <2>4 DEF Stays, NoMoreCuts
    <2>. QED BY <1>0, <2>1, <2>4, <2>5, StillSettled
  <1>4. CASE Book!ReplyEnds
    <2>1. UNCHANGED view
      BY <1>4 DEF Book!ReplyEnds
    <2>2. PICK p \in replies, end \in Book!Ends : Book!settle(p, end)
      BY <1>4 DEF Book!ReplyEnds, Book!EndsOf
    <2>3. Sane(rec') /\ Stays(rec, rec') /\ replies' = replies \ {p}
      BY <1>0, <2>2, SettleSane, SettleFollows
    <2>. QED BY <1>0, <2>1, <2>2, <2>3, StillSettled
  <1>5. CASE Book!Judged \/ Book!ApplyUnjudged
    <2>1. UNCHANGED <<view, replies>>
      BY <1>5 DEF Book!Judged, Book!ApplyUnjudged
    <2>2. PICK j \in judging : \E hs : \E how \in {"told", "owed", "no_answer"} : Book!apply(j, hs, how)
      <3>1. CASE Book!Judged
        BY <3>1 DEF Book!Judged
      <3>2. CASE Book!ApplyUnjudged
        <4>1. PICK j \in judging :
                Book!apply(j, IF j.cut THEN {} ELSE j.asks, IF j.owes THEN "owed" ELSE "told")
          BY <3>2 DEF Book!ApplyUnjudged
        <4>2. (IF j.owes THEN "owed" ELSE "told") \in {"told", "owed", "no_answer"}
          OBVIOUS
        <4>. QED BY <4>1, <4>2
      <3>. QED BY <1>5, <3>1, <3>2
    <2>3. Sane(rec') /\ Stays(rec, rec')
      BY <1>0, <2>2, ApplySane
    <2>. QED BY <1>0, <2>1, <2>2, <2>3, StillSettled
  <1>6. CASE Book!Talks \/ Book!TurnEndsEmpty \/ Book!LullOver \/ Book!SessionEnds \/ Book!Over
    <2>1. UNCHANGED <<rec, view, replies, judging>>
      BY <1>6 DEF Book!Talks, Book!TurnEndsEmpty, Book!LullOver, Book!SessionEnds, Book!Over, Book!vars
    <2>. QED BY <1>0, <2>1, StillSettled
  <1>7. CASE Book!FallsQuiet
    <2>1. UNCHANGED <<view, replies, judging>> /\ \E ks : rec' = Book!arm(rec, ks) \/ rec' = rec
      BY <1>7 DEF Book!FallsQuiet, Book!run_dropped
    <2>2. Sane(rec') /\ Stays(rec, rec') /\ NoMoreCuts(rec, rec')
      BY <1>0, <2>1, ArmSane
    <2>. QED BY <1>0, <2>1, <2>2, StillSettled
  <1>8. ASSUME \A p \in replies' : \E b \in replies : p.n = b.n
        PROVE  NotesWhatIsRead
    BY <1>8 DEF NotesWhatIsRead
  <1>23. ASSUME NEW u \in [Keys -> BOOLEAN]
         PROVE  LET t == [k \in Keys |-> [rec[k] EXCEPT !.waits = u[k]]]
                IN t \in Records /\ Sane(t) /\ Stays(rec, t)
    <2>. DEFINE t == [k \in Keys |-> [rec[k] EXCEPT !.waits = u[k]]]
    <2>1. \A x \in Record, w \in BOOLEAN :
            /\ [x EXCEPT !.waits = w] \in Record /\ [x EXCEPT !.waits = w].state = x.state
            /\ [x EXCEPT !.waits = w].decline = x.decline /\ [x EXCEPT !.waits = w].left = x.left
      BY DEF Record
    <2>2. ASSUME NEW k \in Keys
          PROVE  /\ t[k] \in Record /\ t[k].state = rec[k].state
                 /\ t[k].decline = rec[k].decline /\ t[k].left = rec[k].left
      <3>1. rec[k] \in Record /\ u[k] \in BOOLEAN /\ t[k] = [rec[k] EXCEPT !.waits = u[k]]
        BY <1>0 DEF Records
      <3>. DEFINE x == rec[k]
                  w == u[k]
                  y == [x EXCEPT !.waits = w]
      <3>2. y \in Record /\ y.state = x.state /\ y.decline = x.decline /\ y.left = x.left
        BY <2>1, <3>1
      <3>3. t[k] = y
        BY <3>1
      <3>. HIDE DEF y
      <3>. QED BY <3>2, <3>3
    <2>3. t \in Records
      BY <2>2 DEF Records
    <2>. HIDE DEF t
    <2>4. Sane(t) /\ Stays(rec, t)
      BY <2>2 DEF Sane, SaneAt, Stays
    <2>. QED BY <2>3, <2>4 DEF t
  <1>9. CASE Book!caller_turn
    <2>. DEFINE r == [k \in Keys |-> [rec[k] EXCEPT !.waits = [l \in Keys |-> FALSE][k]]]
    <2>1. /\ view' = Book!NoView /\ rec' = Book!arm(r, Book!owed(rec))
          /\ replies' = {[p EXCEPT !.cut = IF @ = "no" THEN "caller" ELSE @] : p \in replies}
      BY <1>9 DEF Book!caller_turn, Keys
    <2>4. r \in Records /\ Sane(r) /\ Stays(rec, r)
      <3>1. [l \in Keys |-> FALSE] \in [Keys -> BOOLEAN]
        OBVIOUS
      <3>. QED BY <1>23, <3>1
    <2>. HIDE DEF r
    <2>2. \A p \in replies : [p EXCEPT !.cut = IF @ = "no" THEN "caller" ELSE @].n = p.n
      BY <1>0 DEF BookType, Reply
    <2>3. NotesWhatIsRead
      BY <1>8, <2>1, <2>2
    <2>5. Sane(rec') /\ Stays(rec, rec')
      BY <2>1, <2>4, ArmSane DEF Stays
    <2>. QED BY <2>1, <2>3, <2>5, NotWaiting DEF Book!NoView
  <1>24. CASE Book!OwnLine
    <2>. DEFINE gone == {k \in Book!owed(rec) : /\ view.kind \in Book!Runs /\ k \in view.keys
                                                /\ ~(rec[k].missed /\ lull # "off")}
    <2>0. /\ view' = Book!NoView
          /\ rec' = [k \in Keys |-> [rec[k] EXCEPT !.waits = @ \/ k \in gone]]
      BY <1>24 DEF Book!OwnLine, Keys
    <2>. HIDE DEF gone
    <2>1. PICK late \in {"caller", "own"} :
            replies' = {[p EXCEPT !.cut = IF @ = "caller" THEN late ELSE "own"] : p \in replies}
      BY <1>24 DEF Book!OwnLine
    <2>2. \A p \in replies : [p EXCEPT !.cut = IF @ = "caller" THEN late ELSE "own"].n = p.n
      BY <1>0 DEF BookType, Reply
    <2>3. NotesWhatIsRead
      BY <1>8, <2>1, <2>2
    <2>. DEFINE u == [k \in Keys |-> rec[k].waits \/ k \in gone]
    <2>4. u \in [Keys -> BOOLEAN]
      OBVIOUS
    <2>5. rec' = [k \in Keys |-> [rec[k] EXCEPT !.waits = u[k]]]
      BY <1>0, <2>0 DEF Records, Record
    <2>. HIDE DEF u
    <2>6. Sane(rec') /\ Stays(rec, rec')
      BY <1>23, <2>4, <2>5
    <2>. QED BY <2>0, <2>3, <2>6, NotWaiting DEF Book!NoView
  <1>10. CASE Book!Commit
    <2>1. /\ view = Book!NoView /\ view'.at \in {"none", "settles"}
          /\ rec' = [k \in Keys |-> [rec[k] EXCEPT !.decline = IF @ = "cut" THEN "said" ELSE @]]
          /\ replies' = {[p EXCEPT !.said = TRUE] : p \in replies}
      BY <1>10 DEF Book!Commit, Book!NoView, Keys
    <2>2. \A p \in replies : [p EXCEPT !.said = TRUE].n = p.n
      BY <1>0 DEF BookType, Reply
    <2>3. NotesWhatIsRead
      BY <1>8, <2>1, <2>2
    <2>4. \A k \in Keys : /\ rec'[k].state = rec[k].state /\ rec'[k].left = rec[k].left
                          /\ rec[k].decline = "no" => rec'[k].decline = "no"
      BY <1>0, <2>1 DEF Records, Record
    <2>5. Sane(rec') /\ Stays(rec, rec')
      BY <2>4 DEF Sane, SaneAt, Stays
    <2>. QED BY <2>1, <2>3, <2>5, NotWaiting
  <1>11. CASE Book!Post \/ Book!RunGoes
    <2>1. UNCHANGED <<rec, replies>> /\ view'.at = "settles"
      BY <1>11 DEF Book!Post, Book!RunGoes
    <2>. QED BY <1>0, <2>1, NotWaiting
  <1>12. CASE Book!ViewSettled
    <2>1. /\ view' = [view EXCEPT !.at = "reads", !.late = replies # {} \/ judging # {}]
          /\ UNCHANGED <<rec, replies, judging>>
      BY <1>12 DEF Book!ViewSettled
    <2>2. view'.at = "reads" /\ view'.late = (replies # {} \/ judging # {})
      BY <1>0, <2>1 DEF BookType
    <2>. QED BY <1>0, <2>1, <2>2 DEF SettledInv
  <1>13. CASE Book!ViewTimesOut
    <2>1. view' = [view EXCEPT !.at = "reads", !.late = TRUE]
      BY <1>13 DEF Book!ViewTimesOut
    <2>2. SettledInv'
      BY <1>0, <2>1 DEF BookType, SettledInv
    <2>3. ASSUME NEW p \in replies, Book!settle(p, Book!Unheard)
          PROVE  Sane(rec') /\ Stays(rec, rec') /\ NotesWhatIsRead
      <3>1. Book!Unheard \in Book!Ends
        BY DEF Book!Unheard, Book!Ends
      <3>2. Sane(rec') /\ Stays(rec, rec') /\ replies' = replies \ {p}
        BY <1>0, <2>3, <3>1, SettleSane, SettleFollows
      <3>. QED BY <3>2 DEF NotesWhatIsRead
    <2>4. ASSUME replies' = {[p EXCEPT !.blocks = FALSE] : p \in replies}, UNCHANGED rec
          PROVE  Sane(rec') /\ Stays(rec, rec') /\ NotesWhatIsRead
      <3>1. \A p \in replies : [p EXCEPT !.blocks = FALSE].n = p.n
        BY <1>0 DEF BookType, Reply
      <3>2. NotesWhatIsRead
        BY <1>8, <2>4, <3>1
      <3>. QED BY <1>0, <2>4, <3>2
    <2>. QED BY <1>13, <2>2, <2>3, <2>4 DEF Book!ViewTimesOut
  <1>14. ASSUME Book!declines_read
         PROVE  /\ Sane(rec') /\ Stays(rec, rec') /\ NoMoreCuts(rec, rec')
                /\ Book!due_checks' = {}
    <2>1. \A k \in Keys : /\ rec'[k].state = rec[k].state /\ rec'[k].left = rec[k].left
                          /\ rec'[k].decline = IF k \in Book!due_checks THEN "no" ELSE rec[k].decline
      BY <1>0, <1>14 DEF Book!declines_read, Records, Record, Keys
    <2>2. Sane(rec') /\ Stays(rec, rec')
      BY <2>1 DEF Sane, SaneAt, Stays
    <2>3. \A k \in Book!owed(rec') : rec'[k].decline # "said"
      BY <2>1 DEF Book!due_checks, Book!owed, Keys
    <2>. QED BY <2>2, <2>3 DEF NoMoreCuts, Book!due_checks
  <1>15. CASE Book!ViewReads
    <2>1. view' = [view EXCEPT !.at = "waits"] /\ UNCHANGED <<replies, judging>> /\ view.at = "reads"
      BY <1>15 DEF Book!ViewReads
    <2>2. Sane(rec') /\ Stays(rec, rec') /\ Book!due_checks' = {}
      BY <1>14, <1>15 DEF Book!ViewReads
    <2>3. SettledInv'
      BY <1>0, <2>1, <2>2 DEF BookType, SettledInv
    <2>. QED BY <1>0, <2>1, <2>2, <2>3
  <1>16. CASE Book!DeclineJudged
    <2>1. PICK ks \in SUBSET Book!owed(rec) : rec' = Book!End(rec, ks, "declined")
      BY <1>16 DEF Book!DeclineJudged
    <2>2. UNCHANGED <<view, replies, judging>>
      BY <1>16 DEF Book!DeclineJudged
    <2>3. Sane(rec') /\ Stays(rec, rec') /\ NoMoreCuts(rec, rec')
      BY <1>0, <2>1, EndSane DEF Book!States
    <2>. QED BY <1>0, <2>2, <2>3, StillSettled
  <1>17. CASE Book!Render
    <2>1. /\ view' = Book!NoView
          /\ view.at = "waits" \/ (view.at = "reads" /\ Book!due_checks = {})
          /\ rec' = rec \/ \E ks \in SUBSET Book!carried : rec' = Book!told_all(rec, ks)
          /\ \/ replies' = replies
             \/ \E x : replies' = replies \cup {x} /\ x.noted = Book!Noted
      <3>. DEFINE fresh(ks) == IF view.kind \in Book!Runs THEN {} ELSE {k \in Tools \ ks : rec[k].left > 0}
                  reply(ks) == [kind |-> view.kind, noted |-> Book!Noted, fresh |-> fresh(ks),
                                   n |-> requests, cut |-> "no", said |-> FALSE,
                                   blocks |-> Book!Noted # {} \/ fresh(ks) # {}]
      <3>1. /\ view' = Book!NoView
            /\ view.at = "waits" \/ (view.at = "reads" /\ Book!due_checks = {})
            /\ \/ rec' = rec /\ replies' = replies
               \/ \E ks \in SUBSET Book!carried :
                    rec' = Book!told_all(rec, ks) /\ replies' = replies \cup {reply(ks)}
        BY <1>17 DEF Book!Render
      <3>2. \A ks : reply(ks).noted = Book!Noted
        OBVIOUS
      <3>. HIDE DEF reply
      <3>. QED BY <3>1, <3>2
    <2>2. ~view.late => Book!due_checks = {}
      BY <2>1 DEF SettledInv
    <2>3. \A k \in Book!Noted : k \in Book!owed(rec)
      BY DEF Book!Noted
    <2>4. NotesWhatIsRead
      BY <2>1, <2>2, <2>3 DEF NotesWhatIsRead, Book!due_checks
    <2>5. Sane(rec') /\ Stays(rec, rec')
      <3>1. ASSUME NEW ks \in SUBSET Book!carried PROVE LET t == Book!told_all(rec, ks) IN Sane(t) /\ Stays(rec, t)
        <4>1. ks \in SUBSET Keys /\ \A k \in ks : rec[k].state = "answer"
          BY <1>0 DEF Book!carried, Keys, Book!Keys, Sane, SaneAt
        <4>. QED BY <1>0, <4>1, ToldSane
      <3>. QED BY <1>0, <2>1, <3>1
    <2>. QED BY <2>1, <2>4, <2>5, NotWaiting DEF Book!NoView
  <1>18. CASE Book!LullReads
    <2>1. UNCHANGED <<view, replies, judging>> /\ Book!declines_read
      BY <1>18 DEF Book!LullReads
    <2>. QED BY <1>0, <1>14, <2>1, StillSettled
  <1>19. CASE Book!LullAsks \/ Book!restore
    <2>1. UNCHANGED <<view, replies, judging>>
      BY <1>19 DEF Book!LullAsks, Book!restore
    <2>2. \A k \in Keys : /\ rec'[k].state = rec[k].state /\ rec'[k].left = rec[k].left
                          /\ rec'[k].decline = rec[k].decline
      <3>1. CASE rec' = rec
        BY <3>1
      <3>2. CASE rec' = [k \in Keys |-> IF k \in Book!due
                                       THEN [rec[k] EXCEPT !.missed = FALSE, !.reoffers = 1] ELSE rec[k]]
        BY <1>0, <3>2 DEF Records, Record
      <3>3. CASE Book!restore
        BY <1>0, <3>3 DEF Book!restore, Records, Record, Keys
      <3>. QED BY <1>19, <3>1, <3>2, <3>3 DEF Book!LullAsks, Keys
    <2>3. Sane(rec') /\ Stays(rec, rec') /\ NoMoreCuts(rec, rec')
      BY <2>2 DEF Sane, SaneAt, Stays, NoMoreCuts, Book!owed, Keys
    <2>. QED BY <1>0, <2>1, <2>3, StillSettled
  <1>20. CASE \E k \in Keys : Book!LandUnknown(k)
    <2>1. PICK k \in Keys :
            /\ rec[k].state = "running" /\ rec' = Book!owe(rec, k, born + 1, TRUE)
            /\ UNCHANGED <<view, replies, judging>>
      BY <1>20 DEF Book!LandUnknown
    <2>2. Sane(rec') /\ Stays(rec, rec') /\ NoMoreCuts(rec, rec')
      BY <1>2, <2>1
    <2>. QED BY <1>0, <2>1, <2>2, StillSettled
  <1>21. CASE Book!close_session
    <2>1. /\ view' = Book!NoView /\ replies' = {}
          /\ rec' = [k \in Keys |-> IF k \in declining /\ rec[k].state = "owed" /\ rec[k].decline = "no"
                                    THEN [rec[k] EXCEPT !.decline = "said"] ELSE rec[k]]
      BY <1>21 DEF Book!close_session, Keys
    <2>2. \A k \in Keys : /\ rec'[k].state = rec[k].state /\ rec'[k].left = rec[k].left
                          /\ rec'[k].decline = rec[k].decline \/ rec[k].state = "owed"
      BY <1>0, <2>1 DEF Records, Record
    <2>3. Sane(rec') /\ Stays(rec, rec')
      BY <2>2 DEF Sane, SaneAt, Stays
    <2>. QED BY <1>0, <2>1, <2>3, NotWaiting DEF Book!NoView
  <1>22. CASE UNCHANGED Book!vars
    <2>1. UNCHANGED <<rec, view, replies, judging>>
      BY <1>22 DEF Book!vars
    <2>. QED BY <1>0, <2>1, StillSettled
  <1>. QED
    BY <1>1, <1>3, <1>4, <1>5, <1>6, <1>7, <1>9, <1>10, <1>11, <1>12, <1>13, <1>15, <1>16, <1>17,
       <1>18, <1>19, <1>20, <1>21, <1>22, <1>24
       DEF Book!Next, Keys

(* A request that waited for all that was said of the answers is how with a *)
(* note on none whose telling the caller cut before what they said then has  *)
(* been read; and what has ended stays ended: no verdict, run or restore     *)
(* that comes late owes it again.                                            *)
THEOREM CutsAreRead == Spec => CutsAreReadFirst
  <1>1. Init => ReadInv
    <2>1. ASSUME Book!Init PROVE BookInv /\ Sane(rec) /\ SettledInv
      <3>1. Book!Blank \in Record
        BY DEF Book!Blank, Record, Book!States
      <3>2. BookType
        BY <2>1, <3>1 DEF Book!Init, BookType, Records, Keys, Book!NoView, Book!NoRun, Book!Runs
      <3>3. Book!owed(rec) = {}
        BY <2>1 DEF Book!Init, Book!owed, Book!Blank
      <3>4. Sane(rec) /\ SettledInv
        BY <2>1 DEF Book!Init, Sane, SaneAt, Book!Blank, Keys, SettledInv, Book!NoView
      <3>. QED BY <3>2, <3>3, <3>4 DEF BookInv, Book!NobodyForgotten
    <2>. QED BY <2>1 DEF Init, ReadInv
  <1>2. ReadInv /\ [Next]_vars => ReadInv'
    <2>1. ReadInv /\ [Book!Next]_Book!vars => ReadInv'
      BY BookKeeps, ReadsKeep DEF ReadInv
    <2>. QED BY <2>1, BookAlone
  <1>3. ReadInv /\ [Next]_vars => [NotesWhatIsRead]_Book!vars
    <2>1. ReadInv /\ [Book!Next]_Book!vars => NotesWhatIsRead
      BY ReadsKeep
    <2>. QED BY <2>1, BookAlone
  <1>4. ReadInv /\ [Next]_vars => [Stays(rec, rec')]_Book!vars
    <2>1. ReadInv /\ [Book!Next]_Book!vars => Stays(rec, rec')
      BY ReadsKeep
    <2>. QED BY <2>1, BookAlone
  <1>5. Spec => [][NotesWhatIsRead]_Book!vars /\ [][Stays(rec, rec')]_Book!vars
    BY <1>1, <1>2, <1>3, <1>4, PTL DEF Spec
  <1>. QED BY <1>5, PTL DEF CutsAreReadFirst, Book!CutsAreReadFirst, Book!EndedStaysEnded,
                            NotesWhatIsRead, Stays, Ended, Keys

-----------------------------------------------------------------------------
(* The notes: what is in the context, and what it ends in.                  *)
(* NotesInv is inductive: OrderIsLive puts the order where `order` says;    *)
(* and WordsWait that words whose request has not passed are the last of    *)
(* the context, which nothing is put behind meanwhile.                      *)

Orders(msgs) == {i \in DOMAIN msgs : msgs[i].who = "order"}
HasOne(msgs) == \E i \in Orders(msgs) : Orders(msgs) = {i}
HasNone(msgs) == Orders(msgs) = {}
Carries(msgs, live) == IF live THEN HasOne(msgs) ELSE HasNone(msgs)

OrderIsLive == Carries(context, order)
WordsWait == turn_notes = "onway" => context # <<>> /\ Notes!Last(context).who = "words"
Turned(msgs) == \A i \in DOMAIN msgs : msgs[i].who = "words" => msgs[i].id \in 0..MaxNoteTurns

NotesInv == Notes!TypeOK /\ OrderIsLive /\ WordsWait /\ Turned(context)

NoteBounds == MaxSent \in Nat /\ MaxNotes \in Nat /\ MaxNoteTurns \in Nat

-----------------------------------------------------------------------------
(* What becomes of the order and of the last message.                       *)

IsIn(msgs, m) == \E i \in DOMAIN msgs : msgs[i] = m

\* Only is the one of the queues.
LEMMA NotesOnlyIs ==
  ASSUME NEW T, NEW s \in Seq(T), NEW S
  PROVE  /\ Notes!Only(s, S) \in Seq(T)
         /\ \E p \in [DOMAIN Notes!Only(s, S) -> DOMAIN s] :
              /\ \A k \in DOMAIN Notes!Only(s, S) : Notes!Only(s, S)[k] = s[p[k]] /\ s[p[k]] \in S
              /\ \A k, l \in DOMAIN Notes!Only(s, S) : k < l => p[k] < p[l]
              /\ \A i \in DOMAIN s : s[i] \in S => \E k \in DOMAIN Notes!Only(s, S) : p[k] = i
<1>1. Notes!Only(s, S) = Only(s, S)
  BY DEF Notes!Only, Only, Notes!AtPlaces, AtPlaces, Notes!Places, Places, Notes!Place, Place,
      Notes!Cardinality, Cardinality
<1>. DEFINE o == Only(s, S)
<1>2. o \in Seq(T)
  BY OnlyIs
<1>3. PICK p \in [DOMAIN o -> DOMAIN s] :
         /\ \A k \in DOMAIN o : o[k] = s[p[k]] /\ s[p[k]] \in S
         /\ \A k, l \in DOMAIN o : k < l => p[k] < p[l]
         /\ \A i \in DOMAIN s : s[i] \in S => \E k \in DOMAIN o : p[k] = i
  BY OnlyIs, SMTT(60)
<1>4. Notes!Only(s, S) = o
  BY <1>1
<1>. HIDE DEF o
<1>. QED BY <1>2, <1>3, <1>4

\* What is taken out leaves the order, once, where the order itself is left in.
LEMMA OnlyCarries ==
  ASSUME NEW msgs \in Seq(Notes!Messages), NEW S, NEW live \in BOOLEAN, Carries(msgs, live),
         \A m \in Notes!Messages : m.who = "order" => m \in S
  PROVE  Carries(Notes!Only(msgs, S), live)
<1>. DEFINE o == Notes!Only(msgs, S)
<1>1. PICK p \in [DOMAIN o -> DOMAIN msgs] :
         /\ \A k \in DOMAIN o : o[k] = msgs[p[k]] /\ msgs[p[k]] \in S
         /\ \A k, l \in DOMAIN o : k < l => p[k] < p[l]
         /\ \A i \in DOMAIN msgs : msgs[i] \in S => \E k \in DOMAIN o : p[k] = i
  BY NotesOnlyIs, SMTT(60)
<1>2. o \in Seq(Notes!Messages) /\ \A k \in DOMAIN o : k \in Nat
  <2>1. o \in Seq(Notes!Messages)
    BY NotesOnlyIs
  <2>. QED BY <2>1
<1>. HIDE DEF o
<1>3. \A k, l \in DOMAIN o : p[k] = p[l] => k = l
  <2>. SUFFICES ASSUME NEW k \in DOMAIN o, NEW l \in DOMAIN o, p[k] = p[l], k # l PROVE FALSE
    OBVIOUS
  <2>1. k < l \/ l < k
    BY <1>2
  <2>2. p[k] \in Nat
    OBVIOUS
  <2>. QED BY <1>1, <2>1, <2>2
<1>4. \A i \in DOMAIN msgs : msgs[i] \in Notes!Messages
  OBVIOUS
<1>5. CASE live
  <2>1. PICK i \in Orders(msgs) : Orders(msgs) = {i}
    BY <1>5 DEF Carries, HasOne
  <2>2. PICK k \in DOMAIN o : p[k] = i
    BY <1>1, <1>4, <2>1 DEF Orders
  <2>3. Orders(o) = {k}
    BY <1>1, <1>3, <2>1, <2>2 DEF Orders
  <2>. QED BY <1>5, <2>3 DEF Carries, HasOne, o
<1>6. CASE ~live
  <2>1. Orders(o) = {}
    BY <1>1, <1>6 DEF Orders, Carries, HasNone
  <2>. QED BY <1>6, <2>1 DEF Carries, HasNone, o
<1>. QED BY <1>5, <1>6

\* Every message left was there; the fresh one, where it is left, is the fresh.
LEMMA OnlyKeepsLast ==
  ASSUME NEW msgs \in Seq(Notes!Messages), NEW S
  PROVE  /\ Notes!Only(msgs, S) \in Seq(Notes!Messages)
         /\ \A k \in DOMAIN Notes!Only(msgs, S) : IsIn(msgs, Notes!Only(msgs, S)[k]) /\ Notes!Only(msgs, S)[k] \in S
         /\ msgs # <<>> /\ Notes!Last(msgs) \in S =>
              Notes!Only(msgs, S) # <<>> /\ Notes!Last(Notes!Only(msgs, S)) = Notes!Last(msgs)
<1>. DEFINE o == Notes!Only(msgs, S)
<1>0. o \in Seq(Notes!Messages)
  BY NotesOnlyIs
<1>1. PICK p \in [DOMAIN o -> DOMAIN msgs] :
         /\ \A k \in DOMAIN o : o[k] = msgs[p[k]] /\ msgs[p[k]] \in S
         /\ \A k, l \in DOMAIN o : k < l => p[k] < p[l]
         /\ \A i \in DOMAIN msgs : msgs[i] \in S => \E k \in DOMAIN o : p[k] = i
  BY NotesOnlyIs, SMTT(60)
<1>. HIDE DEF o
<1>2. \A k \in DOMAIN o : IsIn(msgs, o[k]) /\ o[k] \in S
  BY <1>1 DEF IsIn
<1>3. ASSUME msgs # <<>>, Notes!Last(msgs) \in S
      PROVE  o # <<>> /\ Notes!Last(o) = Notes!Last(msgs)
  <2>1. Len(msgs) \in DOMAIN msgs
    BY <1>3
  <2>2. PICK k \in DOMAIN o : p[k] = Len(msgs)
    BY <1>1, <1>3, <2>1 DEF Notes!Last
  <2>3. Len(o) \in DOMAIN o /\ k <= Len(o) /\ k \in Nat /\ Len(o) \in Nat
    BY <1>0, <2>2
  <2>4. p[Len(o)] <= Len(msgs) /\ p[Len(o)] \in Nat /\ Len(msgs) \in Nat
    BY <2>3
  <2>5. k = Len(o)
    BY <1>1, <2>2, <2>3, <2>4
  <2>6. o[Len(o)] = msgs[Len(msgs)]
    BY <1>1, <2>2, <2>5
  <2>. QED BY <2>3, <2>6, <1>0 DEF Notes!Last
<1>. QED BY <1>0, <1>2, <1>3 DEF o

\* Put into the context, what is no order leaves the order as it was; an
\* order is the one where there was none.
LEMMA PutCarries ==
  ASSUME NEW msgs \in Seq(Notes!Messages), NEW new \in Seq(Notes!Messages), NEW at \in 0..Len(msgs)
  PROVE  /\ Notes!PutAt(msgs, at, new) \in Seq(Notes!Messages)
         /\ Turned(msgs) /\ Turned(new) => Turned(Notes!PutAt(msgs, at, new))
         /\ at < Len(msgs) =>
              Notes!PutAt(msgs, at, new) # <<>> /\ Notes!Last(Notes!PutAt(msgs, at, new)) = Notes!Last(msgs)
         /\ at = Len(msgs) /\ new # <<>> =>
              Notes!PutAt(msgs, at, new) # <<>> /\ Notes!Last(Notes!PutAt(msgs, at, new)) = Notes!Last(new)
         /\ \A live \in BOOLEAN : HasNone(new) /\ Carries(msgs, live) => Carries(Notes!PutAt(msgs, at, new), live)
         /\ HasNone(msgs) /\ Len(new) = 1 /\ new[1].who = "order" => HasOne(Notes!PutAt(msgs, at, new))
<1>. DEFINE r == Notes!PutAt(msgs, at, new)
            n == Len(new)
            shift(i) == IF i <= at THEN i ELSE i + n
<1>. DEFINE a == SubSeq(msgs, 1, at)
            b == SubSeq(msgs, at + 1, Len(msgs))
            an == a \o new
<1>a. a \in Seq(Notes!Messages) /\ Len(a) = at /\ \A i \in 1..at : a[i] = msgs[i]
  OBVIOUS
<1>b. /\ b \in Seq(Notes!Messages) /\ Len(b) = Len(msgs) - at
      /\ \A i \in 1..(Len(msgs) - at) : b[i] = msgs[at + i]
  OBVIOUS
<1>c. r = an \o b
  BY DEF Notes!PutAt
<1>. HIDE DEF a, b
<1>d. /\ an \in Seq(Notes!Messages) /\ Len(an) = at + n
      /\ \A i \in 1..at : an[i] = msgs[i]
      /\ \A i \in 1..n : an[at + i] = new[i]
  BY SMTT(60), <1>a
<1>. HIDE DEF r, an
<1>1. r \in Seq(Notes!Messages) /\ Len(r) = Len(msgs) + n /\ n \in Nat /\ Len(msgs) \in Nat /\ at \in Nat
  <2>1. n \in Nat /\ Len(msgs) \in Nat /\ at \in Nat
    OBVIOUS
  <2>. HIDE DEF n
  <2>2. an \in Seq(Notes!Messages) /\ b \in Seq(Notes!Messages)
    BY <1>b, <1>d
  <2>3. r \in Seq(Notes!Messages) /\ Len(r) = Len(an) + Len(b)
    BY <2>2, <1>c
  <2>. QED BY <2>1, <2>3, <1>b, <1>d
<1>0. /\ \A i \in 1..(at + n) : r[i] = an[i]
      /\ \A i \in 1..(Len(msgs) - at) : r[at + n + i] = b[i]
  BY <1>b, <1>c, <1>d
<1>2. \A i \in 1..at : r[i] = msgs[i]
  BY <1>0, <1>d, <1>1
<1>3. \A i \in 1..n : r[at + i] = new[i]
  BY <1>0, <1>d, <1>1
<1>4. \A i \in (at + 1)..Len(msgs) : r[i + n] = msgs[i]
  <2>. TAKE i \in (at + 1)..Len(msgs)
  <2>1. i - at \in 1..(Len(msgs) - at) /\ at + n + (i - at) = i + n /\ at + (i - at) = i
    BY <1>1
  <2>. QED BY <2>1, <1>0, <1>b
<1>. HIDE DEF r, n
<1>5. \A i \in DOMAIN msgs : shift(i) \in DOMAIN r /\ r[shift(i)] = msgs[i]
  <2>. TAKE i \in DOMAIN msgs
  <2>0. i \in 1..Len(msgs) /\ DOMAIN r = 1..Len(r)
    BY <1>1
  <2>1. CASE i <= at
    <3>1. i \in 1..at /\ shift(i) = i /\ i \in 1..Len(r)
      BY <2>0, <2>1, <1>1
    <3>2. r[i] = msgs[i]
      BY <3>1, <1>2
    <3>. QED BY <3>1, <3>2, <2>0
  <2>2. CASE ~(i <= at)
    <3>1. i \in (at + 1)..Len(msgs) /\ shift(i) = i + n /\ i + n \in 1..Len(r)
      BY <2>0, <2>2, <1>1
    <3>2. r[i + n] = msgs[i]
      BY <3>1, <1>4
    <3>. QED BY <3>1, <3>2, <2>0
  <2>. QED BY <2>1, <2>2
<1>6. \A i \in DOMAIN new : at + i \in DOMAIN r /\ r[at + i] = new[i]
  <2>. TAKE i \in DOMAIN new
  <2>1. i \in 1..n
    BY DEF n
  <2>2. at + i \in 1..Len(r)
    BY <2>1, <1>1
  <2>. QED BY <2>1, <2>2, <1>1, <1>3
<1>7. \A i \in DOMAIN r : (\E j \in DOMAIN msgs : i = shift(j)) \/ (\E j \in DOMAIN new : i = at + j)
  <2>. SUFFICES ASSUME NEW i \in DOMAIN r
       PROVE (\E j \in DOMAIN msgs : i = shift(j)) \/ (\E j \in DOMAIN new : i = at + j)
    OBVIOUS
  <2>0. i \in Nat /\ 1 <= i /\ i <= Len(msgs) + n
    BY <1>1
  <2>1. CASE i <= at
    <3>1. i \in DOMAIN msgs /\ i = shift(i)
      BY <2>0, <2>1, <1>1
    <3>. QED BY <3>1
  <2>2. CASE i > at /\ i <= at + n
    <3>1. i - at \in DOMAIN new /\ i = at + (i - at)
      BY <2>0, <2>2, <1>1 DEF n
    <3>. QED BY <3>1
  <2>3. CASE i > at + n
    <3>1. i - n \in DOMAIN msgs /\ i = shift(i - n)
      BY <2>0, <2>3, <1>1
    <3>. QED BY <3>1
  <2>. QED BY <2>0, <2>1, <2>2, <2>3, <1>1
<1>8. \A i, j \in DOMAIN msgs : shift(i) = shift(j) => i = j
  BY <1>1
<1>9. \A i \in DOMAIN r : IsIn(msgs, r[i]) \/ IsIn(new, r[i])
  <2>. HIDE DEF shift
  <2>. QED BY <1>5, <1>6, <1>7 DEF IsIn
<1>10. at < Len(msgs) => r # <<>> /\ Notes!Last(r) = Notes!Last(msgs)
  <2>1. at < Len(msgs) => Len(msgs) \in DOMAIN msgs /\ shift(Len(msgs)) = Len(r)
    BY <1>1
  <2>. HIDE DEF shift
  <2>. QED BY <2>1, <1>1, <1>5 DEF Notes!Last
<1>11. at = Len(msgs) /\ new # <<>> => r # <<>> /\ Notes!Last(r) = Notes!Last(new)
  <2>1. at = Len(msgs) /\ new # <<>> => n \in DOMAIN new /\ at + n = Len(r) /\ n = Len(new) /\ r # <<>>
    BY <1>1 DEF n
  <2>. QED BY <2>1, <1>6 DEF Notes!Last
<1>12. ASSUME NEW live \in BOOLEAN, HasNone(new), Carries(msgs, live)
       PROVE  Carries(r, live)
  <2>1. \A i \in DOMAIN new : new[i].who # "order"
    BY <1>12 DEF HasNone, Orders
  <2>2. \A i \in Orders(r) : \E j \in Orders(msgs) : i = shift(j)
    <3>. HIDE DEF shift
    <3>. QED BY <1>5, <1>6, <1>7, <2>1 DEF Orders
  <2>3. \A j \in Orders(msgs) : shift(j) \in Orders(r)
    <3>. HIDE DEF shift
    <3>. QED BY <1>5 DEF Orders
  <2>. HIDE DEF shift
  <2>4. CASE live
    <3>1. PICK j \in Orders(msgs) : Orders(msgs) = {j}
      BY <1>12, <2>4 DEF Carries, HasOne
    <3>2. Orders(r) = {shift(j)}
      BY <2>2, <2>3, <3>1
    <3>. QED BY <2>4, <3>2 DEF Carries, HasOne
  <2>5. CASE ~live
    BY <1>12, <2>2, <2>5 DEF Carries, HasNone
  <2>. QED BY <2>4, <2>5
<1>13. ASSUME HasNone(msgs), n = 1, new[1].who = "order"
       PROVE  HasOne(r)
  <2>1. \A i \in DOMAIN msgs : msgs[i].who # "order"
    BY <1>13 DEF HasNone, Orders
  <2>2. 1 \in DOMAIN new /\ \A j \in DOMAIN new : j = 1
    BY <1>13 DEF n
  <2>3. \A i \in Orders(r) : i = at + 1
    <3>. HIDE DEF shift
    <3>. QED BY <1>5, <1>7, <2>1, <2>2 DEF Orders
  <2>4. at + 1 \in Orders(r)
    BY <1>6, <1>13, <2>2 DEF Orders
  <2>5. Orders(r) = {at + 1}
    BY <2>3, <2>4
  <2>. QED BY <2>4, <2>5 DEF HasOne
<1>14. Turned(msgs) /\ Turned(new) => Turned(r)
  BY <1>9 DEF Turned, IsIn
<1>. QED BY <1>1, <1>10, <1>11, <1>12, <1>13, <1>14 DEF r, n

LEMMA AppendCarries ==
  ASSUME NEW msgs \in Seq(Notes!Messages), NEW m \in Notes!Messages
  PROVE  /\ Append(msgs, m) \in Seq(Notes!Messages) /\ Append(msgs, m) # <<>> /\ Notes!Last(Append(msgs, m)) = m
         /\ \A live \in BOOLEAN : m.who # "order" /\ Carries(msgs, live) => Carries(Append(msgs, m), live)
         /\ HasNone(msgs) /\ m.who = "order" => HasOne(Append(msgs, m))
         /\ Turned(msgs) /\ (m.who = "words" => m.id \in 0..MaxNoteTurns) => Turned(Append(msgs, m))
<1>. DEFINE r == Append(msgs, m)
<1>1. /\ r \in Seq(Notes!Messages) /\ Len(r) = Len(msgs) + 1 /\ DOMAIN r = DOMAIN msgs \cup {Len(msgs) + 1}
      /\ r[Len(msgs) + 1] = m /\ \A i \in DOMAIN msgs : r[i] = msgs[i]
  BY AppendIs
<1>2. Len(msgs) + 1 \notin DOMAIN msgs
  OBVIOUS
<1>. HIDE DEF r
<1>3. r # <<>> /\ Notes!Last(r) = m
  BY <1>1 DEF Notes!Last
<1>4. Orders(r) = Orders(msgs) \cup (IF m.who = "order" THEN {Len(msgs) + 1} ELSE {})
  BY <1>1, <1>2 DEF Orders
<1>5. \A live \in BOOLEAN : m.who # "order" /\ Carries(msgs, live) => Carries(r, live)
  BY <1>4 DEF Carries, HasOne, HasNone
<1>6. HasNone(msgs) /\ m.who = "order" => HasOne(r)
  BY <1>4 DEF HasOne, HasNone
<1>7. Turned(msgs) /\ (m.who = "words" => m.id \in 0..MaxNoteTurns) => Turned(r)
  BY <1>1 DEF Turned
<1>. QED BY <1>1, <1>3, <1>5, <1>6, <1>7 DEF r

LEMMA NoOrderIs ==
  ASSUME NEW msgs \in Seq(Notes!Messages)
  PROVE  /\ Notes!NoOrder(msgs) \in Seq(Notes!Messages) /\ HasNone(Notes!NoOrder(msgs))
         /\ Turned(msgs) => Turned(Notes!NoOrder(msgs))
         /\ msgs # <<>> /\ Notes!Last(msgs).who # "order" =>
              Notes!NoOrder(msgs) # <<>> /\ Notes!Last(Notes!NoOrder(msgs)) = Notes!Last(msgs)
<1>. DEFINE S == {m \in Notes!Messages : m.who # "order"}
            o == Notes!Only(msgs, S)
<1>1. /\ o \in Seq(Notes!Messages) /\ \A k \in DOMAIN o : IsIn(msgs, o[k]) /\ o[k] \in S
      /\ msgs # <<>> /\ Notes!Last(msgs) \in S => o # <<>> /\ Notes!Last(o) = Notes!Last(msgs)
  BY OnlyKeepsLast
<1>2. msgs # <<>> => Notes!Last(msgs) \in Notes!Messages
  BY DEF Notes!Last
<1>3. Notes!NoOrder(msgs) = o
  BY DEF Notes!NoOrder
<1>. HIDE DEF o
<1>4. HasNone(o)
  BY <1>1 DEF HasNone, Orders
<1>5. Turned(msgs) => Turned(o)
  BY <1>1 DEF Turned, IsIn
<1>. QED BY <1>1, <1>2, <1>3, <1>4, <1>5

LEMMA RetainIs ==
  ASSUME NEW msgs \in Seq(Notes!Messages), NEW ids
  PROVE  /\ Notes!Retain(msgs, ids) \in Seq(Notes!Messages)
         /\ \A live \in BOOLEAN : Carries(msgs, live) => Carries(Notes!Retain(msgs, ids), live)
         /\ Turned(msgs) => Turned(Notes!Retain(msgs, ids))
         /\ msgs # <<>> /\ Notes!Last(msgs).who # "note" =>
              Notes!Retain(msgs, ids) # <<>> /\ Notes!Last(Notes!Retain(msgs, ids)) = Notes!Last(msgs)
<1>. DEFINE S == {m \in Notes!Messages : m.who = "note" => m.id \in Notes!ToSet(Notes!Kept(ids))}
            o == Notes!Only(msgs, S)
<1>1. /\ o \in Seq(Notes!Messages) /\ \A k \in DOMAIN o : IsIn(msgs, o[k]) /\ o[k] \in S
      /\ msgs # <<>> /\ Notes!Last(msgs) \in S => o # <<>> /\ Notes!Last(o) = Notes!Last(msgs)
  BY OnlyKeepsLast
<1>2. msgs # <<>> => Notes!Last(msgs) \in Notes!Messages
  BY DEF Notes!Last
<1>3. Notes!Retain(msgs, ids) = o
  BY DEF Notes!Retain
<1>4. \A m \in Notes!Messages : m.who # "note" => m \in S
  OBVIOUS
<1>. HIDE DEF S
<1>5. \A live \in BOOLEAN : Carries(msgs, live) => Carries(o, live)
  BY <1>4, OnlyCarries
<1>. HIDE DEF o
<1>6. Turned(msgs) => Turned(o)
  BY <1>1 DEF Turned, IsIn
<1>. QED BY <1>1, <1>2, <1>3, <1>4, <1>5, <1>6

LEMMA KeptIs ==
  ASSUME NoteBounds, NEW ids \in Seq(Notes!Ids)
  PROVE  Notes!Kept(ids) \in Seq(Notes!Ids)
<1>1. Len(ids) > MaxNotes => SubSeq(ids, Len(ids) - MaxNotes + 1, Len(ids)) \in Seq(Notes!Ids)
  BY DEF NoteBounds
<1>. QED BY <1>1 DEF Notes!Kept

LEMMA TextsAre ==
  ASSUME NoteBounds, NEW ns \in Seq(Notes!Note)
  PROVE  /\ Notes!Texts(ns) \in Seq(Notes!Messages) /\ HasNone(Notes!Texts(ns)) /\ Turned(Notes!Texts(ns))
         /\ \A i \in DOMAIN Notes!Texts(ns) : Notes!Texts(ns)[i].who = "note" /\ Notes!Texts(ns)[i].id \in Notes!Ids
<1>. DEFINE own == Notes!Only(ns, {n \in Notes!Note : ~n.host})
            r == [i \in DOMAIN own |-> Notes!Message("note", own[i].id)]
<1>1. own \in Seq(Notes!Note)
  BY NotesOnlyIs
<1>2. Notes!Texts(ns) = r
  BY DEF Notes!Texts
<1>. HIDE DEF own
<1>3. DOMAIN own = 1..Len(own) /\ Len(own) \in Nat /\ \A i \in DOMAIN own : own[i].id \in Notes!Ids
  <2>1. DOMAIN own = 1..Len(own) /\ Len(own) \in Nat /\ \A i \in DOMAIN own : own[i] \in Notes!Note
    BY <1>1
  <2>. QED BY <2>1 DEF Notes!Note
<1>4. \A i \in DOMAIN own : Notes!Message("note", own[i].id) \in Notes!Messages
  BY <1>3 DEF Notes!Messages, Notes!Message, Notes!Ids, NoteBounds
<1>5. r \in [1..Len(own) -> Notes!Messages]
  BY <1>3, <1>4
<1>6. r \in Seq(Notes!Messages)
  BY <1>3, <1>5
<1>7. \A i \in DOMAIN r : r[i].who = "note" /\ r[i].id \in Notes!Ids
  BY <1>3 DEF Notes!Message
<1>8. HasNone(r) /\ Turned(r)
  BY <1>7 DEF HasNone, Orders, Turned
<1>. QED BY <1>2, <1>6, <1>7, <1>8

LEMMA PostedAre ==
  ASSUME NoteBounds, Notes!TypeOK
  PROVE  Notes!PostedIds \in Seq(Notes!Ids) /\ Notes!Kept(Notes!PostedIds) \in Seq(Notes!Ids)
<1>. DEFINE s == Notes!Texts(pending)
            r == [i \in DOMAIN s |-> s[i].id]
<1>1. s \in Seq(Notes!Messages) /\ \A i \in DOMAIN s : s[i].id \in Notes!Ids
  BY TextsAre DEF Notes!TypeOK
<1>2. Notes!PostedIds = posted \o r
  BY DEF Notes!PostedIds
<1>. HIDE DEF s
<1>3. DOMAIN s = 1..Len(s) /\ Len(s) \in Nat
  BY <1>1
<1>4. r \in [1..Len(s) -> Notes!Ids]
  BY <1>1, <1>3
<1>5. r \in Seq(Notes!Ids)
  BY <1>3, <1>4
<1>. HIDE DEF r
<1>6. Notes!PostedIds \in Seq(Notes!Ids)
  BY <1>2, <1>5 DEF Notes!TypeOK
<1>. QED BY <1>6, KeptIs

\* What is folded goes before the words it is for, and the order fresh of it.
LEMMA FoldedIs ==
  ASSUME NoteBounds, Notes!TypeOK, NEW base \in Seq(Notes!Messages), base # <<>>, Turned(base),
         NEW live \in BOOLEAN, Carries(base, live)
  PROVE  /\ Notes!Folded(base) \in Seq(Notes!Messages) /\ Turned(Notes!Folded(base))
         /\ Carries(Notes!Folded(base), Notes!InTime \/ live)
         /\ Notes!Last(base).who = "words" => Notes!Folded(base) # <<>> /\ Notes!Last(Notes!Folded(base)).who \in {"words", "order"}
<1>. DEFINE new == Notes!Texts(pending)
            at == IF Notes!Last(base).who = "note" THEN Len(base) ELSE Len(base) - 1
            put == Notes!PutAt(base, at, new)
            kept == Notes!Retain(put, Notes!PostedIds)
            rest == Notes!NoOrder(kept)
            p == IF at + Len(new) > Len(rest) THEN Len(rest) ELSE at + Len(new)
            fresh == <<Notes!Message("order", 0)>>
            r == Notes!PutAt(rest, p, fresh)
<1>1. Notes!Folded(base) = IF ~Notes!InTime THEN kept ELSE r
  BY DEF Notes!Folded
<1>2. new \in Seq(Notes!Messages) /\ HasNone(new) /\ Turned(new)
  BY TextsAre DEF Notes!TypeOK
<1>3. fresh \in Seq(Notes!Messages) /\ Len(fresh) = 1 /\ fresh[1].who = "order" /\ Notes!Last(fresh).who = "order"
      /\ fresh # <<>> /\ Turned(fresh)
  BY DEF Notes!Message, Notes!Messages, NoteBounds, Notes!Last, Turned
<1>. HIDE DEF new, fresh
<1>4. at \in 0..Len(base) /\ (Notes!Last(base).who = "words" => at < Len(base))
  OBVIOUS
<1>. HIDE DEF at
<1>5. put \in Seq(Notes!Messages) /\ Turned(put) /\ Carries(put, live)
  BY <1>2, <1>4, PutCarries
<1>6. Notes!Last(base).who = "words" => put # <<>> /\ Notes!Last(put) = Notes!Last(base)
  BY <1>2, <1>4, PutCarries
<1>. HIDE DEF put
<1>7. kept \in Seq(Notes!Messages) /\ Turned(kept) /\ Carries(kept, live)
      /\ (Notes!Last(base).who = "words" => kept # <<>> /\ Notes!Last(kept) = Notes!Last(base))
  BY <1>5, <1>6, RetainIs
<1>. HIDE DEF kept
<1>8. rest \in Seq(Notes!Messages) /\ Turned(rest) /\ HasNone(rest)
      /\ (Notes!Last(base).who = "words" => rest # <<>> /\ Notes!Last(rest) = Notes!Last(base))
  BY <1>7, NoOrderIs
<1>. HIDE DEF rest
<1>9. p \in 0..Len(rest)
  BY <1>2, <1>4, <1>8
<1>. HIDE DEF p
<1>10. r \in Seq(Notes!Messages) /\ Turned(r) /\ HasOne(r)
  BY <1>3, <1>8, <1>9, PutCarries
<1>11. Notes!Last(base).who = "words" => r # <<>> /\ Notes!Last(r).who \in {"words", "order"}
  <2>1. p < Len(rest) => r # <<>> /\ Notes!Last(r) = Notes!Last(rest)
    BY <1>3, <1>8, <1>9, PutCarries
  <2>2. p = Len(rest) => r # <<>> /\ Notes!Last(r) = Notes!Last(fresh)
    BY <1>3, <1>8, <1>9, PutCarries
  <2>. QED BY <2>1, <2>2, <1>3, <1>8, <1>9
<1>. QED BY <1>1, <1>7, <1>10, <1>11 DEF Carries

-----------------------------------------------------------------------------
(* The steps.                                                                *)

NoNoteNow == turn_notes = "onway" /\ turn_notes' = "asked" => Notes!Last(context').who # "note"

\* A request that passes: what it is folded to.
LEMMA FoldKeeps ==
  ASSUME NoteBounds, NotesInv, Notes!Fold
  PROVE  /\ context' \in Seq(Notes!Messages) /\ posted' \in Seq(Notes!Ids) /\ pending' \in Seq(Notes!Note)
         /\ {order', orderOld'} \subseteq BOOLEAN
         /\ Carries(context', order') /\ Turned(context')
         /\ turn_notes = "onway" => Notes!Last(context').who # "note"
<1>. DEFINE base == Notes!FoldBase
            live == order /\ ~Notes!Expired
            takes == pending # <<>> /\ base # <<>> /\ Notes!Last(base).who # "reply"
<1>1. /\ context' = IF takes THEN Notes!Folded(base) ELSE base
      /\ pending' = IF takes THEN <<>> ELSE pending
      /\ posted' = IF takes THEN Notes!Kept(Notes!PostedIds) ELSE posted
      /\ order' = ((takes /\ Notes!InTime) \/ live)
      /\ orderOld' = (orderOld /\ ~Notes!Expired /\ ~(takes /\ Notes!InTime))
  BY DEF Notes!Fold
<1>2. /\ context \in Seq(Notes!Messages) /\ posted \in Seq(Notes!Ids) /\ pending \in Seq(Notes!Note)
      /\ {order, orderOld} \subseteq BOOLEAN /\ Carries(context, order) /\ Turned(context)
      /\ turn_notes = "onway" => context # <<>> /\ Notes!Last(context).who = "words"
  BY DEF NotesInv, Notes!TypeOK, OrderIsLive, WordsWait
<1>3. /\ base \in Seq(Notes!Messages) /\ Turned(base) /\ live \in BOOLEAN /\ Carries(base, live)
      /\ turn_notes = "onway" => base # <<>> /\ Notes!Last(base).who = "words"
  <2>1. CASE Notes!Expired
    <3>1. base = Notes!NoOrder(context) /\ live = FALSE
      BY <2>1 DEF Notes!FoldBase
    <3>. HIDE DEF base, live
    <3>. QED BY <1>2, <3>1, NoOrderIs DEF Carries
  <2>2. CASE ~Notes!Expired
    <3>1. base = context /\ (live <=> order)
      BY <2>2 DEF Notes!FoldBase
    <3>2. live \in BOOLEAN
      OBVIOUS
    <3>. HIDE DEF base, live
    <3>. QED BY <1>2, <3>1, <3>2 DEF Carries
  <2>. QED BY <2>1, <2>2
<1>4. Notes!PostedIds \in Seq(Notes!Ids) /\ Notes!Kept(Notes!PostedIds) \in Seq(Notes!Ids)
  BY PostedAre DEF NotesInv
<1>. HIDE DEF base, live
<1>5. CASE takes
  <2>1. /\ Notes!Folded(base) \in Seq(Notes!Messages) /\ Turned(Notes!Folded(base)) /\ Carries(Notes!Folded(base), Notes!InTime \/ live)
        /\ Notes!Last(base).who = "words" => Notes!Folded(base) # <<>> /\ Notes!Last(Notes!Folded(base)).who \in {"words", "order"}
    BY <1>3, <1>5, FoldedIs DEF NotesInv
  <2>2. /\ context' = Notes!Folded(base) /\ pending' = <<>> /\ posted' = Notes!Kept(Notes!PostedIds)
        /\ order' = (Notes!InTime \/ live) /\ orderOld' \in BOOLEAN
    BY <1>1, <1>5
  <2>3. Notes!InTime \in BOOLEAN
    BY DEF Notes!InTime
  <2>4. {order', orderOld'} \subseteq BOOLEAN /\ pending' \in Seq(Notes!Note)
    BY <1>3, <2>2, <2>3
  <2>. QED BY <1>3, <1>4, <2>1, <2>2, <2>4
<1>6. CASE ~takes
  <2>1. context' = base /\ pending' = pending /\ posted' = posted /\ order' = live /\ orderOld' \in BOOLEAN
    BY <1>1, <1>3, <1>6
  <2>. QED BY <1>2, <1>3, <2>1
<1>. QED BY <1>5, <1>6

\* A quiet moment: what is posted then.
LEMMA PostKeeps ==
  ASSUME NoteBounds, NotesInv, Notes!Post
  PROVE  /\ context' \in Seq(Notes!Messages) /\ posted' \in Seq(Notes!Ids) /\ pending' \in Seq(Notes!Note)
         /\ {order', orderOld'} \subseteq BOOLEAN
         /\ Carries(context', order') /\ Turned(context')
<1>. DEFINE new == Notes!Texts(pending)
            cat == context \o new
            all == Notes!Retain(cat, Notes!PostedIds)
<1>1. /\ context \in Seq(Notes!Messages) /\ pending \in Seq(Notes!Note)
      /\ {order, orderOld} \subseteq BOOLEAN /\ Carries(context, order) /\ Turned(context)
  BY DEF NotesInv, Notes!TypeOK, OrderIsLive
<1>2. new \in Seq(Notes!Messages) /\ HasNone(new) /\ Turned(new)
  BY <1>1, TextsAre
<1>3. Notes!PostedIds \in Seq(Notes!Ids) /\ Notes!Kept(Notes!PostedIds) \in Seq(Notes!Ids)
  BY PostedAre DEF NotesInv
<1>4. /\ pending' = <<>> /\ posted' = Notes!Kept(Notes!PostedIds)
      /\ \/ context' = all /\ order' = order /\ orderOld' = orderOld
         \/ context' = Append(Notes!NoOrder(all), Notes!Message("order", 0)) /\ order' = TRUE /\ orderOld' = FALSE
  BY DEF Notes!Post
<1>. HIDE DEF new
<1>5. cat = Notes!PutAt(context, Len(context), new)
  <2>1. SubSeq(context, 1, Len(context)) = context /\ SubSeq(context, Len(context) + 1, Len(context)) = <<>>
    BY <1>1
  <2>2. (context \o new) \o <<>> = context \o new
    BY <1>1, <1>2
  <2>. QED BY <2>1, <2>2 DEF Notes!PutAt
<1>6. cat \in Seq(Notes!Messages) /\ Turned(cat) /\ Carries(cat, order)
  <2>1. Len(context) \in 0..Len(context) /\ order \in BOOLEAN
    BY <1>1
  <2>. HIDE DEF cat
  <2>. QED BY <1>1, <1>2, <1>5, <2>1, PutCarries
<1>. HIDE DEF cat
<1>7. all \in Seq(Notes!Messages) /\ Turned(all) /\ Carries(all, order)
  BY <1>1, <1>6, RetainIs
<1>. HIDE DEF all
<1>8. Notes!Message("order", 0) \in Notes!Messages /\ Notes!Message("order", 0).who = "order"
  BY DEF Notes!Message, Notes!Messages, NoteBounds
<1>. DEFINE r == Append(Notes!NoOrder(all), Notes!Message("order", 0))
<1>9. r \in Seq(Notes!Messages) /\ Turned(r) /\ Carries(r, TRUE)
  <2>1. Notes!NoOrder(all) \in Seq(Notes!Messages) /\ HasNone(Notes!NoOrder(all)) /\ Turned(Notes!NoOrder(all))
    BY <1>7, NoOrderIs
  <2>. QED BY <1>8, <2>1, AppendCarries DEF Carries
<1>10. CASE context' = all /\ order' = order /\ orderOld' = orderOld
  BY <1>1, <1>3, <1>4, <1>7, <1>10
<1>11. CASE context' = r /\ order' = TRUE /\ orderOld' = FALSE
  <2>. HIDE DEF r
  <2>0. posted' = Notes!Kept(Notes!PostedIds) /\ pending' = <<>>
    BY <1>4
  <2>1. posted' \in Seq(Notes!Ids) /\ pending' \in Seq(Notes!Note) /\ {order', orderOld'} \subseteq BOOLEAN
    <3>1. <<>> \in Seq(Notes!Note)
      OBVIOUS
    <3>2. {order', orderOld'} \subseteq BOOLEAN
      BY <1>11
    <3>. QED BY <1>3, <2>0, <3>1, <3>2, Zenon
  <2>2. context' \in Seq(Notes!Messages) /\ Turned(context') /\ Carries(context', order')
    BY <1>9, <1>11, Zenon
  <2>. QED BY <2>1, <2>2
<1>. QED BY <1>4, <1>10, <1>11

LEMMA NotesKeep ==
  ASSUME NoteBounds, NotesInv, [Notes!Next]_Notes!vars
  PROVE  NotesInv' /\ NoNoteNow
<1>. USE DEF NotesInv
<1>1. CASE Notes!Receive
  <2>1. PICK asks \in BOOLEAN, host \in BOOLEAN :
          Notes!Takes([id |-> sent + 1, asks |-> asks, host |-> host, late |-> FALSE])
          /\ recent' = (recent \/ (asks /\ ~host))
    BY <1>1 DEF Notes!Receive
  <2>. DEFINE n == [id |-> sent + 1, asks |-> asks, host |-> host, late |-> FALSE]
              all == Append(pending, n)
  <2>2. sent + 1 \in Notes!Ids /\ sent' = sent + 1 /\ sent' \in 0..MaxSent
    BY <1>1 DEF Notes!Receive, Notes!Ids, Notes!TypeOK, NoteBounds
  <2>3. n \in Notes!Note
    BY <2>2 DEF Notes!Note
  <2>. HIDE DEF n
  <2>4. all \in Seq(Notes!Note)
    BY <2>3 DEF Notes!TypeOK
  <2>5. pending' \in {all, SubSeq(all, Len(all) - MaxNotes + 1, Len(all))}
        /\ (pending' = all \/ Len(all) > MaxNotes)
    BY <2>1 DEF Notes!Takes, n
  <2>. HIDE DEF all
  <2>6. pending' \in Seq(Notes!Note)
    <3>1. Len(all) > MaxNotes => SubSeq(all, Len(all) - MaxNotes + 1, Len(all)) \in Seq(Notes!Note)
      BY <2>4 DEF NoteBounds
    <3>. QED BY <3>1, <2>4, <2>5
  <2>7. recent' \in BOOLEAN
    BY <2>1 DEF Notes!TypeOK
  <2>8. UNCHANGED <<context, posted, order, orderOld, held_for, turn_notes, react, turns_notes>> /\ drainer' = TRUE
    BY <1>1 DEF Notes!Receive
  <2>. QED BY <2>2, <2>6, <2>7, <2>8 DEF Notes!TypeOK, OrderIsLive, WordsWait, NoNoteNow
<1>2. CASE Notes!IntervalOver
  BY <1>2 DEF Notes!IntervalOver, Notes!contextVars, Notes!TypeOK, OrderIsLive, WordsWait, NoNoteNow
<1>3. CASE Notes!Deadline
  <2>1. /\ UNCHANGED <<context, posted, order, held_for, drainer, recent, turn_notes, react, sent, turns_notes>>
        /\ orderOld' \in BOOLEAN
    BY <1>3 DEF Notes!Deadline, Notes!contextVars, Notes!TypeOK
  <2>2. pending' = pending \/ \E i : pending' = [pending EXCEPT ![i].late = TRUE]
    BY <1>3 DEF Notes!Deadline
  <2>3. pending' \in Seq(Notes!Note)
    <3>1. ASSUME NEW i PROVE [pending EXCEPT ![i].late = TRUE] \in Seq(Notes!Note)
      <4>0. DOMAIN pending = 1..Len(pending) /\ Len(pending) \in Nat
            /\ \A k \in DOMAIN pending : pending[k] \in Notes!Note
        BY DEF Notes!TypeOK
      <4>1. pending[i] \in Notes!Note => [pending[i] EXCEPT !.late = TRUE] \in Notes!Note
        BY DEF Notes!Note
      <4>2. [pending EXCEPT ![i].late = TRUE] \in [1..Len(pending) -> Notes!Note]
        <5>. HIDE DEF Notes!Note
        <5>. QED BY <4>0, <4>1
      <4>. QED BY <4>0, <4>2
    <3>. QED BY <2>2, <3>1 DEF Notes!TypeOK
  <2>. QED BY <2>1, <2>3 DEF Notes!TypeOK, OrderIsLive, WordsWait, NoNoteNow
<1>4. CASE Notes!DrainWindow
  <2>1. UNCHANGED <<recent, turn_notes, sent, turns_notes>>
    BY <1>4 DEF Notes!DrainWindow
  <2>2. CASE pending = <<>> /\ drainer' = FALSE /\ UNCHANGED <<Notes!contextVars, pending, held_for, react>>
    BY <2>1, <2>2 DEF Notes!contextVars, Notes!TypeOK, OrderIsLive, WordsWait, NoNoteNow
  <2>3. CASE held_for' = Notes!foreign_tail /\ UNCHANGED <<Notes!contextVars, pending, drainer, react>>
    <3>1. Notes!foreign_tail \in 0..MaxNoteTurns
      <4>1. context # <<>> => Len(context) \in DOMAIN context
        BY DEF Notes!TypeOK
      <4>. QED BY <4>1 DEF Notes!foreign_tail, Notes!Last, Turned, NoteBounds
    <3>. QED BY <2>1, <2>3, <3>1 DEF Notes!contextVars, Notes!TypeOK, OrderIsLive, WordsWait, NoNoteNow
  <2>4. CASE turn_notes = "none" /\ Notes!Post /\ react' = Notes!Asked /\ drainer' = FALSE /\ UNCHANGED held_for
    <3>1. /\ context' \in Seq(Notes!Messages) /\ posted' \in Seq(Notes!Ids) /\ pending' \in Seq(Notes!Note)
          /\ {order', orderOld'} \subseteq BOOLEAN
          /\ Carries(context', order') /\ Turned(context')
      BY <2>4, PostKeeps
    <3>2. react' \in BOOLEAN
      BY <2>4 DEF Notes!Asked
    <3>. QED BY <2>1, <2>4, <3>1, <3>2 DEF Notes!TypeOK, OrderIsLive, WordsWait, NoNoteNow
  <2>. QED BY <1>4, <2>2, <2>3, <2>4 DEF Notes!DrainWindow
<1>5. CASE Notes!DrainLate
  <2>1. /\ pending' = [i \in DOMAIN pending |-> [pending[i] EXCEPT !.asks = @ /\ ~pending[i].late]]
        /\ UNCHANGED <<Notes!contextVars, held_for, drainer, recent, turn_notes, react, sent, turns_notes>>
    BY <1>5 DEF Notes!DrainLate
  <2>2. DOMAIN pending = 1..Len(pending) /\ Len(pending) \in Nat /\ \A i \in DOMAIN pending : pending[i] \in Notes!Note
    BY DEF Notes!TypeOK
  <2>3. \A m \in Notes!Note : [m EXCEPT !.asks = @ /\ ~m.late] \in Notes!Note
    BY DEF Notes!Note
  <2>4. pending' \in [1..Len(pending) -> Notes!Note]
    BY <2>1, <2>2, <2>3
  <2>5. pending' \in Seq(Notes!Note)
    BY <2>2, <2>4
  <2>. QED BY <2>1, <2>5 DEF Notes!contextVars, Notes!TypeOK, OrderIsLive, WordsWait, NoNoteNow
<1>6. CASE Notes!TurnOpens
  <2>1. Notes!Message("reply", turns_notes) \in Notes!Messages /\ Notes!Message("reply", turns_notes).who = "reply"
    BY DEF Notes!Message, Notes!Messages, Notes!TypeOK, NoteBounds
  <2>2. context' \in {context, Append(context, Notes!Message("reply", turns_notes))}
    BY <1>6 DEF Notes!TurnOpens
  <2>3. context' \in Seq(Notes!Messages) /\ Turned(context') /\ Carries(context', order)
    <3>1. context \in Seq(Notes!Messages) /\ order \in BOOLEAN /\ Carries(context, order) /\ Turned(context)
      BY DEF Notes!TypeOK, OrderIsLive
    <3>. QED BY <2>1, <2>2, <3>1, AppendCarries
  <2>4. /\ turns_notes' = turns_notes + 1 /\ turns_notes' \in 0..MaxNoteTurns /\ turn_notes' = "open" /\ react' = FALSE
        /\ UNCHANGED <<posted, order, orderOld, pending, held_for, drainer, recent, sent>>
    BY <1>6 DEF Notes!TurnOpens, Notes!TypeOK, NoteBounds
  <2>. QED BY <2>3, <2>4 DEF Notes!TypeOK, OrderIsLive, WordsWait, NoNoteNow
<1>7. CASE Notes!TurnEnds
  <2>1. UNCHANGED <<posted, order, orderOld, pending, held_for, drainer, recent, react, sent, turns_notes>>
        /\ turn_notes = "open"
    BY <1>7 DEF Notes!TurnEnds
  <2>2. CASE turn_notes' = "onway" /\ context' = Append(context, Notes!Message("words", turns_notes))
    <3>1. Notes!Message("words", turns_notes) \in Notes!Messages /\ Notes!Message("words", turns_notes).who = "words"
          /\ Notes!Message("words", turns_notes).id \in 0..MaxNoteTurns
      BY DEF Notes!Message, Notes!Messages, Notes!TypeOK, NoteBounds
    <3>2. context \in Seq(Notes!Messages) /\ order \in BOOLEAN /\ Carries(context, order) /\ Turned(context)
      BY DEF Notes!TypeOK, OrderIsLive
    <3>3. /\ context' \in Seq(Notes!Messages) /\ Turned(context') /\ Carries(context', order)
          /\ context' # <<>> /\ Notes!Last(context').who = "words"
      BY <2>2, <3>1, <3>2, AppendCarries
    <3>. QED BY <2>1, <2>2, <3>3 DEF Notes!TypeOK, OrderIsLive, WordsWait, NoNoteNow
  <2>3. CASE turn_notes' = "none" /\ UNCHANGED context
    BY <2>1, <2>3 DEF Notes!TypeOK, OrderIsLive, WordsWait, NoNoteNow
  <2>. QED BY <1>7, <2>2, <2>3 DEF Notes!TurnEnds
<1>8. CASE Notes!RequestPasses
  <2>1. /\ context' \in Seq(Notes!Messages) /\ posted' \in Seq(Notes!Ids) /\ pending' \in Seq(Notes!Note)
        /\ {order', orderOld'} \subseteq BOOLEAN
        /\ Carries(context', order') /\ Turned(context')
        /\ turn_notes = "onway" => Notes!Last(context').who # "note"
    BY <1>8, FoldKeeps DEF Notes!RequestPasses
  <2>2. turn_notes' = "asked" /\ react' \in {react, FALSE} /\ UNCHANGED <<held_for, drainer, recent, sent, turns_notes>>
    BY <1>8 DEF Notes!RequestPasses
  <2>. QED BY <2>1, <2>2 DEF Notes!TypeOK, OrderIsLive, WordsWait, NoNoteNow
<1>9. CASE Notes!Reads
  <2>1. context \in Seq(Notes!Messages) /\ Turned(context)
    BY DEF Notes!TypeOK
  <2>2. Notes!NoOrder(context) \in Seq(Notes!Messages) /\ HasNone(Notes!NoOrder(context)) /\ Turned(Notes!NoOrder(context))
    BY <2>1, NoOrderIs
  <2>3. /\ turn_notes' = "reply" /\ context' = Notes!NoOrder(context) /\ order' = FALSE /\ orderOld' = FALSE
        /\ UNCHANGED <<posted, pending, held_for, drainer, recent, react, sent, turns_notes>>
    BY <1>9 DEF Notes!Reads
  <2>. QED BY <2>2, <2>3 DEF Notes!TypeOK, OrderIsLive, Carries, WordsWait, NoNoteNow
<1>10. CASE Notes!Fails
  BY <1>10 DEF Notes!Fails, Notes!contextVars, Notes!TypeOK, OrderIsLive, WordsWait, NoNoteNow
<1>11. CASE Notes!ReplyEnds
  <2>1. Notes!Message("reply", turns_notes) \in Notes!Messages /\ Notes!Message("reply", turns_notes).who = "reply"
    BY DEF Notes!Message, Notes!Messages, Notes!TypeOK, NoteBounds
  <2>2. /\ context' = Append(context, Notes!Message("reply", turns_notes)) /\ turn_notes' = "none"
        /\ UNCHANGED <<posted, order, orderOld, pending, held_for, drainer, recent, react, sent, turns_notes>>
    BY <1>11 DEF Notes!ReplyEnds
  <2>3. context' \in Seq(Notes!Messages) /\ Turned(context') /\ Carries(context', order)
    <3>1. context \in Seq(Notes!Messages) /\ order \in BOOLEAN /\ Carries(context, order) /\ Turned(context)
      BY DEF Notes!TypeOK, OrderIsLive
    <3>. QED BY <2>1, <2>2, <3>1, AppendCarries
  <2>. QED BY <2>2, <2>3 DEF Notes!TypeOK, OrderIsLive, WordsWait, NoNoteNow
<1>12. CASE UNCHANGED Notes!vars
  BY <1>12 DEF Notes!vars, Notes!TypeOK, OrderIsLive, WordsWait, NoNoteNow
<1>. QED BY <1>1, <1>2, <1>3, <1>4, <1>5, <1>6, <1>7, <1>8, <1>9, <1>10, <1>11, <1>12 DEF Notes!Next, Notes!Over

LEMMA NotesStart ==
  ASSUME NoteBounds, Notes!Init
  PROVE  NotesInv
<1>1. Notes!TypeOK
  <2>1. /\ context \in Seq(Notes!Messages) /\ posted \in Seq(Notes!Ids) /\ pending \in Seq(Notes!Note)
        /\ held_for \in 0..MaxNoteTurns /\ sent \in 0..MaxSent /\ turns_notes \in 0..MaxNoteTurns
    BY DEF Notes!Init, NoteBounds
  <2>2. {order, orderOld, drainer, recent, react} \subseteq BOOLEAN
    BY DEF Notes!Init
  <2>. QED BY <2>1, <2>2 DEF Notes!Init, Notes!TypeOK
<1>2. OrderIsLive /\ WordsWait /\ Turned(context)
  BY DEF Notes!Init, OrderIsLive, Carries, HasNone, Orders, WordsWait, Turned
<1>. QED BY <1>1, <1>2 DEF NotesInv

\* A set of one has one element.
LEMMA OrderCounted ==
  ASSUME NotesInv
  PROVE  Notes!OneOrder
<1>0. \A S : Notes!Cardinality(S) = Cardinality(S)
  BY DEF Notes!Cardinality, Cardinality
<1>1. {i \in DOMAIN context : context[i].who = "order"} = Orders(context)
  BY DEF Orders
<1>2. CASE order
  <2>1. PICK i : Orders(context) = {i}
    BY <1>2 DEF NotesInv, OrderIsLive, Carries, HasOne
  <2>. QED BY <1>0, <1>1, <1>2, <2>1, FS_Singleton DEF Notes!OneOrder
<1>3. CASE ~order
  BY <1>0, <1>1, <1>3, FS_EmptySet DEF Notes!OneOrder, NotesInv, OrderIsLive, Carries, HasNone
<1>. QED BY <1>2, <1>3

LEMMA NotesAlone == [Next]_vars => [Notes!Next]_Notes!vars
BY DEF Next, BookGoes, GateGoes, NotesGoes, LedgerGoes, HoldGoes, SlicesGoes, CorrectsGoes,
   bookOnly, gateOnly, ledgerOnly, holdOnly, slicesOnly, correctsOnly, vars, notesVars, Notes!vars

(* The request of a caller's turn never ends in a note, and a reaction's    *)
(* order is in the context while it is live, once: for any number of notes, *)
(* turns and notes kept.                                                    *)
THEOREM NotesAreNotAnswered ==
  ASSUME NoteBounds
  PROVE  Spec => NoNoteIsAnswered
<1>1. Init => NotesInv
  BY NotesStart DEF Init
<1>2. NotesInv /\ [Next]_vars => NotesInv'
  BY NotesKeep, NotesAlone
<1>3. NotesInv /\ [Next]_vars => [NoNoteNow]_Notes!vars
  BY NotesKeep, NotesAlone
<1>4. NotesInv => Notes!OneOrder
  BY OrderCounted
<1>. QED BY <1>1, <1>2, <1>3, <1>4, PTL DEF Spec, NoNoteIsAnswered, Notes!NoNoteIsAnswered, NoNoteNow

-----------------------------------------------------------------------------
(* The hold, by what is proved of it alone (ReplyHoldProofs).               *)
HoldAlone == INSTANCE ReplyHoldProofs
  WITH cuts <- cuts_hold, asked <- asked_hold, replies <- replies_hold,
       out <- out_hold, played <- played_hold, settled <- settled_hold

LEMMA HoldGoesAlone == Spec => HoldAlone!Spec
<1>1. Init => HoldAlone!Init
  BY DEF Init, Hold!Init, HoldAlone!Init, Hold!Replies, HoldAlone!Replies
<1>2. [Next]_vars => [Hold!Next]_Hold!vars
  BY SMTT(60) DEF Next, BookGoes, GateGoes, NotesGoes, LedgerGoes, HoldGoes, SlicesGoes,
     CorrectsGoes, bookOnly, gateOnly, notesOnly, ledgerOnly, slicesOnly,
     correctsOnly, vars, holdVars, Hold!vars, Hold!callerVars, Hold!turnVars,
     Hold!ctxVars, Hold!llmVars, Hold!gateVars, Hold!outVars
<1>3. [Hold!Next]_Hold!vars => [HoldAlone!Next]_HoldAlone!vars
  BY DEF Hold!Next, HoldAlone!Next, Hold!Asks, HoldAlone!Asks, Hold!AsksAgain,
     HoldAlone!AsksAgain, Hold!AsksOnResult, HoldAlone!AsksOnResult,
     Hold!AsksOnTurn, HoldAlone!AsksOnTurn, Hold!At, HoldAlone!At,
     Hold!Cancelled, HoldAlone!Cancelled, Hold!CapReached,
     HoldAlone!CapReached, Hold!Closes, HoldAlone!Closes, Hold!Commits,
     HoldAlone!Commits, Hold!Continues, HoldAlone!Continues, Hold!Cut,
     HoldAlone!Cut, Hold!CutAtGate, HoldAlone!CutAtGate, Hold!CutAtLlm,
     HoldAlone!CutAtLlm, Hold!CutAtOut, HoldAlone!CutAtOut, Hold!Cuts,
     HoldAlone!Cuts, Hold!DropsFrame, HoldAlone!DropsFrame, Hold!EndHolds,
     HoldAlone!EndHolds, Hold!Ends, HoldAlone!Ends, Hold!Folded,
     HoldAlone!Folded, Hold!Folds, HoldAlone!Folds, Hold!Frame,
     HoldAlone!Frame, Hold!Hears, HoldAlone!Hears, Hold!HeldPastADrop,
     HoldAlone!HeldPastADrop, Hold!InCtx, HoldAlone!InCtx, Hold!Kept,
     HoldAlone!Kept, Hold!Landed, HoldAlone!Landed, Hold!Marked,
     HoldAlone!Marked, Hold!AtPlaces, HoldAlone!AtPlaces, Hold!Only, HoldAlone!Only, Hold!Onset, HoldAlone!Onset,
     Hold!OutGoesOn, HoldAlone!OutGoesOn, Hold!Over, HoldAlone!Over,
     Hold!Passes, HoldAlone!Passes, Hold!Place, HoldAlone!Place, Hold!Places,
     HoldAlone!Places, Hold!Proceeds, HoldAlone!Proceeds, Hold!Pushes,
     HoldAlone!Pushes, Hold!Rare, HoldAlone!Rare, Hold!Reconciles,
     HoldAlone!Reconciles, Hold!Released, HoldAlone!Released, Hold!Replies,
     HoldAlone!Replies, Hold!Said, HoldAlone!Said, Hold!Sounds,
     HoldAlone!Sounds, Hold!Stops, HoldAlone!Stops, Hold!ToolEnds,
     HoldAlone!ToolEnds, Hold!User, HoldAlone!User, Hold!VadStarts,
     HoldAlone!VadStarts, Hold!WaitRunsOut, HoldAlone!WaitRunsOut, Hold!Words,
     HoldAlone!Words, Hold!WordsCome, HoldAlone!WordsCome, Hold!Writes,
     HoldAlone!Writes, Hold!callerVars, HoldAlone!callerVars, Hold!ctxVars,
     HoldAlone!ctxVars, Hold!gateVars, HoldAlone!gateVars, Hold!llmVars,
     HoldAlone!llmVars, Hold!outVars, HoldAlone!outVars, Hold!turnVars,
     HoldAlone!turnVars, Hold!vars, HoldAlone!vars, Hold!Range,
     HoldAlone!Range, Hold!Cardinality, HoldAlone!Cardinality
<1>. QED BY <1>1, <1>2, <1>3, PTL DEF Spec, HoldAlone!Spec

(* A tool call in the context has its result on the way, or is running, and *)
(* the session's End goes through the gate at once.                         *)
THEOREM CallsAreAnswered ==
  ASSUME MaxSaid \in Nat, MaxRare \in Nat
  PROVE  Spec => []NothingHangs
<1>1. HoldAlone!Spec => [](HoldAlone!NoOrphanCall /\ HoldAlone!EndIsNotHeld)
  BY HoldAlone!NothingIsHung
<1>2. HoldAlone!NoOrphanCall /\ HoldAlone!EndIsNotHeld => NothingHangs
  BY DEF NothingHangs, Hold!NoOrphanCall, HoldAlone!NoOrphanCall,
     Hold!EndIsNotHeld, HoldAlone!EndIsNotHeld, Hold!Range, HoldAlone!Range
<1>. QED BY <1>1, <1>2, HoldGoesAlone, PTL

(* The reply the caller's words cut is in the context before them, a reply  *)
(* that starts to play answers all that was said, and a turn is folded into *)
(* the one before only when nothing of that one's reply played: while no    *)
(* wait of the fence ran out, whatever the order of words, cuts, frames and *)
(* commits.                                                                 *)
THEOREM RepliesFit ==
  ASSUME MaxSaid \in Nat, MaxRare \in Nat
  PROVE  Spec => RepliesFitTurns
<1>1. HoldAlone!Spec => HoldAlone!CutBeforeTurn /\ HoldAlone!NoStaleReply /\ HoldAlone!NoFalseMerge
  BY HoldAlone!RepliesFollow
<1>2. HoldAlone!CutBeforeTurn /\ HoldAlone!NoStaleReply /\ HoldAlone!NoFalseMerge => RepliesFitTurns
  BY PTL DEF RepliesFitTurns, Hold!CutBeforeTurn, HoldAlone!CutBeforeTurn,
     Hold!NoStaleReply, HoldAlone!NoStaleReply, Hold!NoFalseMerge,
     HoldAlone!NoFalseMerge, Hold!CutAtOut, HoldAlone!CutAtOut, Hold!At,
     HoldAlone!At, Hold!Said, HoldAlone!Said, Hold!User, HoldAlone!User,
     Hold!Kept, HoldAlone!Kept, Hold!Sounds, HoldAlone!Sounds, Hold!AtPlaces, HoldAlone!AtPlaces, Hold!Only,
     HoldAlone!Only, Hold!Places, HoldAlone!Places, Hold!Place,
     HoldAlone!Place, Hold!Range, HoldAlone!Range, Hold!Cardinality,
     HoldAlone!Cardinality, Hold!Reconciles, HoldAlone!Reconciles, Hold!Folds,
     HoldAlone!Folds, Hold!Folded, HoldAlone!Folded, Hold!Cancelled,
     HoldAlone!Cancelled, Hold!vars, HoldAlone!vars, Hold!callerVars,
     HoldAlone!callerVars, Hold!turnVars, HoldAlone!turnVars, Hold!ctxVars,
     HoldAlone!ctxVars, Hold!llmVars, HoldAlone!llmVars, Hold!gateVars,
     HoldAlone!gateVars, Hold!outVars, HoldAlone!outVars
<1>. QED BY <1>1, <1>2, HoldGoesAlone

-----------------------------------------------------------------------------
(* The finals, by what is proved of the aggregator and the corrector alone. *)

CorrectsAlone == INSTANCE TurnTextProofs
  WITH context <- context_corrects, lastUser <- lastUser_corrects,
       MaxTurns <- MaxFinals, Asked <- AskedAs, Final <- FinallyAs

LEMMA CorrectsGoesAlone == Spec => CorrectsAlone!Spec
<1>1. Init => CorrectsAlone!Init
  BY DEF Init, Corrects!Init, CorrectsAlone!Init, Corrects!Turns, CorrectsAlone!Turns
<1>2. [Next]_vars => [Corrects!Next]_Corrects!vars
  BY DEF Next, BookGoes, GateGoes, NotesGoes, LedgerGoes, HoldGoes, SlicesGoes,
     CorrectsGoes, bookOnly, gateOnly, notesOnly, ledgerOnly, holdOnly, slicesOnly,
     vars, correctsVars, Corrects!vars
<1>3. [Corrects!Next]_Corrects!vars => [CorrectsAlone!Next]_CorrectsAlone!vars
  <2>1. /\ Corrects!Turns = CorrectsAlone!Turns
        /\ Corrects!vars = CorrectsAlone!vars /\ Corrects!vars' = CorrectsAlone!vars'
    BY DEF Corrects!Turns, CorrectsAlone!Turns, Corrects!vars, CorrectsAlone!vars
  <2>2. Corrects!Provisional => CorrectsAlone!Provisional
    BY DEF Corrects!Provisional, CorrectsAlone!Provisional, Corrects!Pushes,
       CorrectsAlone!Pushes
  <2>3. Corrects!Taken => CorrectsAlone!Taken
    BY DEF Corrects!Taken, CorrectsAlone!Taken, Corrects!Pushes, CorrectsAlone!Pushes,
       Corrects!Range, CorrectsAlone!Range
  <2>4. Corrects!Commits => CorrectsAlone!Commits
    BY SMTT(60) DEF Corrects!Commits, CorrectsAlone!Commits, Corrects!Reads, CorrectsAlone!Reads,
       Corrects!Range, CorrectsAlone!Range
  <2>5. Corrects!MessageAdded => CorrectsAlone!MessageAdded
    BY DEF Corrects!MessageAdded, CorrectsAlone!MessageAdded, Corrects!Named,
       CorrectsAlone!Named, Corrects!Reads, CorrectsAlone!Reads, Corrects!Range,
       CorrectsAlone!Range, Corrects!Max, CorrectsAlone!Max
  <2>6. Corrects!Reconciles => CorrectsAlone!Reconciles
    BY DEF Corrects!Reconciles, CorrectsAlone!Reconciles, Corrects!Folds,
       CorrectsAlone!Folds
  <2>7. Corrects!TailWords => CorrectsAlone!TailWords
    BY DEF Corrects!TailWords, CorrectsAlone!TailWords
  <2>8. Corrects!AsksAhead => CorrectsAlone!AsksAhead
    BY DEF Corrects!AsksAhead, CorrectsAlone!AsksAhead, Corrects!Texts,
       CorrectsAlone!Texts, Corrects!Reads, CorrectsAlone!Reads
  <2>9. Corrects!Rest => CorrectsAlone!Rest
    BY SMTT(60) DEF Corrects!Rest, CorrectsAlone!Rest, Corrects!Turns, CorrectsAlone!Turns,
       Corrects!vars, CorrectsAlone!vars
  <2>10. ASSUME NEW t PROVE Corrects!Amends(t) => CorrectsAlone!Amends(t)
    BY ZenonT(60) DEF Corrects!Amends, CorrectsAlone!Amends, Corrects!LastWhole,
       CorrectsAlone!LastWhole, Corrects!Whole, CorrectsAlone!Whole, Corrects!Rewritten,
       CorrectsAlone!Rewritten, Corrects!Max, CorrectsAlone!Max
  <2>11. ASSUME NEW t PROVE Corrects!Corrects(t) => CorrectsAlone!Corrects(t)
    BY ZenonT(60) DEF Corrects!Looks, CorrectsAlone!Looks, Corrects!OnRecord, CorrectsAlone!OnRecord,
       Corrects!Since, CorrectsAlone!Since, Corrects!Unseen, CorrectsAlone!Unseen,
       Corrects!Where, CorrectsAlone!Where, Corrects!Corrects, CorrectsAlone!Corrects, Corrects!LastWhole,
       CorrectsAlone!LastWhole, Corrects!Whole, CorrectsAlone!Whole, Corrects!Rewritten,
       CorrectsAlone!Rewritten, Corrects!Max, CorrectsAlone!Max, Corrects!AmendAhead,
       CorrectsAlone!AmendAhead, Corrects!Reads, CorrectsAlone!Reads
  <2>12. ASSUME NEW t PROVE Corrects!Finals(t) => CorrectsAlone!Finals(t)
    BY <2>10, <2>11 DEF Corrects!Finals, CorrectsAlone!Finals
  <2>. QED
    BY <2>1, <2>2, <2>3, <2>4, <2>5, <2>6, <2>7, <2>8, <2>9, <2>12
    DEF Corrects!Next, CorrectsAlone!Next
<1>. QED BY <1>1, <1>2, <1>3, PTL DEF Spec, CorrectsAlone!Spec

(* A final finds the words it corrects unless they were taken on the way or *)
(* are not to be found, rewrites no message an earlier turn was answered    *)
(* from, and leaves a reply asked ahead one that fits: for any number of    *)
(* turns, whatever they say, and however far behind the events are.         *)
THEOREM FinalsFit ==
  ASSUME MaxFinals \in Nat, MaxBehind \in Nat, MaxTails \in Nat,
         DOMAIN AskedAs = 1..MaxFinals, DOMAIN FinallyAs = 1..MaxFinals,
         \A t \in 1..MaxFinals : AskedAs[t] # None
  PROVE  Spec => FinalsFitTurns
<1>1. CorrectsAlone!Bounds
  BY DEF CorrectsAlone!Bounds, CorrectsAlone!Turns
<1>2. CorrectsAlone!Spec => /\ CorrectsAlone!AnsweredStands
                           /\ CorrectsAlone!FinalIsPlaced
                           /\ CorrectsAlone!AheadStillFits
  BY <1>1, CorrectsAlone!FinalsLeaveAnswers, CorrectsAlone!FinalsFindTheirWords,
     CorrectsAlone!FinalsKeepTheReplyAhead
<1>3. CorrectsAlone!AnsweredStands /\ CorrectsAlone!FinalIsPlaced /\ CorrectsAlone!AheadStillFits
      => FinalsFitTurns
  BY PTL DEF FinalsFitTurns, Corrects!AnsweredStands, CorrectsAlone!AnsweredStands,
     Corrects!FinalIsPlaced, CorrectsAlone!FinalIsPlaced, Corrects!AheadStillFits,
     CorrectsAlone!AheadStillFits, Corrects!Of, CorrectsAlone!Of, Corrects!Holds,
     CorrectsAlone!Holds, Corrects!HadBy, CorrectsAlone!HadBy, Corrects!Turns,
     CorrectsAlone!Turns, Corrects!Texts, CorrectsAlone!Texts, Corrects!Reads,
     CorrectsAlone!Reads, Corrects!vars, CorrectsAlone!vars, Corrects!Range,
     CorrectsAlone!Range, Corrects!Front, CorrectsAlone!Front
<1>. QED BY <1>2, <1>3, CorrectsGoesAlone

=============================================================================
