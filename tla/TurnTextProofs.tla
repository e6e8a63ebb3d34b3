--------------------------- MODULE TurnTextProofs ---------------------------
(***************************************************************************)
(* A turn's final, whatever the turns were asked on and whatever their     *)
(* finals say, for any number of turns and of commits behind: it finds the *)
(* words it corrects, rewrites no message that was answered before them,   *)
(* and no reply asked ahead misses over it.                                *)
(*                                                                         *)
(* Inv is inductive: Ordered that a message is on record once; Counted     *)
(* that what is not is as many as the events to come; Newest that where a  *)
(* message on record is gone, the newest is later or had it folded in;     *)
(* Worded that a turn's words read as it was asked on until its final, or  *)
(* that of one alike, is in; Owned where a turn's words are, by the        *)
(* record; Kept that they are somewhere.                                   *)
(***************************************************************************)
EXTENDS TurnText, QueuesProofs, WellFoundedInduction

Bounds ==
  /\ MaxTurns \in Nat /\ MaxBehind \in Nat /\ MaxTails \in Nat
  /\ DOMAIN Asked = Turns /\ DOMAIN Final = Turns /\ \A t \in Turns : Asked[t] # None

Due(t) == fate[t] = "due" /\ Asked[t] # Final[t]
Alike(t) == \E u \in 1..(t - 1) : HadBy(u, t)
Unsettled == {t \in Turns : Due(t) /\ ~Alike(t)}
Left == {i \in DOMAIN context : context[i].id \notin Range(recorded)}
Gone(n) == Where(recorded[n]) = {}
Says(words, t) == \E k \in DOMAIN words : words[k].of = t

Ordered ==
  /\ \A i, j \in DOMAIN context : i < j => context[i].id < context[j].id
  /\ \A n, m \in DOMAIN recorded : recorded[n] = recorded[m] => n = m
Counted == IsFiniteSet(Left) /\ Cardinality(Left) = Len(events)
Newest ==
  \A n \in DOMAIN recorded : Gone(n) =>
    /\ context # <<>>
    /\ \/ context[Len(context)].folded \/ Len(context) \in Left
       \/ \E k \in DOMAIN recorded : k > n /\ recorded[k] = context[Len(context)].id
AsAsked(words, last, open) ==
  \A k \in DOMAIN words : words[k].of # 0 =>
    words[k].of <= last /\ (words[k].of \in open => words[k].reads = Asked[words[k].of])
Worded ==
  /\ AsAsked(parts, pushed, Unsettled) /\ \A k \in DOMAIN parts : parts[k].of # 0
  /\ \A i \in DOMAIN context : AsAsked(context[i].words, pushed, Unsettled)
Owned ==
  \A i \in DOMAIN context :
    /\ \A t \in context[i].own :
         t <= pushed /\ \A n \in DOMAIN recorded : recorded[n] = context[i].id => n > since[t]
    /\ \A t \in Turns : Says(context[i].words, t) =>
         t \in context[i].own \/ \E n \in DOMAIN recorded : n > since[t] /\ Gone(n)
Started ==
  /\ \A t \in Turns : since[t] <= Len(recorded) /\ (t > pushed => fate[t] = "due")
  /\ frames > 0 => context # <<>>
Kept ==
  \A t \in 1..pushed : t \in Unsettled =>
    t \in taken \/ Says(parts, t) \/ \E i \in DOMAIN context : Says(context[i].words, t)

Inv == TypeOK /\ Ordered /\ Counted /\ Newest /\ Worded /\ Owned /\ Started /\ Kept

-----------------------------------------------------------------------------
(* The first and the last of some numbers.                                   *)
LEMMA Least == ASSUME NEW T, T \subseteq Nat, T # {} PROVE \E x \in T : \A y \in T : x <= y
<1>1. PICK x \in T : \A y \in T : <<y, x>> \notin OpToRel(<, Nat)
  BY NatLessThanWellFounded, WFMin, Zenon
<1>2. \A y \in T : ~(y < x)
  BY <1>1, Zenon DEF OpToRel
<1>. QED BY <1>2

LEMMA Greatest ==
  ASSUME NEW n \in Nat, NEW T, T \subseteq 1..n, T # {}
  PROVE  Max(T) \in T /\ \A y \in T : Max(T) >= y
<1>. DEFINE U == {n - x : x \in T}
<1>1. U \subseteq Nat /\ U # {}
  <2>1. \A x \in T : n - x \in Nat
    OBVIOUS
  <2>2. \A x \in T : n - x \in U
    OBVIOUS
  <2>. QED BY <2>1, <2>2
<1>2. PICK u \in U : \A y \in U : u <= y
  BY <1>1, Least
<1>3. PICK x \in T : u = n - x
  OBVIOUS
<1>4. \A y \in T : x >= y
  <2>. TAKE y \in T
  <2>1. n - y \in U
    OBVIOUS
  <2>2. n - x <= n - y /\ x \in Nat /\ y \in Nat
    BY <1>2, <1>3, <2>1
  <2>. QED BY <2>2
<1>. HIDE DEF U
<1>5. \E z \in T : \A y \in T : z >= y
  BY <1>4
<1>. QED BY <1>5 DEF Max

-----------------------------------------------------------------------------
(* Words.                                                                    *)

LEMMA WholeIs ==
  ASSUME NEW words \in Seq(Word), NEW t \in Turns
  PROVE  /\ LastWhole(words, t) # 0 =>
              LastWhole(words, t) \in DOMAIN words /\ words[LastWhole(words, t)].reads = Asked[t]
         /\ \A k \in DOMAIN words : words[k].reads = Asked[t] => LastWhole(words, t) # 0
<1>1. Whole(words, t) \subseteq 1..Len(words) /\ Len(words) \in Nat /\ DOMAIN words = 1..Len(words)
  BY DEF Whole
<1>2. Whole(words, t) # {} => Max(Whole(words, t)) \in Whole(words, t)
  BY <1>1, Greatest
<1>3. Whole(words, t) # {} => Max(Whole(words, t)) # 0
  BY <1>1, <1>2
<1>. QED BY <1>1, <1>2, <1>3 DEF LastWhole, Whole

LEMMA SaidIs ==
  ASSUME Bounds
  PROVE  None \in Said /\ \A t \in Turns : Asked[t] \in Said /\ Final[t] \in Said
BY DEF Said, Range, Bounds

\* A word rewritten, or taken out where its final has none: the others stay.
LEMMA RewrittenIs ==
  ASSUME Bounds, NEW words \in Seq(Word), NEW k \in DOMAIN words, NEW t \in Turns
  PROVE  /\ Rewritten(words, k, t) \in Seq(Word)
         /\ \A j \in DOMAIN Rewritten(words, k, t) :
              \/ \E l \in DOMAIN words : Rewritten(words, k, t)[j] = words[l]
              \/ Rewritten(words, k, t)[j] = [words[k] EXCEPT !.reads = Final[t]]
         /\ \A l \in DOMAIN words \ {k} : Says(Rewritten(words, k, t), words[l].of)
<1>. DEFINE new == [words[k] EXCEPT !.reads = Final[t]]
            mid == IF Final[t] = None THEN <<>> ELSE <<new>>
            a == SubSeq(words, 1, k - 1)
            b == SubSeq(words, k + 1, Len(words))
            am == a \o mid
            r == am \o b
            n == Len(mid)
<1>1. k \in 1..Len(words) /\ Len(words) \in Nat /\ \A l \in 1..Len(words) : words[l] \in Word
  OBVIOUS
<1>2. new \in Word
  <2>1. words[k] \in Word /\ Final[t] \in Said
    BY <1>1, SaidIs
  <2>. QED BY <2>1 DEF Word
<1>. HIDE DEF new
<1>3. mid \in Seq(Word) /\ n \in Nat /\ n = Len(mid) /\ \A j \in 1..n : mid[j] = new
  BY <1>2
<1>4. a \in Seq(Word) /\ Len(a) = k - 1 /\ \A j \in 1..(k - 1) : a[j] = words[j]
  BY <1>1
<1>5. b \in Seq(Word) /\ Len(b) = Len(words) - k /\ \A j \in 1..(Len(words) - k) : b[j] = words[k + j]
  BY <1>1
<1>6. Rewritten(words, k, t) = r
  BY DEF Rewritten, new
<1>. HIDE DEF a, b, mid, n
<1>7. /\ am \in Seq(Word) /\ Len(am) = k - 1 + n
      /\ \A j \in 1..(k - 1) : am[j] = words[j]
      /\ \A j \in 1..n : am[k - 1 + j] = new
  <2>1. am \in Seq(Word) /\ Len(am) = Len(a) + Len(mid)
    BY <1>3, <1>4
  <2>2. \A j \in DOMAIN a : am[j] = a[j]
    BY <1>3, <1>4
  <2>3. \A j \in DOMAIN mid : am[Len(a) + j] = mid[j]
    BY <1>3, <1>4
  <2>4. DOMAIN a = 1..(k - 1) /\ DOMAIN mid = 1..n
    BY <1>3, <1>4
  <2>. QED BY <1>3, <1>4, <2>1, <2>2, <2>3, <2>4
<1>. HIDE DEF am
<1>8. /\ r \in Seq(Word) /\ Len(r) = k - 1 + n + (Len(words) - k)
      /\ \A j \in 1..(k - 1 + n) : r[j] = am[j]
      /\ \A j \in 1..(Len(words) - k) : r[k - 1 + n + j] = words[k + j]
  <2>0. am \in Seq(Word) /\ b \in Seq(Word)
    BY <1>5, <1>7
  <2>1. r \in Seq(Word) /\ Len(r) = Len(am) + Len(b)
    BY <2>0
  <2>2. \A j \in DOMAIN am : r[j] = am[j]
    BY <1>5, <1>7
  <2>3. \A j \in DOMAIN b : r[Len(am) + j] = b[j]
    BY <1>5, <1>7
  <2>4. DOMAIN am = 1..(k - 1 + n) /\ DOMAIN b = 1..(Len(words) - k)
    BY <1>5, <1>7
  <2>. QED BY <1>5, <1>7, <2>1, <2>2, <2>3, <2>4
<1>. HIDE DEF r
<1>i. k \in Int /\ n \in Int /\ n >= 0 /\ Len(words) \in Int /\ 1 <= k /\ k <= Len(words)
      /\ DOMAIN words = 1..Len(words) /\ DOMAIN r = 1..(k - 1 + n + (Len(words) - k))
  BY <1>1, <1>3, <1>8
<1>9. \A j \in DOMAIN r : (\E l \in DOMAIN words : r[j] = words[l]) \/ r[j] = new
  <2>. SUFFICES ASSUME NEW j \in DOMAIN r PROVE (\E l \in DOMAIN words : r[j] = words[l]) \/ r[j] = new
    OBVIOUS
  <2>0. j \in 1..(k - 1 + n + (Len(words) - k))
    BY <1>8
  <2>1. CASE j <= k - 1
    <3>1. j \in 1..(k - 1) /\ j \in 1..(k - 1 + n) /\ j \in DOMAIN words
      BY <1>i, <2>0, <2>1
    <3>. QED BY <3>1, <1>7, <1>8
  <2>2. CASE j > k - 1 /\ j <= k - 1 + n
    <3>1. j - (k - 1) \in 1..n /\ j \in 1..(k - 1 + n) /\ k - 1 + (j - (k - 1)) = j
      BY <1>i, <2>0, <2>2
    <3>. QED BY <3>1, <1>7, <1>8
  <2>3. CASE j > k - 1 + n
    <3>. DEFINE q == j - (k - 1 + n)
    <3>1. q \in 1..(Len(words) - k) /\ k - 1 + n + q = j /\ k + q \in DOMAIN words
      BY <1>i, <2>0, <2>3
    <3>. HIDE DEF q
    <3>. QED BY <3>1, <1>8
  <2>. QED BY <2>0, <2>1, <2>2, <2>3, <1>1, <1>3
<1>10. \A l \in DOMAIN words \ {k} : Says(r, words[l].of)
  <2>. SUFFICES ASSUME NEW l \in DOMAIN words \ {k} PROVE \E j \in DOMAIN r : r[j] = words[l]
    BY DEF Says
  <2>1. CASE l < k
    <3>1. l \in 1..(k - 1) /\ l \in 1..(k - 1 + n) /\ l \in DOMAIN r
      BY <1>i, <2>1
    <3>. QED BY <3>1, <1>7, <1>8
  <2>2. CASE l > k
    <3>1. l - k \in 1..(Len(words) - k) /\ k - 1 + n + (l - k) \in DOMAIN r /\ k + (l - k) = l
      BY <1>i, <2>2
    <3>. QED BY <3>1, <1>8
  <2>. QED BY <2>1, <2>2, <1>1
<1>. QED BY <1>6, <1>8, <1>9, <1>10 DEF new

-----------------------------------------------------------------------------
(* The steps.                                                                *)

LEMMA WordIs ==
  ASSUME NEW w \in Word
  PROVE  w.of \in {0} \cup Turns /\ w.reads \in Said
BY DEF Word

\* A turn goes downstream: its words, or what took them.
LEMMA PushKeeps ==
  ASSUME Bounds, Inv, Provisional \/ Taken
  PROVE  Inv'
<1>. USE DEF Inv
<1>1. /\ pushed' = pushed + 1 /\ pushed' \in Turns /\ pushed' \in 1..MaxTurns /\ pushed \in Nat
      /\ since' = [since EXCEPT ![pushed + 1] = Len(recorded)]
      /\ UNCHANGED <<context, events, frames, lastUser, recorded, fate, ahead, made, tails>>
  BY DEF Provisional, Taken, Pushes, TypeOK, Turns, Bounds
<1>u. Unsettled' = Unsettled
  BY <1>1 DEF Unsettled, Due, Alike, HadBy
<1>2. /\ Len(recorded) \in Nat /\ since' \in [Turns -> Nat]
      /\ since'[pushed + 1] = Len(recorded)
      /\ \A t \in Turns : t # pushed + 1 => since'[t] = since[t]
  <2>1. since \in [Turns -> Nat] /\ Len(recorded) \in Nat
    BY DEF TypeOK
  <2>. QED BY <1>1, <2>1
<1>. DEFINE w == [of |-> pushed + 1, reads |-> Asked[pushed + 1]]
<1>3. w \in Word /\ w.of = pushed + 1 /\ w.reads = Asked[pushed + 1]
  BY <1>1, SaidIs DEF Word
<1>. HIDE DEF w
<1>4. /\ parts \in Seq(Word) /\ DOMAIN parts = 1..Len(parts) /\ Len(parts) \in Nat
      /\ \A k \in DOMAIN parts : parts[k] \in Word
  BY DEF TypeOK
<1>5. ASSUME Provisional
      PROVE  parts' = Append(parts, w) /\ taken' = taken
  BY <1>1, <1>5 DEF Provisional, w
<1>6. ASSUME Taken
      PROVE  /\ parts' = parts \/ (parts' = <<>> /\ \A k \in DOMAIN parts : parts[k].of \in taken')
             /\ taken \subseteq taken' /\ pushed + 1 \in taken' /\ taken' \subseteq Turns
  <2>1. parts' \in {parts, <<>>}
        /\ taken' = taken \cup {pushed'} \cup (IF parts' = parts THEN {} ELSE {v.of : v \in Range(parts)})
    BY <1>6 DEF Taken
  <2>2. \A v \in Range(parts) : v.of \in Turns
    <3>1. \A k \in DOMAIN parts : parts[k].of # 0 /\ parts[k].of \in {0} \cup Turns
      BY <1>4, WordIs DEF Worded
    <3>. QED BY <3>1 DEF Range
  <2>3. \A k \in DOMAIN parts : parts[k].of \in {v.of : v \in Range(parts)}
    BY DEF Range
  <2>4. taken \subseteq Turns
    BY DEF TypeOK
  <2>. QED BY <1>1, <2>1, <2>2, <2>3, <2>4
<1>7. /\ TypeOK' /\ AsAsked(parts', pushed', Unsettled') /\ \A k \in DOMAIN parts' : parts'[k].of # 0
      /\ \A t \in 1..pushed : Says(parts, t) => Says(parts', t) \/ t \in taken'
      /\ Says(parts', pushed + 1) \/ pushed + 1 \in taken'
      /\ taken \subseteq taken'
  <2>7. CASE Provisional
    <3>1. /\ parts' \in Seq(Word) /\ DOMAIN parts' = DOMAIN parts \cup {Len(parts) + 1}
          /\ parts'[Len(parts) + 1] = w /\ \A k \in DOMAIN parts : parts'[k] = parts[k]
      BY <1>3, <1>4, <1>5, <2>7, AppendIs
    <3>2. \A t \in 1..pushed' : t = pushed + 1 \/ t \in 1..pushed
      BY <1>1
    <3>3. TypeOK'
      <4>0. taken \subseteq Turns
        BY DEF TypeOK
      <4>1. taken' \subseteq Turns
        BY <1>5, <2>7, <4>0, Zenon
      <4>2. pushed' \in 0..MaxTurns
        BY <1>1 DEF Bounds
      <4>. QED BY <1>1, <1>2, <3>1, <4>1, <4>2 DEF TypeOK
    <3>4. AsAsked(parts', pushed', Unsettled') /\ \A k \in DOMAIN parts' : parts'[k].of # 0
      <4>. SUFFICES ASSUME NEW k \in DOMAIN parts'
           PROVE  /\ parts'[k].of # 0 /\ parts'[k].of <= pushed'
                  /\ parts'[k].of \in Unsettled' => parts'[k].reads = Asked[parts'[k].of]
        BY DEF AsAsked
      <4>1. CASE k = Len(parts) + 1
        BY <1>1, <1>3, <3>1, <4>1
      <4>2. CASE k \in DOMAIN parts
        <5>1. parts'[k] = parts[k] /\ parts[k].of # 0 /\ parts[k].of \in {0} \cup Turns
          BY <1>4, <3>1, <4>2, WordIs DEF Worded
        <5>2. parts[k].of <= pushed /\ (parts[k].of \in Unsettled => parts[k].reads = Asked[parts[k].of])
          BY <4>2, <5>1 DEF Worded, AsAsked
        <5>3. parts[k].of <= pushed'
          BY <1>1, <5>1, <5>2 DEF Turns
        <5>. QED BY <1>u, <5>1, <5>2, <5>3
      <4>. QED BY <3>1, <4>1, <4>2
    <3>5. \A t \in 1..pushed : Says(parts, t) => Says(parts', t)
      BY <3>1 DEF Says
    <3>6. Says(parts', pushed + 1)
      BY <1>3, <3>1 DEF Says
    <3>. QED BY <1>5, <2>7, <3>1, <3>3, <3>4, <3>5, <3>6
  <2>8. CASE Taken
    <3>1. parts' \in Seq(Word) /\ taken' \subseteq Turns
      <4>1. <<>> \in Seq(Word)
        OBVIOUS
      <4>. QED BY <1>4, <1>6, <2>8, <4>1, Zenon
    <3>2. TypeOK'
      <4>1. pushed' \in 0..MaxTurns
        BY <1>1 DEF Bounds
      <4>. QED BY <1>1, <1>2, <3>1, <4>1 DEF TypeOK
    <3>3. AsAsked(parts', pushed', Unsettled') /\ \A k \in DOMAIN parts' : parts'[k].of # 0
      <4>1. CASE parts' = <<>>
        BY <4>1 DEF AsAsked
      <4>2. CASE parts' = parts
        <5>1. \A k \in DOMAIN parts : parts[k].of # 0 /\ parts[k].of \in {0} \cup Turns
          BY <1>4, WordIs DEF Worded
        <5>2. AsAsked(parts, pushed, Unsettled)
          BY DEF Worded
        <5>. QED BY <1>1, <1>u, <4>2, <5>1, <5>2 DEF AsAsked, Turns
      <4>. QED BY <1>6, <2>8, <4>1, <4>2
    <3>4. \A t \in 1..pushed : Says(parts, t) => Says(parts', t) \/ t \in taken'
      BY <1>6, <2>8 DEF Says
    <3>. QED BY <1>6, <2>8, <3>2, <3>3, <3>4
  <2>. QED BY <2>7, <2>8
<1>10. \A i \in DOMAIN context : \A k \in DOMAIN context[i].words : context[i].words[k].of \in {0} \cup Turns
  <2>1. \A i \in DOMAIN context : context[i] \in Message
    BY DEF TypeOK
  <2>2. \A i \in DOMAIN context : context[i].words \in Seq(Word)
    BY <2>1 DEF Message
  <2>. QED BY <2>2, WordIs
<1>11. \A i \in DOMAIN context : AsAsked(context[i].words, pushed, Unsettled)
  BY DEF Worded
<1>12. Worded'
  <2>1. ASSUME NEW i \in DOMAIN context PROVE AsAsked(context'[i].words, pushed', Unsettled')
    BY <1>1, <1>u, <1>10, <1>11 DEF AsAsked, Turns
  <2>. QED BY <1>1, <1>7, <2>1 DEF Worded
<1>13. Ordered' /\ Counted' /\ Newest'
  BY <1>1 DEF Ordered, Counted, Newest, Left, Gone, Where
<1>14. Owned'
  <2>. SUFFICES ASSUME NEW i \in DOMAIN context
       PROVE  /\ \A t \in context[i].own :
                   t <= pushed' /\ \A n \in DOMAIN recorded : recorded[n] = context[i].id => n > since'[t]
              /\ \A t \in Turns : Says(context[i].words, t) =>
                   t \in context[i].own \/ \E n \in DOMAIN recorded : n > since'[t] /\ Gone(n)'
    BY <1>1 DEF Owned
  <2>1. \A n : Gone(n)' <=> Gone(n)
    BY <1>1 DEF Gone, Where
  <2>2. context[i].own \subseteq Turns
    <3>1. context[i] \in Message
      BY DEF TypeOK
    <3>. QED BY <3>1 DEF Message
  <2>3. \A t \in context[i].own : t <= pushed /\ t # pushed + 1 /\ t <= pushed'
    BY <1>1, <2>2 DEF Owned, Turns
  <2>4. \A t \in Turns : Says(context[i].words, t) => t # pushed + 1
    BY <1>1, <1>11 DEF Says, AsAsked, Turns
  <2>. QED BY <1>2, <2>1, <2>2, <2>3, <2>4 DEF Owned
<1>15. Started'
  BY <1>1, <1>2 DEF Started, Turns
<1>16. Kept'
  <2>. SUFFICES ASSUME NEW t \in 1..pushed', t \in Unsettled'
       PROVE  t \in taken' \/ Says(parts', t) \/ \E i \in DOMAIN context' : Says(context'[i].words, t)
    BY DEF Kept
  <2>1. t = pushed + 1 \/ t \in 1..pushed
    BY <1>1
  <2>. QED BY <1>1, <1>7, <1>u, <2>1 DEF Kept
<1>. QED BY <1>7, <1>12, <1>13, <1>14, <1>15, <1>16

\* The aggregator writes the turn.
LEMMA CommitKeeps ==
  ASSUME Bounds, Inv, Commits
  PROVE  Inv'
<1>. USE DEF Inv
<1>. DEFINE m == [id |-> made + 1, words |-> parts, own |-> {w.of : w \in Range(parts)}, folded |-> FALSE]
            n == Len(context)
<1>1. /\ parts # <<>> /\ Len(events) < MaxBehind /\ made' = made + 1
      /\ context' = Append(context, m)
      /\ events' = Append(events, Reads([words |-> parts]))
      /\ frames' = frames + 1 /\ parts' = <<>> /\ ahead' = <<>>
      /\ UNCHANGED <<pushed, lastUser, recorded, since, taken, fate, tails>>
  BY DEF Commits
<1>u. Unsettled' = Unsettled
  BY <1>1 DEF Unsettled, Due, Alike, HadBy
<1>2. /\ parts \in Seq(Word) /\ DOMAIN parts = 1..Len(parts) /\ Len(parts) \in Nat
      /\ \A k \in DOMAIN parts : parts[k] \in Word /\ parts[k].of \in Turns /\ parts[k].reads \in Said
  <2>1. \A k \in DOMAIN parts : parts[k] \in Word /\ parts[k].of # 0
    BY DEF TypeOK, Worded
  <2>. QED BY <2>1, WordIs DEF TypeOK
<1>3. m.own = {parts[k].of : k \in DOMAIN parts}
  BY DEF Range
<1>4. m \in Message /\ m.id = made + 1 /\ m.words = parts /\ ~m.folded /\ m.own \subseteq Turns
  <2>1. m.own \subseteq Turns
    BY <1>2, <1>3
  <2>. QED BY <1>2, <2>1 DEF TypeOK, Message
<1>. HIDE DEF m
<1>5. /\ context \in Seq(Message) /\ n \in Nat /\ DOMAIN context = 1..n
      /\ \A i \in DOMAIN context : context[i] \in Message /\ context[i].id \in 1..made /\ context[i].words # <<>>
      /\ made \in Nat /\ \A k \in DOMAIN recorded : recorded[k] \in 1..made
  BY DEF TypeOK, Range
<1>6. /\ context' \in Seq(Message) /\ Len(context') = n + 1 /\ DOMAIN context' = DOMAIN context \cup {n + 1}
      /\ context'[n + 1] = m /\ \A i \in DOMAIN context : context'[i] = context[i] /\ i # n + 1
  BY <1>1, <1>4, <1>5, AppendIs
<1>7. \A k \in DOMAIN recorded : Gone(k) => Gone(k)'
  BY <1>1, <1>4, <1>5, <1>6 DEF Gone, Where
<1>8. n + 1 \in Left'
  BY <1>1, <1>4, <1>5, <1>6 DEF Left, Range
<1>. HIDE DEF n
<1>9. TypeOK'
  <2>1. Reads([words |-> parts]) \in Seq(Said)
    <3>1. Reads([words |-> parts]) = [i \in DOMAIN parts |-> parts[i].reads]
      BY DEF Reads
    <3>2. Reads([words |-> parts]) \in [1..Len(parts) -> Said]
      BY <1>2, <3>1
    <3>. QED BY <1>2, <3>2
  <2>2. events' \in Seq(Seq(Said)) /\ Len(events') <= MaxBehind
    <3>1. events \in Seq(Seq(Said))
      BY DEF TypeOK
    <3>. HIDE DEF Reads
    <3>. QED BY <1>1, <2>1, <3>1 DEF Bounds
  <2>3. \A x \in Range(context') : x.id \in 1..made' /\ x.words # <<>>
    BY <1>1, <1>4, <1>5, <1>6 DEF Range
  <2>4. Range(recorded') \subseteq 1..made'
    BY <1>1, <1>5 DEF Range
  <2>5. made' \in Nat /\ frames' \in Nat /\ parts' \in Seq(Word) /\ ahead' \in Seq(Seq(Said))
    BY <1>1 DEF TypeOK
  <2>. QED BY <1>1, <1>6, <2>2, <2>3, <2>4, <2>5 DEF TypeOK
<1>10. Ordered'
  <2>1. \A i, j \in DOMAIN context' : i < j => context'[i].id < context'[j].id
    <3>. SUFFICES ASSUME NEW i \in DOMAIN context', NEW j \in DOMAIN context', i < j
         PROVE  context'[i].id < context'[j].id
      OBVIOUS
    <3>1. i \in DOMAIN context
      BY <1>5, <1>6
    <3>2. CASE j = n + 1
      BY <1>4, <1>5, <1>6, <3>1, <3>2
    <3>3. CASE j \in DOMAIN context
      BY <1>6, <3>1, <3>3 DEF Ordered
    <3>. QED BY <1>6, <3>2, <3>3
  <2>. QED BY <1>1, <2>1 DEF Ordered
<1>11. Counted'
  <2>1. Left' = Left \cup {n + 1} /\ n + 1 \notin Left
    <3>1. \A i \in DOMAIN context : i \in Left' <=> i \in Left
      BY <1>1, <1>6 DEF Left
    <3>2. Left \subseteq DOMAIN context /\ Left' \subseteq DOMAIN context'
      BY DEF Left
    <3>. QED BY <1>6, <1>8, <3>1, <3>2
  <2>2. IsFiniteSet(Left') /\ Cardinality(Left') = Cardinality(Left) + 1
    BY <2>1, FS_AddElement DEF Counted
  <2>3. Len(events') = Len(events) + 1
    BY <1>1 DEF TypeOK
  <2>. QED BY <2>2, <2>3 DEF Counted
<1>12. Newest'
  <2>1. Len(context') \in Left' /\ context' # <<>>
    BY <1>5, <1>6, <1>8
  <2>. QED BY <2>1 DEF Newest
<1>13. Worded'
  <2>1. AsAsked(parts', pushed', Unsettled')
    BY <1>1 DEF AsAsked
  <2>2. ASSUME NEW i \in DOMAIN context' PROVE AsAsked(context'[i].words, pushed', Unsettled')
    <3>1. CASE i = n + 1
      BY <1>1, <1>u, <1>4, <1>6, <3>1 DEF Worded, AsAsked
    <3>2. CASE i \in DOMAIN context
      BY <1>1, <1>u, <1>6, <3>2 DEF Worded, AsAsked
    <3>. QED BY <1>6, <3>1, <3>2
  <2>. QED BY <1>1, <2>1, <2>2 DEF Worded
<1>14. Owned'
  <2>. SUFFICES ASSUME NEW i \in DOMAIN context'
       PROVE  /\ \A t \in context'[i].own :
                   t <= pushed' /\ \A k \in DOMAIN recorded' : recorded'[k] = context'[i].id => k > since'[t]
              /\ \A t \in Turns : Says(context'[i].words, t) =>
                   t \in context'[i].own \/ \E k \in DOMAIN recorded' : k > since'[t] /\ Gone(k)'
    BY DEF Owned
  <2>1. CASE i = n + 1
    <3>1. \A t \in m.own : t <= pushed
      BY <1>2, <1>3 DEF Worded, AsAsked, Turns
    <3>2. \A k \in DOMAIN recorded : recorded[k] # m.id
      BY <1>4, <1>5
    <3>3. \A t \in Turns : Says(m.words, t) => t \in m.own
      BY <1>3, <1>4 DEF Says
    <3>. QED BY <1>1, <1>6, <2>1, <3>1, <3>2, <3>3
  <2>2. CASE i \in DOMAIN context
    BY <1>1, <1>6, <1>7, <2>2 DEF Owned
  <2>. QED BY <1>6, <2>1, <2>2
<1>15. Started'
  BY <1>1, <1>5, <1>6 DEF Started
<1>16. Kept'
  <2>. SUFFICES ASSUME NEW t \in 1..pushed, t \in Unsettled
       PROVE  t \in taken \/ Says(parts', t) \/ \E i \in DOMAIN context' : Says(context'[i].words, t)
    BY <1>1, <1>u DEF Kept
  <2>1. Says(parts, t) => n + 1 \in DOMAIN context' /\ Says(context'[n + 1].words, t)
    BY <1>4, <1>6
  <2>2. \A i \in DOMAIN context : Says(context[i].words, t) => i \in DOMAIN context' /\ Says(context'[i].words, t)
    BY <1>6
  <2>. QED BY <2>1, <2>2 DEF Kept
<1>. QED BY <1>9, <1>10, <1>11, <1>12, <1>13, <1>14, <1>15, <1>16

\* An event names a message not on record: there are as many as events.
LEMMA NamedIs ==
  ASSUME Inv, events # <<>>
  PROVE  Named(Head(events)) \in Left
<1>. DEFINE same == {i \in Left : Reads(context[i]) = Head(events)}
<1>1. Len(context) \in Nat /\ Left \subseteq 1..Len(context)
  BY DEF Inv, TypeOK, Left
<1>2. Left # {}
  BY FS_EmptySet DEF Inv, Counted, TypeOK
<1>3. Max(Left) \in Left /\ (same # {} => Max(same) \in same)
  BY <1>1, <1>2, Greatest
<1>4. Named(Head(events)) = IF same # {} THEN Max(same) ELSE IF Left # {} THEN Max(Left) ELSE 0
  BY DEF Named, Left
<1>. QED BY <1>2, <1>3, <1>4

LEMMA AddedKeeps ==
  ASSUME Bounds, Inv, MessageAdded
  PROVE  Inv'
<1>. USE DEF Inv
<1>. DEFINE i == Named(Head(events))
            n == Len(recorded) + 1
<1>1. i \in Left
  BY NamedIs DEF MessageAdded
<1>2. /\ context \in Seq(Message) /\ DOMAIN context = 1..Len(context) /\ Len(context) \in Nat
      /\ i \in DOMAIN context /\ context[i].id \in 1..made /\ context[i].id \notin Range(recorded)
      /\ made \in Nat /\ recorded \in Seq(Nat) /\ Len(recorded) \in Nat /\ DOMAIN recorded = 1..Len(recorded)
  BY <1>1 DEF Left, TypeOK, Range
<1>3. /\ events # <<>> /\ events' = Tail(events) /\ recorded' = Append(recorded, context[i].id)
      /\ UNCHANGED <<pushed, parts, context, frames, lastUser, since, taken, fate, ahead, made, tails>>
  BY <1>2 DEF MessageAdded
<1>. HIDE DEF i
<1>4. /\ recorded' \in Seq(Nat) /\ Len(recorded') = n /\ DOMAIN recorded' = DOMAIN recorded \cup {n}
      /\ recorded'[n] = context[i].id /\ \A k \in DOMAIN recorded : recorded'[k] = recorded[k] /\ k < n
  BY <1>2, <1>3
<1>. HIDE DEF n
<1>5. \A k \in DOMAIN recorded : recorded[k] # context[i].id /\ recorded[k] \in 1..made
  <2>1. \A k \in DOMAIN recorded : recorded[k] \in Range(recorded)
    BY DEF Range
  <2>. QED BY <1>2, <2>1 DEF TypeOK
<1>6. \A k \in DOMAIN recorded' : Gone(k)' <=> k \in DOMAIN recorded /\ Gone(k)
  BY <1>2, <1>3, <1>4 DEF Gone, Where
<1>7. Left' = Left \ {i}
  <2>1. \A j \in DOMAIN context : context[j].id = context[i].id => j = i
    <3>1. \A j \in DOMAIN context : context[j].id \in 1..made
      BY <1>2 DEF TypeOK, Range
    <3>2. ASSUME NEW j \in DOMAIN context, context[j].id = context[i].id, j # i
          PROVE  FALSE
      <4>1. j < i \/ i < j
        BY <1>2, <3>2
      <4>2. context[j].id \in Int /\ context[i].id \in Int
        BY <1>2, <3>1
      <4>. QED BY <1>2, <3>2, <4>1, <4>2 DEF Ordered
    <3>. QED BY <3>2
  <2>2. \A j \in DOMAIN context : j \in Left' <=> j \in Left /\ j # i
    BY <1>2, <1>3, <1>4, <2>1 DEF Left, Range
  <2>. QED BY <1>3, <2>2 DEF Left
<1>8. TypeOK'
  <2>1. Range(recorded') \subseteq 1..made
    BY <1>2, <1>4, <1>5 DEF Range
  <2>2. events' \in Seq(Seq(Said)) /\ Len(events') <= MaxBehind
    <3>1. events \in Seq(Seq(Said)) /\ Len(events) <= MaxBehind
      BY DEF TypeOK
    <3>. QED BY <1>3, <3>1 DEF Bounds
  <2>. QED BY <1>3, <1>4, <2>1, <2>2 DEF TypeOK
<1>9. Ordered'
  BY <1>3, <1>4, <1>5 DEF Ordered
<1>10. Counted'
  <2>1. IsFiniteSet(Left') /\ Cardinality(Left') = Cardinality(Left) - 1
    BY <1>1, <1>7, FS_RemoveElement DEF Counted
  <2>2. Len(events') = Len(events) - 1
    BY <1>3 DEF TypeOK
  <2>. QED BY <2>1, <2>2 DEF Counted
<1>11. Newest'
  <2>. SUFFICES ASSUME NEW k \in DOMAIN recorded', Gone(k)'
       PROVE  /\ context # <<>>
              /\ \/ context[Len(context)].folded \/ Len(context) \in Left'
                 \/ \E l \in DOMAIN recorded' : l > k /\ recorded'[l] = context[Len(context)].id
    BY <1>3 DEF Newest
  <2>1. k \in DOMAIN recorded /\ Gone(k) /\ k < n /\ n \in DOMAIN recorded'
    BY <1>4, <1>6
  <2>2. context # <<>>
    BY <2>1 DEF Newest
  <2>3. CASE context[Len(context)].folded
    BY <2>2, <2>3
  <2>4. CASE Len(context) \in Left
    BY <1>4, <1>7, <2>1, <2>2, <2>4
  <2>5. CASE \E l \in DOMAIN recorded : l > k /\ recorded[l] = context[Len(context)].id
    BY <1>4, <2>2, <2>5
  <2>. QED BY <2>1, <2>3, <2>4, <2>5 DEF Newest
<1>12. Owned'
  <2>. SUFFICES ASSUME NEW j \in DOMAIN context
       PROVE  /\ \A t \in context[j].own :
                   t <= pushed /\ \A k \in DOMAIN recorded' : recorded'[k] = context[j].id => k > since[t]
              /\ \A t \in Turns : Says(context[j].words, t) =>
                   t \in context[j].own \/ \E k \in DOMAIN recorded' : k > since[t] /\ Gone(k)'
    BY <1>3 DEF Owned
  <2>1. context[j].own \subseteq Turns
    <3>1. context[j] \in Message
      BY <1>2
    <3>. QED BY <3>1 DEF Message
  <2>2. \A t \in Turns : since[t] \in Nat /\ since[t] < n
    BY <1>2 DEF Started, TypeOK, n
  <2>3. \A t \in context[j].own :
          t <= pushed /\ \A k \in DOMAIN recorded' : recorded'[k] = context[j].id => k > since[t]
    BY <1>4, <2>1, <2>2 DEF Owned
  <2>4. \A t \in Turns : Says(context[j].words, t) =>
          t \in context[j].own \/ \E k \in DOMAIN recorded' : k > since[t] /\ Gone(k)'
    BY <1>4, <1>6 DEF Owned
  <2>. QED BY <2>3, <2>4
<1>13. Started'
  BY <1>2, <1>3, <1>4 DEF Started, TypeOK, n
<1>14. Worded' /\ Kept'
  <2>1. Unsettled' = Unsettled
    BY <1>3 DEF Unsettled, Due, Alike, HadBy
  <2>. QED BY <1>3, <2>1 DEF Worded, Kept
<1>. QED BY <1>8, <1>9, <1>10, <1>11, <1>12, <1>13, <1>14

\* The context frame of a commit reaches the reconcile: the newest message is
\* the last one seen, or folded into the one before it.
LEMMA SeenKeeps ==
  ASSUME Bounds, Inv, Reconciles, UNCHANGED context
  PROVE  Inv'
<1>. USE DEF Inv
<1>1. /\ frames > 0 /\ frames' = frames - 1
      /\ UNCHANGED <<pushed, parts, context, events, recorded, since, taken, fate, ahead, made, tails>>
  BY DEF Reconciles
<1>2. context # <<>> /\ frames' \in Nat
  BY <1>1 DEF Started, TypeOK
<1>3. lastUser' \in Nat
  <2>1. context[Len(context)] \in Message
    BY <1>2 DEF TypeOK
  <2>2. lastUser' = context[Len(context)].id \/ lastUser' = lastUser
    BY DEF Reconciles
  <2>. QED BY <2>1, <2>2 DEF TypeOK, Message
<1>4. TypeOK' /\ Started'
  BY <1>1, <1>2, <1>3 DEF TypeOK, Started
<1>5. Ordered' /\ Counted' /\ Newest' /\ Owned'
  BY <1>1 DEF Ordered, Counted, Newest, Owned, Left, Gone, Where
<1>6. Worded' /\ Kept'
  <2>1. Unsettled' = Unsettled
    BY <1>1 DEF Unsettled, Due, Alike, HadBy
  <2>. QED BY <1>1, <2>1 DEF Worded, Kept
<1>. QED BY <1>4, <1>5, <1>6

LEMMA FoldKeeps ==
  ASSUME Bounds, Inv, Reconciles, Folds(Len(context)),
         context' = Append(SubSeq(context, 1, Len(context) - 2),
                           [context[Len(context) - 1] EXCEPT !.words = @ \o context[Len(context)].words,
                                                             !.folded = TRUE])
  PROVE  Inv'
<1>. USE DEF Inv
<1>. DEFINE n == Len(context) - 1
            old == context[n]
            last == context[n + 1]
            m == [old EXCEPT !.words = @ \o last.words, !.folded = TRUE]
<1>1. /\ context \in Seq(Message) /\ n \in Nat /\ n >= 1 /\ DOMAIN context = 1..(n + 1) /\ Len(context) = n + 1
      /\ n \in DOMAIN context /\ n + 1 \in DOMAIN context
      /\ old \in Message /\ last \in Message /\ events = <<>>
      /\ \A i \in DOMAIN context : context[i] \in Message /\ context[i].id \in 1..made
      /\ old.words # <<>> /\ last.words # <<>>
  BY DEF TypeOK, Folds, Range
<1>2. /\ old.words \in Seq(Word) /\ last.words \in Seq(Word) /\ old.own \subseteq Turns
      /\ \A i \in DOMAIN context : context[i].own \subseteq Turns
  BY <1>1 DEF Message
<1>3. /\ m \in Message /\ m.id = old.id /\ m.own = old.own /\ m.folded /\ m.words = old.words \o last.words
      /\ m.words \in Seq(Word) /\ m.words # <<>>
  <2>1. old.words \o last.words \in Seq(Word) /\ old.words \o last.words # <<>>
    BY <1>1, <1>2
  <2>2. m \in Message /\ m.id = old.id /\ m.own = old.own /\ m.folded /\ m.words = old.words \o last.words
    <3>. DEFINE ws == old.words \o last.words
    <3>1. ws \in Seq(Word) /\ m = [old EXCEPT !.words = ws, !.folded = TRUE]
      BY <2>1
    <3>. HIDE DEF ws, old, m
    <3>2. m \in Message /\ m.id = old.id /\ m.own = old.own /\ m.folded = TRUE /\ m.words = ws
      BY <1>1, <3>1 DEF Message
    <3>. QED BY <3>2 DEF ws
  <2>. QED BY <2>1, <2>2
<1>4. context' = Append(SubSeq(context, 1, n - 1), m)
  BY <1>1
<1>0. old = context[n] /\ last = context[n + 1] /\ context[Len(context)] = last
  BY <1>1
<1>. HIDE DEF m, n, old, last
<1>5. /\ context' \in Seq(Message) /\ Len(context') = n /\ DOMAIN context' = 1..n
      /\ context'[n] = m /\ \A i \in 1..(n - 1) : context'[i] = context[i]
  <2>1. /\ SubSeq(context, 1, n - 1) \in Seq(Message) /\ Len(SubSeq(context, 1, n - 1)) = n - 1
        /\ \A i \in 1..(n - 1) : SubSeq(context, 1, n - 1)[i] = context[i]
    BY <1>1
  <2>. DEFINE s == SubSeq(context, 1, n - 1)
  <2>2. s \in Seq(Message) /\ Len(s) = n - 1 /\ \A i \in 1..(n - 1) : s[i] = context[i]
    BY <2>1
  <2>. HIDE DEF s
  <2>3. Append(s, m) \in Seq(Message) /\ Len(Append(s, m)) = n /\ DOMAIN Append(s, m) = 1..n
        /\ Append(s, m)[n] = m /\ \A i \in 1..(n - 1) : Append(s, m)[i] = s[i]
    BY <1>1, <1>3, <2>2, AppendIs
  <2>. QED BY <1>4, <2>2, <2>3 DEF s
<1>6. /\ frames > 0 /\ frames' = frames - 1 /\ frames' \in Nat
      /\ UNCHANGED <<pushed, parts, events, recorded, since, taken, fate, ahead, made, tails>>
  BY DEF Reconciles, TypeOK
<1>n. n \in DOMAIN context' /\ \A i \in DOMAIN context' : i = n \/ i \in 1..(n - 1)
  <2>1. n \in Int /\ n >= 1 /\ DOMAIN context' = 1..n
    BY <1>1, <1>5
  <2>. QED BY <2>1
<1>i. \A i \in DOMAIN context' : i \in DOMAIN context /\ context'[i].id = context[i].id /\ context'[i].own = context[i].own
                                  /\ (i = n \/ i \in 1..(n - 1))
  BY <1>0, <1>1, <1>3, <1>5, <1>n
<1>u. Unsettled' = Unsettled
  BY <1>6 DEF Unsettled, Due, Alike, HadBy
<1>7. /\ \A k \in DOMAIN m.words : (k \in DOMAIN old.words /\ m.words[k] = old.words[k])
                                   \/ \E l \in DOMAIN last.words : m.words[k] = last.words[l]
      /\ \A t : Says(m.words, t) <=> Says(old.words, t) \/ Says(last.words, t)
  <2>. DEFINE a == old.words
              b == last.words
              c == m.words
  <2>1. a \in Seq(Word) /\ b \in Seq(Word) /\ c = a \o b
    BY <1>2, <1>3
  <2>. HIDE DEF a, b, c
  <2>2. /\ \A i \in DOMAIN a : i \in DOMAIN c /\ c[i] = a[i]
        /\ \A i \in DOMAIN b : Len(a) + i \in DOMAIN c /\ c[Len(a) + i] = b[i]
        /\ \A i \in DOMAIN c : i \in DOMAIN a \/ (i - Len(a) \in DOMAIN b /\ c[i] = b[i - Len(a)])
    BY <2>1, CatIs
  <2>3. \A t : Says(c, t) <=> Says(a, t) \/ Says(b, t)
    BY <2>2 DEF Says
  <2>. QED BY <2>2, <2>3 DEF a, b, c
<1>8. Left = {} /\ \A i \in DOMAIN context : \E k \in DOMAIN recorded : recorded[k] = context[i].id
  <2>1. Cardinality(Left) = 0
    BY <1>1 DEF Counted
  <2>2. Left = {}
    BY <2>1, FS_EmptySet DEF Counted
  <2>. QED BY <2>2 DEF Left, Range
<1>9. \A k \in DOMAIN recorded : Gone(k) \/ recorded[k] = last.id => Gone(k)'
  <2>1. \A i \in DOMAIN context' : context'[i].id # last.id
    <3>1. \A i \in DOMAIN context' : context[i].id < last.id /\ context[i].id \in Int /\ last.id \in Int
      BY <1>0, <1>1, <1>5 DEF Ordered
    <3>. QED BY <1>i, <3>1
  <2>. QED BY <1>6, <1>i, <2>1 DEF Gone, Where
<1>10. TypeOK'
  <2>1. \A i \in DOMAIN context' : context'[i].id \in 1..made' /\ context'[i].words # <<>>
    BY <1>1, <1>3, <1>5, <1>6, <1>i DEF TypeOK, Range
  <2>2. \A x \in Range(context') : x.id \in 1..made' /\ x.words # <<>>
    BY <2>1 DEF Range
  <2>3. lastUser' = lastUser \/ lastUser' = last.id
    BY <1>0, <1>1 DEF Reconciles
  <2>4. lastUser' \in Nat
    BY <1>1, <2>3 DEF TypeOK, Message
  <2>. QED BY <1>5, <1>6, <2>2, <2>4 DEF TypeOK
<1>11. Ordered'
  BY <1>6, <1>i DEF Ordered
<1>12. Left' = {}
  BY <1>6, <1>8, <1>i DEF Left
<1>13. Counted'
  BY <1>1, <1>6, <1>12, FS_EmptySet DEF Counted
<1>14. Newest' /\ Started'
  BY <1>3, <1>5, <1>6, <1>n DEF Newest, Started, TypeOK
<1>15. Worded'
  <2>1. AsAsked(m.words, pushed, Unsettled)
    <3>1. AsAsked(old.words, pushed, Unsettled) /\ AsAsked(last.words, pushed, Unsettled)
      BY <1>0, <1>1 DEF Worded
    <3>. SUFFICES ASSUME NEW k \in DOMAIN m.words, m.words[k].of # 0
         PROVE  /\ m.words[k].of <= pushed
                /\ m.words[k].of \in Unsettled => m.words[k].reads = Asked[m.words[k].of]
      BY DEF AsAsked
    <3>2. CASE k \in DOMAIN old.words /\ m.words[k] = old.words[k]
      BY <3>1, <3>2 DEF AsAsked
    <3>3. CASE \E l \in DOMAIN last.words : m.words[k] = last.words[l]
      BY <3>1, <3>3 DEF AsAsked
    <3>. QED BY <1>7, <3>2, <3>3
  <2>2. \A i \in DOMAIN context' : AsAsked(context'[i].words, pushed, Unsettled)
    BY <1>5, <1>i, <2>1 DEF Worded
  <2>. QED BY <1>6, <1>u, <2>2 DEF Worded
<1>16. Owned'
  <2>. SUFFICES ASSUME NEW i \in DOMAIN context'
       PROVE  /\ \A t \in context[i].own :
                   t <= pushed /\ \A k \in DOMAIN recorded : recorded[k] = context[i].id => k > since[t]
              /\ \A t \in Turns : Says(context'[i].words, t) =>
                   t \in context[i].own \/ \E k \in DOMAIN recorded : k > since[t] /\ Gone(k)'
    BY <1>6, <1>i DEF Owned
  <2>1. CASE i = n
    <3>1. \A t \in Turns : Says(last.words, t) =>
            \E k \in DOMAIN recorded : k > since[t] /\ (Gone(k) \/ recorded[k] = last.id)
      <4>. SUFFICES ASSUME NEW t \in Turns, Says(last.words, t)
           PROVE  \E k \in DOMAIN recorded : k > since[t] /\ (Gone(k) \/ recorded[k] = last.id)
        OBVIOUS
      <4>1. t \in last.own \/ \E k \in DOMAIN recorded : k > since[t] /\ Gone(k)
        BY <1>0, <1>1 DEF Owned
      <4>2. PICK k \in DOMAIN recorded : recorded[k] = last.id
        BY <1>0, <1>1, <1>8
      <4>3. t \in last.own => k > since[t]
        BY <1>0, <1>1, <4>2 DEF Owned
      <4>. QED BY <4>1, <4>2, <4>3
    <3>2. \A t \in Turns : Says(old.words, t) =>
            t \in old.own \/ \E k \in DOMAIN recorded : k > since[t] /\ Gone(k)
      BY <1>0, <1>1 DEF Owned
    <3>3. \A t \in Turns : Says(context'[n].words, t) => Says(old.words, t) \/ Says(last.words, t)
      BY <1>5, <1>7
    <3>4. \A t \in old.own : t <= pushed /\ \A k \in DOMAIN recorded : recorded[k] = old.id => k > since[t]
      BY <1>0, <1>1 DEF Owned
    <3>. QED BY <1>0, <1>9, <2>1, <3>1, <3>2, <3>3, <3>4
  <2>2. CASE i \in 1..(n - 1)
    BY <1>5, <1>9, <1>i, <2>2 DEF Owned
  <2>. QED BY <1>i, <2>1, <2>2
<1>17. Kept'
  <2>1. \A t : Says(last.words, t) \/ Says(old.words, t) => n \in DOMAIN context' /\ Says(context'[n].words, t)
    BY <1>5, <1>7, <1>n
  <2>2. \A t : \A i \in DOMAIN context : Says(context[i].words, t) => \E j \in DOMAIN context' : Says(context'[j].words, t)
    <3>. SUFFICES ASSUME NEW t, NEW i \in DOMAIN context, Says(context[i].words, t)
         PROVE  \E j \in DOMAIN context' : Says(context'[j].words, t)
      OBVIOUS
    <3>1. CASE i \in 1..(n - 1)
      BY <1>5, <3>1
    <3>. QED BY <1>0, <1>1, <2>1, <3>1
  <2>. QED BY <1>6, <1>u, <2>2 DEF Kept
<1>. QED BY <1>10, <1>11, <1>13, <1>14, <1>15, <1>16, <1>17

LEMMA ReconcileKeeps ==
  ASSUME Bounds, Inv, Reconciles
  PROVE  Inv'
BY SeenKeeps, FoldKeeps DEF Reconciles

\* The words of one message changed: what it is stays.
LEMMA RewordIs ==
  ASSUME context \in Seq(Message), NEW i \in DOMAIN context, NEW new \in Seq(Word),
         context' = [context EXCEPT ![i].words = new]
  PROVE  /\ context' \in Seq(Message) /\ Len(context') = Len(context) /\ DOMAIN context' = DOMAIN context
         /\ context'[i].words = new
         /\ \A j \in DOMAIN context : j # i => context'[j] = context[j]
         /\ \A j \in DOMAIN context : /\ context'[j].id = context[j].id /\ context'[j].own = context[j].own
                                      /\ context'[j].folded = context[j].folded
<1>. DEFINE m == [context[i] EXCEPT !.words = new]
<1>1. context[i] \in Message
  OBVIOUS
<1>2. m \in Message /\ m.words = new /\ m.id = context[i].id /\ m.own = context[i].own /\ m.folded = context[i].folded
  BY <1>1 DEF Message
<1>3. context' = [context EXCEPT ![i] = m]
  OBVIOUS
<1>. HIDE DEF m
<1>4. /\ context' \in Seq(Message) /\ Len(context') = Len(context) /\ DOMAIN context' = DOMAIN context
      /\ context'[i] = m /\ \A j \in DOMAIN context : j # i => context'[j] = context[j]
  BY <1>2, <1>3
<1>. QED BY <1>2, <1>4

LEMMA SameRecord ==
  ASSUME Ordered, Counted, Newest,
         DOMAIN context' = DOMAIN context, Len(context') = Len(context),
         context' # <<>> \/ context = <<>>,
         \A j \in DOMAIN context : context'[j].id = context[j].id /\ context'[j].folded = context[j].folded,
         UNCHANGED <<recorded, events>>
  PROVE  Ordered' /\ Counted' /\ Newest' /\ \A k : Gone(k)' <=> Gone(k)
<1>1. Left' = Left /\ \A id : Where(id)' = Where(id)
  BY DEF Left, Where
<1>2. \A k : Gone(k)' <=> Gone(k)
  BY <1>1 DEF Gone
<1>3. Ordered' /\ Counted'
  BY <1>1 DEF Ordered, Counted
<1>4. Newest'
  <2>. SUFFICES ASSUME NEW k \in DOMAIN recorded, Gone(k)
       PROVE  /\ context' # <<>>
              /\ \/ context'[Len(context)].folded \/ Len(context) \in Left
                 \/ \E l \in DOMAIN recorded : l > k /\ recorded[l] = context'[Len(context)].id
    BY <1>1, <1>2 DEF Newest
  <2>1. Len(context) \in DOMAIN context \/ Len(context) \notin DOMAIN context
    OBVIOUS
  <2>2. context # <<>> /\ (context[Len(context)].folded \/ Len(context) \in Left
          \/ \E l \in DOMAIN recorded : l > k /\ recorded[l] = context[Len(context)].id)
    BY DEF Newest
  <2>. QED BY <2>2
<1>. QED BY <1>2, <1>3, <1>4

LEMMA ReadsIs ==
  /\ \A words \in Seq(Word) : Reads([words |-> words]) \in Seq(Said)
  /\ \A m \in Message : Reads(m) \in Seq(Said)
<1>1. ASSUME NEW words \in Seq(Word)
      PROVE  [i \in DOMAIN words |-> words[i].reads] \in Seq(Said)
  <2>1. \A i \in 1..Len(words) : words[i].reads \in Said
    BY WordIs
  <2>2. [i \in 1..Len(words) |-> words[i].reads] \in [1..Len(words) -> Said]
    BY <2>1
  <2>. QED BY <2>2
<1>. QED BY <1>1 DEF Reads, Message

LEMMA TextsIs ==
  ASSUME NEW ms \in Seq(Message)
  PROVE  Texts(ms) \in Seq(Seq(Said)) /\ Len(Texts(ms)) = Len(ms) /\ \A i \in DOMAIN ms : Texts(ms)[i] = Reads(ms[i])
<1>1. Texts(ms) = [i \in 1..Len(ms) |-> Reads(ms[i])] /\ Len(ms) \in Nat
  BY DEF Texts
<1>2. \A i \in 1..Len(ms) : Reads(ms[i]) \in Seq(Said)
  BY ReadsIs
<1>3. Texts(ms) \in [1..Len(ms) -> Seq(Said)]
  BY <1>1, <1>2
<1>. QED BY <1>1, <1>3

\* Words nobody was heard saying come onto the newest message.
LEMMA TailKeeps ==
  ASSUME Bounds, Inv, TailWords
  PROVE  Inv'
<1>. USE DEF Inv
<1>. DEFINE n == Len(context)
            w == [of |-> 0, reads |-> None]
            old == context[n].words
            new == Append(old, w)
<1>1. /\ context \in Seq(Message) /\ n \in DOMAIN context /\ context[n] \in Message /\ old \in Seq(Word)
      /\ old # <<>>
  <2>1. context \in Seq(Message) /\ n \in DOMAIN context /\ context[n] \in Message /\ context[n] \in Range(context)
    BY DEF TailWords, TypeOK, Range
  <2>. QED BY <2>1 DEF Message, TypeOK
<1>2. w \in Word /\ w.of = 0
  BY SaidIs DEF Word
<1>. HIDE DEF w
<1>3. /\ new \in Seq(Word) /\ new # <<>>
      /\ \A k \in DOMAIN new : (k \in DOMAIN old /\ new[k] = old[k]) \/ new[k].of = 0
      /\ \A k \in DOMAIN old : k \in DOMAIN new /\ new[k] = old[k]
  BY <1>1, <1>2, AppendIs
<1>4. context' = [context EXCEPT ![n].words = new]
  BY DEF TailWords, w
<1>5. /\ tails < MaxTails /\ tails' = tails + 1
      /\ UNCHANGED <<pushed, parts, events, frames, lastUser, recorded, since, taken, fate, ahead, made>>
  BY DEF TailWords
<1>. HIDE DEF new, n
<1>6. /\ context' \in Seq(Message) /\ Len(context') = Len(context) /\ DOMAIN context' = DOMAIN context
      /\ context'[n].words = new
      /\ \A j \in DOMAIN context : j # n => context'[j] = context[j]
      /\ \A j \in DOMAIN context : /\ context'[j].id = context[j].id /\ context'[j].own = context[j].own
                                   /\ context'[j].folded = context[j].folded
  BY <1>1, <1>3, <1>4, RewordIs
<1>7. context' # <<>>
  BY <1>1, <1>6
<1>8. Ordered' /\ Counted' /\ Newest' /\ \A k : Gone(k)' <=> Gone(k)
  BY <1>5, <1>6, <1>7, SameRecord
<1>9. TypeOK'
  <2>1. \A j \in DOMAIN context : context'[j].id \in 1..made /\ context'[j].words # <<>>
    BY <1>3, <1>6 DEF TypeOK, Range
  <2>2. \A x \in Range(context') : x.id \in 1..made /\ x.words # <<>>
    BY <1>6, <2>1 DEF Range
  <2>3. tails' \in 0..MaxTails
    BY <1>5 DEF TypeOK, Bounds
  <2>. QED BY <1>5, <1>6, <2>2, <2>3 DEF TypeOK
<1>10. Unsettled' = Unsettled
  BY <1>5 DEF Unsettled, Due, Alike, HadBy
<1>11. Worded'
  <2>1. AsAsked(new, pushed, Unsettled)
    <3>1. AsAsked(old, pushed, Unsettled)
      BY <1>1 DEF Worded
    <3>. QED BY <1>3, <3>1 DEF AsAsked
  <2>2. \A j \in DOMAIN context : AsAsked(context'[j].words, pushed, Unsettled)
    BY <1>6, <2>1 DEF Worded
  <2>. QED BY <1>5, <1>6, <1>10, <2>2 DEF Worded
<1>12. \A t \in Turns : Says(new, t) <=> Says(old, t)
  BY <1>3 DEF Says, Turns
<1>13. \A j \in DOMAIN context : \A t \in Turns : Says(context'[j].words, t) <=> Says(context[j].words, t)
  BY <1>6, <1>12
<1>14. Owned'
  BY <1>5, <1>6, <1>8, <1>13 DEF Owned
<1>15. Started'
  BY <1>5, <1>7 DEF Started
<1>16. Kept'
  <2>1. 1..pushed \subseteq Turns
    BY DEF TypeOK, Turns, Bounds
  <2>. QED BY <1>5, <1>6, <1>10, <1>13, <2>1 DEF Kept
<1>. QED BY <1>8, <1>9, <1>11, <1>14, <1>15, <1>16

\* A reply is asked ahead.
LEMMA AskKeeps ==
  ASSUME Bounds, Inv, AsksAhead
  PROVE  Inv'
<1>. USE DEF Inv
<1>1. ahead' \in Seq(Seq(Said))
  <2>1. Texts(context) \in Seq(Seq(Said)) /\ Reads([words |-> parts]) \in Seq(Said)
    BY TextsIs, ReadsIs DEF TypeOK
  <2>2. ahead' = Append(Texts(context), Reads([words |-> parts]))
    BY DEF AsksAhead
  <2>. HIDE DEF Inv
  <2>. QED BY <2>1, <2>2, AppendIs
<1>2. UNCHANGED <<pushed, parts, context, events, frames, lastUser, recorded, since, taken, fate, made, tails>>
  BY DEF AsksAhead
<1>3. TypeOK'
  BY <1>1, <1>2 DEF TypeOK
<1>4. Unsettled' = Unsettled
  BY <1>2 DEF Unsettled, Due, Alike, HadBy
<1>5. Ordered' /\ Counted' /\ Newest' /\ Owned' /\ Started'
  BY <1>2 DEF Ordered, Counted, Newest, Owned, Started, Left, Gone, Where
<1>6. Worded' /\ Kept'
  BY <1>2, <1>4 DEF Worded, Kept
<1>. QED BY <1>3, <1>5, <1>6

-----------------------------------------------------------------------------
(* A final.                                                                  *)

Found(t) == {l \in Looks(t) : LastWhole(context[l[2]].words, t) # 0}
Chosen(t) == (CHOOSE l \in Found(t) : \A m \in Found(t) : l[1] <= m[1])[2]
Renewed(words, t) == Rewritten(words, LastWhole(words, t), t)

InTurn(t) ==
  /\ t <= pushed /\ fate[t] = "due" /\ Asked[t] # Final[t]
  /\ \A u \in 1..(t - 1) : fate[u] # "due" \/ Asked[u] = Final[u]

\* The turns still to be settled are some of those before, and none is asked
\* on words a final had.
LEMMA SettleIs ==
  ASSUME Bounds, TypeOK, NEW t \in Turns, InTurn(t), NEW v \in Fates \ {"due"},
         fate' = [fate EXCEPT ![t] = v]
  PROVE  /\ Unsettled' \subseteq Unsettled \ {t}
         /\ v \in {"amended", "corrected"} => \A u \in Unsettled' : Asked[u] # Asked[t]
<1>1. /\ fate \in [Turns -> Fates] /\ Turns = 1..MaxTurns /\ MaxTurns \in Nat /\ fate[t] = "due"
      /\ \A u \in 1..(t - 1) : u \in Turns /\ ~Due(u)
      /\ fate'[t] = v /\ \A u \in Turns : u # t => fate'[u] = fate[u]
  BY DEF TypeOK, Turns, Bounds, InTurn, Due
<1>2. \A u \in Turns : Due(u)' => Due(u) /\ u # t
  BY <1>1 DEF Due
<1>3. \A u \in Turns : \A x \in 1..(u - 1) : x \in Turns /\ (HadBy(x, u) => HadBy(x, u)')
  BY <1>1 DEF HadBy
<1>4. \A u \in Turns : Alike(u) => Alike(u)'
  BY <1>3 DEF Alike
<1>5. Unsettled' \subseteq Unsettled \ {t}
  BY <1>2, <1>4 DEF Unsettled
<1>6. ASSUME v \in {"amended", "corrected"}, NEW u \in Unsettled', Asked[u] = Asked[t]
      PROVE  FALSE
  <2>1. u \in Unsettled /\ u # t /\ u \in Turns
    BY <1>5, <1>6 DEF Unsettled
  <2>2. Due(u)
    BY <2>1 DEF Unsettled
  <2>3. t \in 1..(u - 1)
    BY <1>1, <2>1, <2>2
  <2>4. HadBy(t, u)'
    BY <1>1, <1>6 DEF HadBy
  <2>5. Alike(u)'
    BY <2>3, <2>4 DEF Alike
  <2>. QED BY <1>6, <2>5 DEF Unsettled
<1>. QED BY <1>5, <1>6

\* Words with a final in hold the words of every turn still to be settled.
LEMMA RenewedIs ==
  ASSUME Bounds, NEW words \in Seq(Word), NEW t \in Turns, LastWhole(words, t) # 0,
         NEW open, NEW after, after \subseteq open, 0 \notin open,
         AsAsked(words, pushed, open), \A u \in after : Asked[u] # Asked[t]
  PROVE  /\ Renewed(words, t) \in Seq(Word) /\ AsAsked(Renewed(words, t), pushed, after)
         /\ \A j \in DOMAIN Renewed(words, t) : \E l \in DOMAIN words : Renewed(words, t)[j].of = words[l].of
         /\ \A u \in after : Says(words, u) => Says(Renewed(words, t), u)
<1>. DEFINE k == LastWhole(words, t)
            new == Rewritten(words, k, t)
            w == [words[k] EXCEPT !.reads = Final[t]]
<1>1. k \in DOMAIN words /\ words[k].reads = Asked[t] /\ words[k] \in Word
  BY WholeIs
<1>2. w.of = words[k].of
  BY <1>1 DEF Word
<1>. HIDE DEF k
<1>3. /\ new \in Seq(Word)
      /\ \A j \in DOMAIN new : (\E l \in DOMAIN words : new[j] = words[l]) \/ new[j] = w
      /\ \A l \in DOMAIN words \ {k} : Says(new, words[l].of)
  BY <1>1, RewrittenIs
<1>. HIDE DEF w, new
<1>4. words[k].of \notin after
  <2>1. words[k].of \in open => words[k].of # 0
    OBVIOUS
  <2>2. words[k].of \in open => words[k].reads = Asked[words[k].of]
    BY <1>1, <2>1 DEF AsAsked
  <2>. QED BY <1>1, <2>2
<1>5. AsAsked(new, pushed, after)
  <2>. SUFFICES ASSUME NEW j \in DOMAIN new, new[j].of # 0
       PROVE  new[j].of <= pushed /\ (new[j].of \in after => new[j].reads = Asked[new[j].of])
    BY DEF AsAsked
  <2>1. CASE new[j] = w
    BY <1>1, <1>2, <1>4, <2>1 DEF AsAsked
  <2>2. CASE \E l \in DOMAIN words : new[j] = words[l]
    BY <2>2 DEF AsAsked
  <2>. QED BY <1>3, <2>1, <2>2
<1>6. \A j \in DOMAIN new : \E l \in DOMAIN words : new[j].of = words[l].of
  BY <1>1, <1>2, <1>3
<1>7. \A u \in after : Says(words, u) => Says(new, u)
  BY <1>3, <1>4 DEF Says
<1>. QED BY <1>3, <1>5, <1>6, <1>7 DEF Renewed, k, new

\* Where a final may look.
LEMMA LooksIs ==
  ASSUME TypeOK, NEW t \in Turns, NEW l \in Looks(t)
  PROVE  /\ l[1] \in Nat /\ l[2] \in DOMAIN context
         /\ \/ l[1] \in Since(t) /\ recorded[l[1]] = context[l[2]].id
            \/ /\ l[1] = Len(recorded) + 1 /\ l[2] = Len(context) /\ Unseen(l[2], Since(t))
               /\ Unseen(l[2], DOMAIN recorded) \/ \E n \in Since(t) : Gone(n)
<1>1. DOMAIN recorded = 1..Len(recorded) /\ Len(recorded) \in Nat
  BY DEF TypeOK
<1>2. CASE l \in OnRecord(Since(t))
  <2>1. /\ l \in Since(t) \X DOMAIN context /\ context[l[2]].id = recorded[l[1]]
    BY <1>2 DEF OnRecord
  <2>. QED BY <1>1, <2>1 DEF Since
<1>3. CASE l \notin OnRecord(Since(t))
  <2>1. PICK i \in DOMAIN context :
          /\ i = Len(context) /\ Unseen(i, Since(t))
          /\ Unseen(i, DOMAIN recorded) \/ \E n \in Since(t) : Gone(n)
          /\ l = <<Len(recorded) + 1, i>>
    BY <1>3 DEF Looks, Gone
  <2>. QED BY <1>1, <2>1
<1>. QED BY <1>2, <1>3

LEMMA ChosenIs ==
  ASSUME TypeOK, NEW t \in Turns, Found(t) # {}
  PROVE  /\ Chosen(t) \in DOMAIN context /\ LastWhole(context[Chosen(t)].words, t) # 0
         /\ \E l \in Looks(t) : l[2] = Chosen(t) /\ \A m \in Found(t) : l[1] <= m[1]
<1>. DEFINE T == {l[1] : l \in Found(t)}
<1>1. Found(t) \subseteq Looks(t) /\ \A l \in Found(t) : l[1] \in Nat
  BY LooksIs DEF Found
<1>2. T \subseteq Nat /\ T # {}
  BY <1>1
<1>3. PICK x \in T : \A y \in T : x <= y
  BY <1>2, Least
<1>4. \E l \in Found(t) : \A m \in Found(t) : l[1] <= m[1]
  BY <1>3
<1>5. PICK l \in Found(t) : l[2] = Chosen(t) /\ \A m \in Found(t) : l[1] <= m[1]
  BY <1>4 DEF Chosen
<1>. QED BY <1>1, <1>5, LooksIs DEF Found

\* What a correction does: nothing is found; or what is left is no message;
\* or the chosen message has its words rewritten.
Unplaces(t) ==
  /\ Found(t) = {} /\ fate' = [fate EXCEPT ![t] = "unplaced"] /\ UNCHANGED <<context, ahead>>
Keeps(t) ==
  /\ Found(t) # {} /\ fate' = [fate EXCEPT ![t] = "kept"] /\ UNCHANGED <<context, ahead>>
Rewrites(t) ==
  LET i == Chosen(t) new == Renewed(context[Chosen(t)].words, t)
  IN /\ Found(t) # {} /\ fate' = [fate EXCEPT ![t] = "corrected"] /\ new # <<>>
     /\ context' = [context EXCEPT ![i].words = new] /\ ahead' = AmendAhead(i, new)

LEMMA CorrectsIs ==
  ASSUME NEW t \in Turns, Corrects(t)
  PROVE  LastWhole(parts, t) = 0 /\ UNCHANGED parts /\ (Unplaces(t) \/ Keeps(t) \/ Rewrites(t))
BY DEF Corrects, Unplaces, Keeps, Rewrites, Found, Chosen, Renewed

\* A final that finds no words to change leaves them.
LEMMA NothingKeeps ==
  ASSUME Bounds, Inv, NEW t \in Turns, InTurn(t), NEW v \in Fates \ {"due"},
         fate' = [fate EXCEPT ![t] = v],
         UNCHANGED <<pushed, parts, context, events, frames, lastUser, recorded, since, taken, ahead, made, tails>>
  PROVE  Inv'
<1>. USE DEF Inv
<1>1. Unsettled' \subseteq Unsettled
  BY SettleIs
<1>2. fate' \in [Turns -> Fates] /\ \A u \in Turns : u # t => fate'[u] = fate[u]
  BY DEF TypeOK
<1>3. TypeOK'
  BY <1>2 DEF TypeOK
<1>4. Started'
  <2>1. pushed \in Nat /\ Turns \subseteq Nat /\ ~(t > pushed)
    BY DEF TypeOK, Turns, InTurn
  <2>. QED BY <1>2, <2>1 DEF Started
<1>5. Ordered' /\ Counted' /\ Newest' /\ Owned'
  BY DEF Ordered, Counted, Newest, Owned, Left, Gone, Where
<1>6. Worded' /\ Kept'
  BY <1>1 DEF Worded, AsAsked, Kept
<1>. QED BY <1>3, <1>4, <1>5, <1>6

LEMMA AmendKeeps ==
  ASSUME Bounds, Inv, NEW t \in Turns, InTurn(t), Amends(t),
         UNCHANGED <<pushed, events, frames, lastUser, recorded, since, taken, made, tails>>
  PROVE  Inv'
<1>. USE DEF Inv
<1>1. /\ LastWhole(parts, t) # 0 /\ parts' = Renewed(parts, t)
      /\ fate' = [fate EXCEPT ![t] = "amended"] /\ UNCHANGED <<context, ahead>>
  BY DEF Amends, Renewed
<1>2. Unsettled' \subseteq Unsettled /\ \A u \in Unsettled' : Asked[u] # Asked[t]
  BY <1>1, SettleIs DEF Fates
<1>3. fate' \in [Turns -> Fates] /\ \A u \in Turns : u # t => fate'[u] = fate[u]
  BY <1>1 DEF TypeOK, Fates
<1>4. parts \in Seq(Word) /\ 0 \notin Unsettled /\ AsAsked(parts, pushed, Unsettled)
  BY DEF TypeOK, Unsettled, Turns, Worded
<1>5. /\ parts' \in Seq(Word) /\ AsAsked(parts', pushed, Unsettled')
      /\ \A j \in DOMAIN parts' : \E l \in DOMAIN parts : parts'[j].of = parts[l].of
      /\ \A u \in Unsettled' : Says(parts, u) => Says(parts', u)
  BY <1>1, <1>2, <1>4, RenewedIs
<1>6. TypeOK'
  BY <1>1, <1>3, <1>5 DEF TypeOK
<1>7. Started'
  <2>1. pushed \in Nat /\ Turns \subseteq Nat /\ ~(t > pushed)
    BY DEF TypeOK, Turns, InTurn
  <2>. QED BY <1>1, <1>3, <2>1 DEF Started
<1>8. Ordered' /\ Counted' /\ Newest' /\ Owned'
  BY <1>1 DEF Ordered, Counted, Newest, Owned, Left, Gone, Where
<1>9. Worded'
  <2>1. \A j \in DOMAIN parts' : parts'[j].of # 0
    BY <1>5 DEF Worded
  <2>2. \A i \in DOMAIN context : AsAsked(context[i].words, pushed, Unsettled')
    BY <1>2 DEF Worded, AsAsked
  <2>. QED BY <1>1, <1>5, <2>1, <2>2 DEF Worded
<1>10. Kept'
  BY <1>1, <1>2, <1>5 DEF Kept
<1>. QED BY <1>6, <1>7, <1>8, <1>9, <1>10

LEMMA RewriteKeeps ==
  ASSUME Bounds, Inv, NEW t \in Turns, InTurn(t), Rewrites(t),
         UNCHANGED <<pushed, parts, events, frames, lastUser, recorded, since, taken, made, tails>>
  PROVE  Inv'
<1>. USE DEF Inv
<1>. DEFINE i == Chosen(t)
            old == context[i].words
            new == Renewed(old, t)
<1>1. /\ Found(t) # {} /\ fate' = [fate EXCEPT ![t] = "corrected"] /\ new # <<>>
      /\ context' = [context EXCEPT ![i].words = new] /\ ahead' = AmendAhead(i, new)
  BY DEF Rewrites
<1>2. /\ i \in DOMAIN context /\ LastWhole(old, t) # 0 /\ context \in Seq(Message) /\ old \in Seq(Word)
  <2>1. i \in DOMAIN context /\ LastWhole(old, t) # 0 /\ context \in Seq(Message) /\ context[i] \in Message
    BY <1>1, ChosenIs DEF TypeOK
  <2>. QED BY <2>1 DEF Message
<1>3. Unsettled' \subseteq Unsettled /\ \A u \in Unsettled' : Asked[u] # Asked[t]
  BY <1>1, SettleIs DEF Fates
<1>4. fate' \in [Turns -> Fates] /\ \A u \in Turns : u # t => fate'[u] = fate[u]
  BY <1>1 DEF TypeOK, Fates
<1>5. 0 \notin Unsettled /\ AsAsked(old, pushed, Unsettled)
  <2>1. 0 \notin Unsettled
    BY DEF Unsettled, Turns
  <2>. QED BY <1>2, <2>1 DEF Worded
<1>6. /\ new \in Seq(Word) /\ AsAsked(new, pushed, Unsettled')
      /\ \A j \in DOMAIN new : \E l \in DOMAIN old : new[j].of = old[l].of
      /\ \A u \in Unsettled' : Says(old, u) => Says(new, u)
  BY <1>2, <1>3, <1>5, RenewedIs
<1>. HIDE DEF i, new
<1>7. /\ context' \in Seq(Message) /\ Len(context') = Len(context) /\ DOMAIN context' = DOMAIN context
      /\ context'[i].words = new
      /\ \A j \in DOMAIN context : j # i => context'[j] = context[j]
      /\ \A j \in DOMAIN context : /\ context'[j].id = context[j].id /\ context'[j].own = context[j].own
                                   /\ context'[j].folded = context[j].folded
  BY <1>1, <1>2, <1>6, RewordIs
<1>8. context' # <<>>
  BY <1>2, <1>7
<1>9. Ordered' /\ Counted' /\ Newest' /\ \A k : Gone(k)' <=> Gone(k)
  BY <1>7, <1>8, SameRecord
<1>10. TypeOK'
  <2>1. \A j \in DOMAIN context : context'[j].id \in 1..made /\ context'[j].words # <<>>
    BY <1>1, <1>7 DEF TypeOK, Range
  <2>2. \A x \in Range(context') : x.id \in 1..made /\ x.words # <<>>
    BY <1>7, <2>1 DEF Range
  <2>3. ahead' \in Seq(Seq(Said))
    <3>1. Reads([words |-> new]) \in Seq(Said) /\ ahead \in Seq(Seq(Said)) /\ i \in Nat /\ i >= 1
      BY <1>2, <1>6, ReadsIs DEF TypeOK
    <3>2. ahead' = ahead \/ (i < Len(ahead) /\ ahead' = [ahead EXCEPT ![i] = Reads([words |-> new])])
      BY <1>1 DEF AmendAhead
    <3>. DEFINE x == Reads([words |-> new])
                S == Seq(Said)
    <3>3. x \in S /\ ahead \in Seq(S)
      BY <3>1
    <3>. HIDE DEF x, S
    <3>4. i < Len(ahead) => [ahead EXCEPT ![i] = x] \in Seq(S)
      BY <3>1, <3>3
    <3>. QED BY <3>2, <3>3, <3>4 DEF x, S
  <2>. QED BY <1>4, <1>7, <2>2, <2>3 DEF TypeOK
<1>11. Worded'
  <2>1. \A j \in DOMAIN context : AsAsked(context'[j].words, pushed, Unsettled')
    BY <1>3, <1>6, <1>7 DEF Worded, AsAsked
  <2>2. AsAsked(parts, pushed, Unsettled')
    BY <1>3 DEF Worded, AsAsked
  <2>. QED BY <1>7, <2>1, <2>2 DEF Worded
<1>12. Owned'
  <2>1. \A u : Says(new, u) => Says(old, u)
    BY <1>6 DEF Says
  <2>2. \A j \in DOMAIN context : \A u : Says(context'[j].words, u) => Says(context[j].words, u)
    BY <1>7, <2>1
  <2>. QED BY <1>7, <1>9, <2>2 DEF Owned
<1>13. Started'
  <2>1. pushed \in Nat /\ Turns \subseteq Nat /\ ~(t > pushed)
    BY DEF TypeOK, Turns, InTurn
  <2>. QED BY <1>1, <1>4, <1>8, <2>1 DEF Started
<1>14. Kept'
  <2>1. \A u \in Unsettled' : \A j \in DOMAIN context : Says(context[j].words, u) => Says(context'[j].words, u)
    BY <1>6, <1>7
  <2>. QED BY <1>3, <1>7, <2>1 DEF Kept
<1>. QED BY <1>9, <1>10, <1>11, <1>12, <1>13, <1>14

LEMMA FinalKeeps ==
  ASSUME Bounds, Inv, NEW t \in Turns, Finals(t)
  PROVE  Inv'
<1>1. InTurn(t) /\ UNCHANGED <<pushed, events, frames, lastUser, recorded, since, taken, made, tails>>
  BY DEF Finals, InTurn
<1>2. CASE Amends(t)
  BY <1>1, <1>2, AmendKeeps
<1>3. CASE Corrects(t)
  <2>1. UNCHANGED parts /\ (Unplaces(t) \/ Keeps(t) \/ Rewrites(t))
    BY <1>3, CorrectsIs
  <2>2. CASE Unplaces(t)
    BY <1>1, <2>1, <2>2, NothingKeeps DEF Unplaces, Fates
  <2>3. CASE Keeps(t)
    BY <1>1, <2>1, <2>3, NothingKeeps DEF Keeps, Fates
  <2>4. CASE Rewrites(t)
    BY <1>1, <2>1, <2>4, RewriteKeeps
  <2>. QED BY <2>1, <2>2, <2>3, <2>4
<1>. QED BY <1>2, <1>3 DEF Finals

LEMMA StartIs ==
  ASSUME Bounds, Init
  PROVE  Inv
<1>1. TypeOK
  <2>1. parts \in Seq(Word) /\ context \in Seq(Message) /\ recorded \in Seq(Nat)
        /\ events \in Seq(Seq(Said)) /\ ahead \in Seq(Seq(Said))
    BY DEF Init
  <2>2. Len(events) = 0 /\ Range(context) = {} /\ Range(recorded) = {}
    BY DEF Init, Range
  <2>. QED BY <2>1, <2>2 DEF Init, TypeOK, Bounds, Fates
<1>2. Left = {} /\ Len(events) = 0
  BY DEF Init, Left
<1>. QED BY <1>1, <1>2, FS_EmptySet
         DEF Init, Inv, Bounds, Ordered, Counted, Newest, AsAsked, Worded, Owned, Started, Kept, Turns

LEMMA StepKeeps ==
  ASSUME Bounds, Inv, [Next]_vars
  PROVE  Inv'
<1>1. CASE UNCHANGED vars
  <2>1. UNCHANGED <<pushed, parts, context, events, frames, lastUser, recorded, since, taken, fate, ahead, made, tails>>
    BY <1>1 DEF vars
  <2>2. Unsettled' = Unsettled
    BY <2>1 DEF Unsettled, Due, Alike, HadBy
  <2>3. TypeOK' /\ Ordered' /\ Counted' /\ Newest'
    BY <2>1 DEF Inv, TypeOK, Ordered, Counted, Newest, Left, Gone, Where
  <2>4. Worded' /\ Owned' /\ Started' /\ Kept'
    BY <2>1, <2>2 DEF Inv, Worded, Owned, Started, Kept, Gone, Where
  <2>. QED BY <2>3, <2>4 DEF Inv
<1>2. CASE Next
  BY <1>1, <1>2, PushKeeps, CommitKeeps, AddedKeeps, ReconcileKeeps, TailKeeps, AskKeeps, FinalKeeps DEF Next, Rest
<1>. QED BY <1>1, <1>2

-----------------------------------------------------------------------------
(* What a final's step is.                                                   *)

LEMMA SettledBy ==
  ASSUME Bounds, Inv, [Next]_vars, NEW t \in Turns, fate[t] = "due", fate'[t] # "due"
  PROVE  Finals(t)
<1>1. fate' # fate
  OBVIOUS
<1>2. \E u \in Turns : Finals(u)
  BY <1>1 DEF Next, vars, Provisional, Taken, Pushes, Commits, MessageAdded, Reconciles, TailWords, AsksAhead, Rest
<1>3. PICK u \in Turns : Finals(u)
  BY <1>2
<1>4. \E v : fate' = [fate EXCEPT ![u] = v]
  BY <1>3 DEF Finals, Amends, Corrects
<1>5. u = t
  BY <1>4 DEF Inv, TypeOK
<1>. QED BY <1>3, <1>5

LEMMA SettledAs ==
  ASSUME Bounds, Inv, [Next]_vars, NEW t \in Turns, fate[t] = "due"
  PROVE  /\ fate'[t] = "corrected" =>
              InTurn(t) /\ Rewrites(t) /\ UNCHANGED <<pushed, parts, recorded, since>>
         /\ fate'[t] = "unplaced" => InTurn(t) /\ Found(t) = {} /\ LastWhole(parts, t) = 0
<1>. SUFFICES ASSUME fate'[t] # "due"
     PROVE  /\ fate'[t] = "corrected" =>
                 InTurn(t) /\ Rewrites(t) /\ UNCHANGED <<pushed, parts, recorded, since>>
            /\ fate'[t] = "unplaced" => InTurn(t) /\ Found(t) = {} /\ LastWhole(parts, t) = 0
  OBVIOUS
<1>1. Finals(t)
  BY SettledBy
<1>2. InTurn(t) /\ UNCHANGED <<pushed, recorded, since>> /\ (Amends(t) \/ Corrects(t))
  BY <1>1 DEF Finals, InTurn
<1>3. \A v : fate' = [fate EXCEPT ![t] = v] => fate'[t] = v
  BY DEF Inv, TypeOK
<1>4. CASE Amends(t)
  BY <1>3, <1>4 DEF Amends
<1>5. CASE Corrects(t)
  <2>1. LastWhole(parts, t) = 0 /\ UNCHANGED parts /\ (Unplaces(t) \/ Keeps(t) \/ Rewrites(t))
    BY <1>5, CorrectsIs
  <2>2. Unplaces(t) => fate'[t] = "unplaced" /\ Found(t) = {}
    BY <1>3 DEF Unplaces
  <2>3. Keeps(t) => fate'[t] = "kept"
    BY <1>3 DEF Keeps
  <2>4. Rewrites(t) => fate'[t] = "corrected"
    BY <1>3 DEF Rewrites
  <2>. QED BY <1>2, <2>1, <2>2, <2>3, <2>4
<1>. QED BY <1>2, <1>4, <1>5

LEMMA RewordedIs ==
  ASSUME Bounds, Inv, NEW t \in Turns, Rewrites(t)
  PROVE  /\ Chosen(t) \in DOMAIN context /\ context' \in Seq(Message) /\ Len(context') = Len(context)
         /\ DOMAIN context' = DOMAIN context
         /\ context'[Chosen(t)].words = Renewed(context[Chosen(t)].words, t)
         /\ \A j \in DOMAIN context : j # Chosen(t) => context'[j] = context[j]
<1>. DEFINE i == Chosen(t)
            old == context[i].words
            new == Renewed(old, t)
<1>1. i \in DOMAIN context /\ LastWhole(old, t) # 0 /\ context \in Seq(Message) /\ context[i] \in Message
  BY ChosenIs DEF Inv, TypeOK, Rewrites
<1>2. old \in Seq(Word) /\ AsAsked(old, pushed, {})
  <2>1. old \in Seq(Word) /\ AsAsked(old, pushed, Unsettled)
    BY <1>1 DEF Message, Inv, Worded
  <2>. QED BY <2>1 DEF AsAsked
<1>3. new \in Seq(Word)
  <2>. DEFINE none == {}
  <2>1. none \subseteq none /\ 0 \notin none /\ \A u \in none : Asked[u] # Asked[t]
    OBVIOUS
  <2>2. AsAsked(old, pushed, none)
    BY <1>2
  <2>. HIDE DEF none, i
  <2>. QED BY <1>1, <1>2, <2>1, <2>2, RenewedIs
<1>4. context' = [context EXCEPT ![i].words = new]
  BY DEF Rewrites
<1>. HIDE DEF i, new
<1>5. /\ context' \in Seq(Message) /\ Len(context') = Len(context) /\ DOMAIN context' = DOMAIN context
      /\ context'[i].words = new
      /\ \A j \in DOMAIN context : j # i => context'[j] = context[j]
  BY <1>1, <1>3, <1>4, RewordIs
<1>. QED BY <1>1, <1>5 DEF i, new

\* A message answered before the turn, and nothing folded into it, is not chosen.
LEMMA AnsweredIsNotChosen ==
  ASSUME Bounds, Inv, NEW t \in Turns, Found(t) # {}
  PROVE  \/ context[Chosen(t)].folded
         \/ context[Chosen(t)].id \notin Range(SubSeq(recorded, 1, since[t]))
<1>. USE DEF Inv
<1>. DEFINE i == Chosen(t)
            id == context[i].id
<1>1. PICK l \in Looks(t) : l[2] = i
  BY ChosenIs
<1>2. /\ l[1] \in Nat /\ i \in DOMAIN context
      /\ \/ l[1] \in Since(t) /\ recorded[l[1]] = id
         \/ /\ i = Len(context) /\ Unseen(i, Since(t))
            /\ Unseen(i, DOMAIN recorded) \/ \E n \in Since(t) : Gone(n)
  BY <1>1, LooksIs
<1>3. /\ recorded \in Seq(Nat) /\ since[t] \in Nat /\ since[t] <= Len(recorded)
      /\ DOMAIN recorded = 1..Len(recorded) /\ Len(recorded) \in Nat
  BY DEF TypeOK, Started
<1>. HIDE DEF i
<1>4. \A x \in Range(SubSeq(recorded, 1, since[t])) : \E n \in DOMAIN recorded : n <= since[t] /\ recorded[n] = x
  <2>1. \A n \in DOMAIN SubSeq(recorded, 1, since[t]) :
          n \in DOMAIN recorded /\ n <= since[t] /\ SubSeq(recorded, 1, since[t])[n] = recorded[n]
    BY <1>3
  <2>. QED BY <2>1 DEF Range
<1>5. CASE l[1] \in Since(t) /\ recorded[l[1]] = id
  <2>1. \A n \in DOMAIN recorded : recorded[n] = id => n > since[t]
    BY <1>3, <1>5 DEF Since, Ordered
  <2>. QED BY <1>3, <1>4, <2>1 DEF i
<1>6. CASE i = Len(context) /\ Unseen(i, Since(t)) /\ Unseen(i, DOMAIN recorded)
  BY <1>4, <1>6 DEF Unseen, i
<1>7. CASE i = Len(context) /\ Unseen(i, Since(t)) /\ \E n \in Since(t) : Gone(n)
  <2>1. PICK n \in DOMAIN recorded : n > since[t] /\ Gone(n)
    BY <1>7 DEF Since
  <2>2. CASE context[i].folded
    BY <2>2 DEF i
  <2>3. CASE i \in Left
    <3>1. \A k \in DOMAIN recorded : recorded[k] # id
      BY <2>3 DEF Left, Range
    <3>. QED BY <1>4, <3>1 DEF i
  <2>4. CASE \E k \in DOMAIN recorded : k > n /\ recorded[k] = id
    <3>1. PICK k \in DOMAIN recorded : k > n /\ recorded[k] = id
      BY <2>4
    <3>2. k \in Since(t)
      BY <1>3, <2>1, <3>1 DEF Since
    <3>. QED BY <1>7, <3>1, <3>2 DEF Unseen
  <2>. QED BY <1>7, <2>1, <2>2, <2>3, <2>4 DEF Newest
<1>. QED BY <1>2, <1>5, <1>6, <1>7

\* Where a message holds a turn's words, they are found.
LEMMA HeldIsFound ==
  ASSUME Bounds, Inv, NEW t \in Turns, t \in Unsettled, NEW i \in DOMAIN context, Holds(i, t)
  PROVE  Found(t) # {}
<1>. USE DEF Inv
<1>1. Says(context[i].words, t) /\ context[i].words \in Seq(Word)
  <2>1. context[i] \in Message
    BY DEF TypeOK
  <2>. QED BY <2>1 DEF Holds, Of, Range, Says, Message
<1>2. LastWhole(context[i].words, t) # 0
  <2>1. PICK k \in DOMAIN context[i].words : context[i].words[k].of = t
    BY <1>1 DEF Says
  <2>2. t # 0 /\ AsAsked(context[i].words, pushed, Unsettled)
    BY DEF Worded, Turns
  <2>3. context[i].words[k].reads = Asked[t]
    BY <2>1, <2>2 DEF AsAsked
  <2>. QED BY <1>1, <2>1, <2>3, WholeIs
<1>3. DOMAIN context = 1..Len(context) /\ Len(context) \in Nat
  BY DEF TypeOK
<1>4. ASSUME NEW n \in Since(t), recorded[n] = context[i].id
      PROVE  Found(t) # {}
  <2>1. <<n, i>> \in OnRecord(Since(t))
    BY <1>4 DEF OnRecord
  <2>. QED BY <1>2, <2>1 DEF Looks, Found
<1>5. ASSUME i = Len(context), Unseen(i, Since(t)), Unseen(i, DOMAIN recorded) \/ \E n \in Since(t) : Gone(n)
      PROVE  Found(t) # {}
  <2>1. <<Len(recorded) + 1, i>> \in Looks(t)
    BY <1>5 DEF Looks, Gone
  <2>. QED BY <1>2, <2>1 DEF Found
<1>6. t \in context[i].own => \A n \in DOMAIN recorded : recorded[n] = context[i].id => n \in Since(t)
  BY DEF Owned, Since
<1>7. t \in context[i].own \/ \E n \in Since(t) : Gone(n)
  BY <1>1 DEF Owned, Since
<1>8. CASE i = Len(context)
  <2>1. CASE Unseen(i, Since(t))
    <3>1. t \in context[i].own => Unseen(i, DOMAIN recorded)
      BY <1>6, <2>1 DEF Unseen
    <3>. QED BY <1>5, <1>7, <1>8, <2>1, <3>1
  <2>. QED BY <1>4, <2>1 DEF Unseen
<1>9. CASE t \in context[i].own /\ context[i].id \in Range(recorded)
  BY <1>4, <1>6, <1>9 DEF Range
<1>. QED BY <1>8, <1>9 DEF Holds

-----------------------------------------------------------------------------
(* The three promises, step by step.                                         *)

LEMMA StandsStep ==
  ASSUME Bounds, Inv, [Next]_vars, NEW t \in Turns, fate[t] = "due", fate'[t] = "corrected",
         NEW i \in DOMAIN context
  PROVE  context'[i] = context[i] \/ context[i].folded
           \/ context[i].id \notin Range(SubSeq(recorded, 1, since[t]))
<1>1. Rewrites(t) /\ Found(t) # {}
  BY SettledAs DEF Rewrites
<1>2. i # Chosen(t) => context'[i] = context[i]
  BY <1>1, RewordedIs
<1>. QED BY <1>1, <1>2, AnsweredIsNotChosen

LEMMA PlacedStep ==
  ASSUME Bounds, Inv, [Next]_vars, NEW t \in Turns, fate[t] = "due", fate'[t] = "unplaced"
  PROVE  \/ t \in taken
         \/ \E u \in 1..(t - 1) : HadBy(u, t)
         \/ (\E i \in DOMAIN context : t \in Of(i)) /\ ~\E i \in DOMAIN context : Holds(i, t)
<1>. SUFFICES ASSUME t \notin taken, ~Alike(t)
     PROVE  (\E i \in DOMAIN context : t \in Of(i)) /\ ~\E i \in DOMAIN context : Holds(i, t)
  BY DEF Alike
<1>1. InTurn(t) /\ Found(t) = {} /\ LastWhole(parts, t) = 0
  BY SettledAs
<1>2. t \in Unsettled /\ t \in 1..pushed /\ t # 0
  BY <1>1 DEF InTurn, Unsettled, Due, Turns, Inv, TypeOK
<1>3. ~Says(parts, t)
  <2>. SUFFICES ASSUME NEW k \in DOMAIN parts, parts[k].of = t PROVE FALSE
    BY DEF Says
  <2>1. parts[k].reads = Asked[t] /\ parts \in Seq(Word)
    BY <1>2 DEF Inv, Worded, AsAsked, TypeOK
  <2>. QED BY <1>1, <2>1, WholeIs
<1>4. \E i \in DOMAIN context : t \in Of(i)
  <2>1. PICK i \in DOMAIN context : Says(context[i].words, t)
    BY <1>2, <1>3 DEF Inv, Kept
  <2>. QED BY <2>1 DEF Says, Of, Range
<1>5. ~\E i \in DOMAIN context : Holds(i, t)
  BY <1>1, <1>2, HeldIsFound
<1>. QED BY <1>4, <1>5

LEMMA FitsStep ==
  ASSUME Bounds, Inv, [Next]_vars, NEW t \in Turns, fate[t] = "due", fate'[t] = "corrected",
         ahead # <<>>, Front(ahead) = Texts(context)
  PROVE  Front(ahead') = Texts(context')
<1>. DEFINE i == Chosen(t)
            new == Renewed(context[i].words, t)
            S == Seq(Said)
            x == Reads([words |-> new])
<1>1. Rewrites(t) /\ ahead' = AmendAhead(i, new)
  BY SettledAs DEF Rewrites
<1>2. /\ i \in DOMAIN context /\ context' \in Seq(Message) /\ Len(context') = Len(context)
      /\ DOMAIN context' = DOMAIN context /\ context'[i].words = new
      /\ \A j \in DOMAIN context : j # i => context'[j] = context[j]
  BY <1>1, RewordedIs
<1>3. context \in Seq(Message) /\ ahead \in Seq(S)
  BY DEF Inv, TypeOK
<1>4. x = Reads(context'[i])
  BY <1>2 DEF Reads
<1>. HIDE DEF i, new, S, x
<1>5. /\ Len(Texts(context)) = Len(context) /\ \A j \in DOMAIN context : Texts(context)[j] = Reads(context[j])
      /\ Texts(context) \in Seq(S)
  BY <1>3, TextsIs DEF S
<1>6. /\ Len(Texts(context')) = Len(context) /\ \A j \in DOMAIN context : Texts(context')[j] = Reads(context'[j])
      /\ Texts(context') \in Seq(S)
  BY <1>2, TextsIs DEF S
<1>7. /\ Len(ahead) = Len(context) + 1 /\ i \in 1..Len(context) /\ Len(context) \in Nat
      /\ \A j \in DOMAIN context : Texts(context)[j] = ahead[j]
  <2>0. Len(ahead) \in Nat /\ Len(ahead) >= 1
    BY <1>3
  <2>1. Len(Front(ahead)) = Len(ahead) - 1 /\ \A j \in 1..(Len(ahead) - 1) : Front(ahead)[j] = ahead[j]
    <3>. DEFINE n == Len(ahead) - 1
    <3>1. n \in Nat /\ n <= Len(ahead) /\ ahead \in Seq(S)
      BY <1>3, <2>0
    <3>2. Front(ahead) = SubSeq(ahead, 1, n)
      BY DEF Front
    <3>. HIDE DEF n
    <3>3. Len(SubSeq(ahead, 1, n)) = n
      BY <3>1
    <3>4. \A j \in 1..n : SubSeq(ahead, 1, n)[j] = ahead[j]
      BY <3>1
    <3>. QED BY <3>2, <3>3, <3>4 DEF n
  <2>2. DOMAIN context = 1..Len(context) /\ Len(context) \in Nat
    BY <1>3
  <2>3. Len(ahead) = Len(context) + 1
    BY <1>5, <2>0, <2>1, <2>2
  <2>4. \A j \in 1..Len(context) : Texts(context)[j] = ahead[j]
    BY <2>1, <2>2, <2>3
  <2>. QED BY <1>2, <2>2, <2>3, <2>4
<1>8. ahead[i] = Reads(context[i])
  BY <1>2, <1>5, <1>7
<1>9. ahead' = [ahead EXCEPT ![i] = x]
  BY <1>1, <1>7, <1>8 DEF AmendAhead, x
<1>10. x \in S
  BY <1>2, <1>4, ReadsIs DEF S
<1>11. /\ ahead' \in Seq(S) /\ Len(ahead') = Len(context) + 1
       /\ ahead'[i] = x /\ \A j \in 1..Len(context) : j # i => ahead'[j] = ahead[j]
  BY <1>3, <1>7, <1>9, <1>10
<1>12. Front(ahead') \in Seq(S) /\ Len(Front(ahead')) = Len(context)
       /\ \A j \in 1..Len(context) : Front(ahead')[j] = ahead'[j]
  BY <1>7, <1>11 DEF Front
<1>13. \A j \in 1..Len(context) : ahead'[j] = Texts(context')[j]
  <2>. SUFFICES ASSUME NEW j \in 1..Len(context) PROVE ahead'[j] = Texts(context')[j]
    OBVIOUS
  <2>0. j \in DOMAIN context
    BY <1>3
  <2>1. CASE j = i
    BY <1>2, <1>4, <1>6, <1>11, <2>1
  <2>2. CASE j # i
    BY <1>2, <1>5, <1>6, <1>7, <1>11, <2>0, <2>2
  <2>. QED BY <2>1, <2>2
<1>. QED BY <1>6, <1>7, <1>12, <1>13

-----------------------------------------------------------------------------
LEMMA InvHolds ==
  ASSUME Bounds
  PROVE  Spec => []Inv
BY StartIs, StepKeeps, PTL DEF Spec

(* Type correctness. *)
THEOREM TextTyped ==
  ASSUME Bounds
  PROVE  Spec => []TypeOK
<1>1. Inv => TypeOK
  BY DEF Inv
<1>. QED BY <1>1, InvHolds, PTL

(* However alike the turns' words, the final of one rewrites no message     *)
(* that was there before it and nothing has been folded into.               *)
THEOREM FinalsLeaveAnswers ==
  ASSUME Bounds
  PROVE  Spec => AnsweredStands
<1>1. Inv /\ [Next]_vars
        => [\A t \in Turns : fate[t] = "due" /\ fate'[t] = "corrected"
              => \A i \in DOMAIN context : context'[i] = context[i] \/ context[i].folded
                   \/ context[i].id \notin Range(SubSeq(recorded, 1, since[t]))]_vars
  BY StandsStep
<1>. QED BY <1>1, InvHolds, PTL DEF Spec, AnsweredStands

(* A final finds the words it corrects, where they are to be found.         *)
THEOREM FinalsFindTheirWords ==
  ASSUME Bounds
  PROVE  Spec => FinalIsPlaced
<1>1. Inv /\ [Next]_vars
        => [\A t \in Turns : fate[t] = "due" /\ fate'[t] = "unplaced"
              => \/ t \in taken
                 \/ \E u \in 1..(t - 1) : HadBy(u, t)
                 \/ (\E i \in DOMAIN context : t \in Of(i)) /\ ~\E i \in DOMAIN context : Holds(i, t)]_vars
  BY PlacedStep
<1>. QED BY <1>1, InvHolds, PTL DEF Spec, FinalIsPlaced

(* A correction loses no reply asked ahead.                                 *)
THEOREM FinalsKeepTheReplyAhead ==
  ASSUME Bounds
  PROVE  Spec => AheadStillFits
<1>1. Inv /\ [Next]_vars
        => [(\E t \in Turns : fate[t] = "due" /\ fate'[t] = "corrected") /\ ahead # <<>>
            => (Front(ahead) = Texts(context) => Front(ahead') = Texts(context'))]_vars
  BY FitsStep
<1>. QED BY <1>1, InvHolds, PTL DEF Spec, AheadStillFits
=============================================================================
