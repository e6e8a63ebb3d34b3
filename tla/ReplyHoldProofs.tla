--------------------------- MODULE ReplyHoldProofs ---------------------------
(***************************************************************************)
(* What holds of a reply that is held over the caller's words, for any     *)
(* number of utterances, tool calls and waits that run out: its states,    *)
(* the calls it is never left without a result for, and that what plays    *)
(* answers what was said.                                                  *)
(*                                                                         *)
(* Inv is inductive: HoldTyped the states of each part; HoldCalls where a  *)
(* call's frame and its result's may be; CountInv that a request is of     *)
(* words or of a result; FitInv that one reply at most is to come, and     *)
(* that it answers all that was said.                                      *)
(***************************************************************************)
EXTENDS ReplyHold, QueuesProofs

-----------------------------------------------------------------------------
(* The hold: calls, their results and the context.                          *)

(* A frame of a kind, of a reply, in a queue; a call in a context.           *)
Has(s, k, n) == \E i \in DOMAIN s : s[i].is = k /\ s[i].n = n
OpenIn(c, n) == \E i \in DOMAIN c : c[i].is = "call" /\ c[i].n = n /\ c[i].st = "open"

(* A call's frame, and its result's, is once in a queue, the call's first.   *)
OncePlaced(s) ==
  /\ \A i, j \in DOMAIN s :
       s[i].is \in {"call", "result"} /\ s[j].is = s[i].is /\ s[j].n = s[i].n => i = j
  /\ \A i, j \in DOMAIN s :
       s[i].is = "result" /\ s[j].is = "call" /\ s[j].n = s[i].n => j < i

LEMMA HasAppend ==
  ASSUME NEW T, NEW s \in Seq(T), NEW f \in T
  PROVE  \A k, n : Has(Append(s, f), k, n) <=> Has(s, k, n) \/ (f.is = k /\ f.n = n)
<1>. DEFINE a == Append(s, f)
<1>1. /\ DOMAIN a = DOMAIN s \cup {Len(s) + 1} /\ a[Len(s) + 1] = f
      /\ \A i \in DOMAIN s : a[i] = s[i]
  BY AppendIs
<1>. HIDE DEF a
<1>. QED BY <1>1 DEF Has, a

LEMMA HasTail ==
  ASSUME NEW T, NEW s \in Seq(T), s # <<>>
  PROVE  \A k, n : Has(s, k, n) <=> Has(Tail(s), k, n) \/ (Head(s).is = k /\ Head(s).n = n)
<1>. DEFINE t == Tail(s)
<1>1. /\ Head(s) = s[1] /\ 1 \in DOMAIN s
      /\ \A i \in DOMAIN t : i + 1 \in DOMAIN s /\ t[i] = s[i + 1]
      /\ \A i \in DOMAIN s : i # 1 => i - 1 \in DOMAIN t /\ t[i - 1] = s[i]
  BY TailIs
<1>. HIDE DEF t
<1>2. \A k, n : Has(t, k, n) => Has(s, k, n)
  BY <1>1 DEF Has
<1>3. \A k, n : Head(s).is = k /\ Head(s).n = n => Has(s, k, n)
  BY <1>1 DEF Has
<1>4. \A k, n : Has(s, k, n) => Has(t, k, n) \/ (Head(s).is = k /\ Head(s).n = n)
  <2>. SUFFICES ASSUME NEW k, NEW n, NEW i \in DOMAIN s, s[i].is = k, s[i].n = n
       PROVE  Has(t, k, n) \/ (Head(s).is = k /\ Head(s).n = n)
    BY DEF Has
  <2>. QED BY <1>1 DEF Has
<1>. QED BY <1>2, <1>3, <1>4 DEF t

LEMMA HasKept ==
  ASSUME NEW T, NEW s \in Seq(T)
  PROVE  /\ Kept(s) \in Seq(T)
         /\ \A k \in {"call", "result"} : \A n : Has(Kept(s), k, n) <=> Has(s, k, n)
         /\ OncePlaced(s) => OncePlaced(Kept(s))
         /\ \A i \in DOMAIN Kept(s) : Kept(s)[i].is \in {"call", "result", "end"}
                /\ \E j \in DOMAIN s : Kept(s)[i] = s[j]
         /\ \A k, n : Has(Kept(s), k, n) => Has(s, k, n)
<1>. DEFINE S == {f \in Range(s) : f.is \in {"call", "result", "end"}}
            r == Only(s, S)
<1>1. \A i \in DOMAIN s : s[i] \in S <=> s[i].is \in {"call", "result", "end"}
  BY DEF Range
<1>2. r = Kept(s)
  BY DEF Kept
<1>. HIDE DEF S
<1>3. r \in Seq(T)
  BY OnlyIs
<1>4. PICK p \in [DOMAIN r -> DOMAIN s] :
        /\ \A k \in DOMAIN r : r[k] = s[p[k]] /\ s[p[k]] \in S
        /\ \A k, l \in DOMAIN r : k < l => p[k] < p[l]
        /\ \A i \in DOMAIN s : s[i] \in S => \E k \in DOMAIN r : p[k] = i
  BY OnlyIs
<1>. HIDE DEF r
<1>5. \A i \in DOMAIN r : p[i] \in DOMAIN s /\ r[i] = s[p[i]] /\ r[i].is \in {"call", "result", "end"}
  BY <1>1, <1>4
<1>6. ASSUME NEW k \in {"call", "result"}, NEW n
      PROVE  Has(r, k, n) <=> Has(s, k, n)
  <2>1. Has(r, k, n) => Has(s, k, n)
    BY <1>5 DEF Has
  <2>2. ASSUME NEW i \in DOMAIN s, s[i].is = k, s[i].n = n PROVE Has(r, k, n)
    <3>1. s[i] \in S
      BY <2>2, <1>1
    <3>2. PICK l \in DOMAIN r : p[l] = i
      BY <3>1, <1>4
    <3>. QED BY <3>2, <1>5, <2>2 DEF Has
  <2>. QED BY <2>1, <2>2 DEF Has
<1>7. ASSUME OncePlaced(s) PROVE OncePlaced(r)
  <2>1. \A i, j \in DOMAIN r : i # j => p[i] # p[j]
    <3>1. \A i, j \in DOMAIN r : i \in Int /\ j \in Int /\ p[i] \in Int /\ p[j] \in Int
      BY <1>3, <1>5
    <3>2. \A i, j \in DOMAIN r : i # j => i < j \/ j < i
      BY <3>1
    <3>. QED BY <3>1, <3>2, <1>4
  <2>2. ASSUME NEW i \in DOMAIN r, NEW j \in DOMAIN r, r[i].is \in {"call", "result"},
               r[j].is = r[i].is, r[j].n = r[i].n
        PROVE  i = j
    BY <2>1, <2>2, <1>5, <1>7 DEF OncePlaced
  <2>3. ASSUME NEW i \in DOMAIN r, NEW j \in DOMAIN r, r[i].is = "result", r[j].is = "call", r[j].n = r[i].n
        PROVE  j < i
    <3>1. p[j] < p[i]
      BY <2>3, <1>5, <1>7 DEF OncePlaced
    <3>2. i \in Int /\ j \in Int /\ p[i] \in Int /\ p[j] \in Int
      BY <1>3, <1>5
    <3>3. ~(i < j)
      BY <1>4, <3>1, <3>2
    <3>4. i # j
      BY <2>3
    <3>. QED BY <3>2, <3>3, <3>4
  <2>. QED BY <2>2, <2>3 DEF OncePlaced
<1>8. \A k, n : Has(r, k, n) => Has(s, k, n)
  BY <1>5 DEF Has
<1>. QED BY <1>2, <1>3, <1>5, <1>6, <1>7, <1>8, Zenon

LEMMA OnceAppend ==
  ASSUME NEW T, NEW s \in Seq(T), NEW f \in T, OncePlaced(s),
         f.is \in {"call", "result"} => ~Has(s, f.is, f.n),
         f.is = "call" => ~Has(s, "result", f.n)
  PROVE  OncePlaced(Append(s, f))
<1>. DEFINE a == Append(s, f)
<1>1. /\ DOMAIN a = DOMAIN s \cup {Len(s) + 1} /\ a[Len(s) + 1] = f /\ Len(s) \in Nat
      /\ \A i \in DOMAIN s : a[i] = s[i] /\ i <= Len(s) /\ i \in Nat
  BY AppendIs
<1>. HIDE DEF a
<1>2. ASSUME NEW i \in DOMAIN a, NEW j \in DOMAIN a, a[i].is \in {"call", "result"},
             a[j].is = a[i].is, a[j].n = a[i].n
      PROVE  i = j
  BY <1>1, <1>2 DEF OncePlaced, Has
<1>3. ASSUME NEW i \in DOMAIN a, NEW j \in DOMAIN a, a[i].is = "result", a[j].is = "call", a[j].n = a[i].n
      PROVE  j < i
  BY <1>1, <1>3 DEF OncePlaced, Has
<1>. QED BY <1>2, <1>3 DEF OncePlaced, a

LEMMA OnceTail ==
  ASSUME NEW T, NEW s \in Seq(T), s # <<>>, OncePlaced(s)
  PROVE  /\ OncePlaced(Tail(s))
         /\ Head(s).is \in {"call", "result"} => ~Has(Tail(s), Head(s).is, Head(s).n)
         /\ Head(s).is = "result" => ~Has(Tail(s), "call", Head(s).n)
<1>. DEFINE t == Tail(s)
            h == Head(s)
<1>1. h = s[1] /\ 1 \in DOMAIN s /\ \A i \in DOMAIN t : i \in Nat /\ i # 0 /\ i + 1 \in DOMAIN s /\ t[i] = s[i + 1]
  BY TailIs
<1>. HIDE DEF t, h
<1>2. ASSUME NEW i \in DOMAIN t, NEW j \in DOMAIN t, t[i].is \in {"call", "result"},
             t[j].is = t[i].is, t[j].n = t[i].n
      PROVE  i = j
  <2>1. i + 1 = j + 1
    BY <1>1, <1>2 DEF OncePlaced
  <2>. QED BY <2>1, <1>1
<1>3. ASSUME NEW i \in DOMAIN t, NEW j \in DOMAIN t, t[i].is = "result", t[j].is = "call", t[j].n = t[i].n
      PROVE  j < i
  <2>1. j + 1 < i + 1
    BY <1>1, <1>3 DEF OncePlaced
  <2>. QED BY <2>1, <1>1
<1>4. ASSUME h.is \in {"call", "result"}, NEW i \in DOMAIN t, t[i].is = h.is, t[i].n = h.n PROVE FALSE
  <2>1. i + 1 = 1
    BY <1>1, <1>4 DEF OncePlaced
  <2>. QED BY <2>1, <1>1
<1>5. ASSUME h.is = "result", NEW i \in DOMAIN t, t[i].is = "call", t[i].n = h.n PROVE FALSE
  <2>1. i + 1 < 1
    BY <1>1, <1>5 DEF OncePlaced
  <2>. QED BY <2>1, <1>1
<1>. QED BY <1>2, <1>3, <1>4, <1>5 DEF OncePlaced, Has, t, h

(* What the hold's queues and its context are made of. *)
Numbers == 0..(MaxSaid + MaxRare)
QFrames == [is : {"audio", "over", "call", "result", "end"}, n : Numbers, drops : Nat]
OutFrames ==
  {f \in [is : {"audio", "call", "result", "end"}, n : Numbers, asks : BOOLEAN] : f.asks => f.is = "result"}
Turns == [is : {"user"}, says : SUBSET Words]
Rounds == [is : {"call"}, n : Replies, st : {"open", "done", "cancelled"}]
Heard == [is : {"audio"}, n : Numbers, asks : BOOLEAN]
Messages == Turns \cup Rounds \cup Heard
CutFrames == [at : {"llm", "gate", "out"}, known : BOOLEAN, by : 0..MaxSaid]

LEMMA MarkedIs ==
  ASSUME NEW c \in Seq(Messages), NEW n, NEW st \in {"done", "cancelled"}
  PROVE  /\ Marked(c, n, st) \in Seq(Messages) /\ Len(Marked(c, n, st)) = Len(c)
         /\ DOMAIN Marked(c, n, st) = DOMAIN c
         /\ \A i \in DOMAIN c : /\ Marked(c, n, st)[i].is = c[i].is
                                /\ c[i].is # "call" => Marked(c, n, st)[i] = c[i]
         /\ \A k : Has(Marked(c, n, st), "call", k) <=> Has(c, "call", k)
         /\ \A k : OpenIn(Marked(c, n, st), k) <=> OpenIn(c, k) /\ k # n
<1>. DEFINE m == Marked(c, n, st)
<1>1. Len(c) \in Nat /\ DOMAIN c = 1..Len(c) /\ \A i \in DOMAIN c : c[i] \in Messages
  OBVIOUS
<1>2. \A i \in DOMAIN c : m[i] = IF c[i].is = "call" /\ c[i].n = n THEN [c[i] EXCEPT !.st = st] ELSE c[i]
  BY DEF Marked
<1>3. DOMAIN m = DOMAIN c
  BY DEF Marked
<1>4. \A r \in Rounds : /\ [r EXCEPT !.st = st] \in Rounds /\ [r EXCEPT !.st = st].is = "call"
                        /\ [r EXCEPT !.st = st].n = r.n /\ [r EXCEPT !.st = st].st = st
  BY DEF Rounds
<1>5. \A x \in Messages : x.is = "call" => x \in Rounds
  BY DEF Messages, Turns, Rounds, Heard
<1>6. \A i \in DOMAIN c :
        /\ m[i] \in Messages /\ m[i].is = c[i].is /\ (c[i].is # "call" => m[i] = c[i])
        /\ c[i].is = "call" => m[i].n = c[i].n /\ (m[i].st = "open" <=> c[i].st = "open" /\ c[i].n # n)
  <2>. TAKE i \in DOMAIN c
  <2>1. CASE c[i].is = "call" /\ c[i].n = n
    <3>1. c[i] \in Rounds /\ m[i] = [c[i] EXCEPT !.st = st]
      BY <1>1, <1>2, <1>5, <2>1
    <3>2. m[i] \in Rounds /\ m[i].is = "call" /\ m[i].n = c[i].n /\ m[i].st = st
      BY <3>1, <1>4, Zenon
    <3>. QED BY <3>2, <2>1 DEF Messages
  <2>2. CASE ~(c[i].is = "call" /\ c[i].n = n)
    BY <1>1, <1>2, <2>2
  <2>. QED BY <2>1, <2>2
<1>7. m = [i \in 1..Len(c) |-> m[i]]
  BY <1>1 DEF Marked
<1>. HIDE DEF m
<1>8. m \in Seq(Messages) /\ Len(m) = Len(c)
  <2>1. m \in [1..Len(c) -> Messages]
    BY <1>7, <1>6, <1>1
  <2>. QED BY <2>1, <1>1
<1>9. \A k : Has(m, "call", k) <=> Has(c, "call", k)
  BY <1>3, <1>6 DEF Has
<1>10. \A k : OpenIn(m, k) <=> OpenIn(c, k) /\ k # n
  BY <1>3, <1>6 DEF OpenIn
<1>. QED BY <1>3, <1>6, <1>8, <1>9, <1>10 DEF m

LEMMA OpenAppend ==
  ASSUME NEW c \in Seq(Messages), NEW m \in Messages
  PROVE  \A k : OpenIn(Append(c, m), k) <=> OpenIn(c, k) \/ (m.is = "call" /\ m.n = k /\ m.st = "open")
<1>. DEFINE a == Append(c, m)
<1>1. /\ DOMAIN a = DOMAIN c \cup {Len(c) + 1} /\ a[Len(c) + 1] = m
      /\ \A i \in DOMAIN c : a[i] = c[i]
  BY AppendIs
<1>. HIDE DEF a
<1>. QED BY <1>1 DEF OpenIn, a

(* What of a queue is heard is committed as it was queued. *)
LEMMA SoundsAre ==
  ASSUME NEW s \in Seq(OutFrames), NEW c \in Seq(Messages)
  PROVE  /\ c \o Sounds(s) \in Seq(Messages) /\ Len(c \o Sounds(s)) >= Len(c)
         /\ \A i \in DOMAIN c : i \in DOMAIN (c \o Sounds(s)) /\ (c \o Sounds(s))[i] = c[i]
         /\ \A i \in DOMAIN (c \o Sounds(s)) : i \notin DOMAIN c => (c \o Sounds(s))[i].is = "audio"
         /\ \A k : Has(c \o Sounds(s), "call", k) <=> Has(c, "call", k)
         /\ \A k : OpenIn(c \o Sounds(s), k) <=> OpenIn(c, k)
<1>. DEFINE S == {f \in Range(s) : f.is = "audio"}
            r == Only(s, S)
<1>1. r = Sounds(s)
  BY DEF Sounds
<1>2. \A f \in S : f \in Heard
  <2>1. \A f \in OutFrames : f.is = "audio" => f \in Heard
    BY DEF OutFrames, Heard
  <2>2. \A f \in Range(s) : f \in OutFrames
    BY DEF Range
  <2>. QED BY <2>1, <2>2
<1>3. \A f \in S : f.is = "audio"
  OBVIOUS
<1>. HIDE DEF S
<1>4. r \in Seq(OutFrames) /\ \A k \in DOMAIN r : r[k] \in S
  BY OnlyIs
<1>. HIDE DEF r
<1>5. r \in Seq(Messages)
  <2>1. \A k \in DOMAIN r : r[k] \in Messages
    BY <1>2, <1>4 DEF Messages
  <2>2. Len(r) \in Nat /\ r \in [1..Len(r) -> Messages]
    BY <1>4, <2>1
  <2>. QED BY <2>2
<1>. DEFINE z == c \o r
<1>6. /\ z \in Seq(Messages) /\ Len(z) = Len(c) + Len(r) /\ Len(c) \in Nat /\ Len(r) \in Nat
      /\ \A i \in DOMAIN c : i \in DOMAIN z /\ z[i] = c[i]
      /\ \A i \in DOMAIN z : i \in DOMAIN c \/ (i - Len(c) \in DOMAIN r /\ z[i] = r[i - Len(c)])
  BY <1>5, CatIs
<1>. HIDE DEF z
<1>7. \A i \in DOMAIN z : i \notin DOMAIN c => z[i].is = "audio"
  BY <1>3, <1>4, <1>6
<1>8. \A k : Has(z, "call", k) <=> Has(c, "call", k)
  BY <1>6, <1>7 DEF Has
<1>9. \A k : OpenIn(z, k) <=> OpenIn(c, k)
  BY <1>6, <1>7 DEF OpenIn
<1>. QED BY <1>1, <1>6, <1>7, <1>8, <1>9 DEF z

(* What is folded is the context up to the turn that goes on, with its new words. *)
LEMMA FoldedIs ==
  ASSUME ctx \in Seq(Messages), lastUser \in 1..Len(ctx), User(ctx[lastUser]), lastUser < Len(ctx),
         User(ctx[Len(ctx)])
  PROVE  /\ Folded \in Seq(Messages) /\ Len(Folded) = lastUser /\ DOMAIN Folded = 1..lastUser
         /\ \A i \in 1..lastUser : i \in DOMAIN ctx /\ i # lastUser => Folded[i] = ctx[i]
         /\ Folded[lastUser].is = "user" /\ Folded[lastUser] \in Turns
         /\ Folded[lastUser].says = ctx[lastUser].says \cup ctx[Len(ctx)].says
         /\ \A k : Has(Folded, "call", k) => Has(ctx, "call", k)
         /\ \A k : OpenIn(Folded, k) => OpenIn(ctx, k)
<1>. DEFINE c == SubSeq(ctx, 1, lastUser)
            w == ctx[Len(ctx)].says
<1>1. c \in Seq(Messages) /\ Len(c) = lastUser /\ DOMAIN c = 1..lastUser /\ \A i \in 1..lastUser : c[i] = ctx[i]
  OBVIOUS
<1>2. \A x \in Messages : x.is = "user" => x \in Turns
  BY DEF Messages, Turns, Rounds, Heard
<1>3. ctx[lastUser] \in Turns /\ ctx[Len(ctx)] \in Turns
  BY <1>2 DEF User
<1>4. \A x \in Turns, v \in SUBSET Words :
        /\ [x EXCEPT !.says = x.says \cup v] \in Turns
        /\ [x EXCEPT !.says = x.says \cup v].is = "user"
        /\ [x EXCEPT !.says = x.says \cup v].says = x.says \cup v
  BY DEF Turns
<1>5. w \in SUBSET Words
  BY <1>3 DEF Turns
<1>6. Folded = [c EXCEPT ![lastUser].says = @ \cup w]
  BY DEF Folded
<1>. HIDE DEF c, w
<1>7. /\ DOMAIN Folded = 1..lastUser
      /\ \A i \in 1..lastUser : i \in DOMAIN ctx /\ (i # lastUser => Folded[i] = ctx[i])
      /\ Folded[lastUser] = [ctx[lastUser] EXCEPT !.says = ctx[lastUser].says \cup w]
  <2>1. Folded = [c EXCEPT ![lastUser] = [ctx[lastUser] EXCEPT !.says = ctx[lastUser].says \cup w]]
    BY <1>1, <1>6
  <2>2. DOMAIN c = 1..lastUser /\ lastUser \in 1..lastUser
    BY <1>1
  <2>3. \A i \in 1..lastUser : i \in DOMAIN ctx
    OBVIOUS
  <2>. QED BY <2>1, <2>2, <2>3, <1>1
<1>8. Folded[lastUser] \in Turns /\ Folded[lastUser].is = "user"
      /\ Folded[lastUser].says = ctx[lastUser].says \cup w
  <2>. DEFINE y == [ctx[lastUser] EXCEPT !.says = ctx[lastUser].says \cup w]
  <2>1. y \in Turns /\ y.is = "user" /\ y.says = ctx[lastUser].says \cup w
    BY <1>3, <1>4, <1>5
  <2>2. Folded[lastUser] = y
    BY <1>7
  <2>. HIDE DEF y
  <2>. QED BY <2>1, <2>2
<1>9. Folded \in Seq(Messages) /\ Len(Folded) = lastUser
  <2>1. \A i \in 1..lastUser : Folded[i] \in Messages
    BY <1>7, <1>8 DEF Messages
  <2>2. Folded = [i \in 1..lastUser |-> Folded[i]]
    BY <1>1, <1>6, <1>7
  <2>3. Folded \in [1..lastUser -> Messages]
    BY <2>1, <2>2
  <2>. QED BY <2>3
<1>10. \A k : Has(Folded, "call", k) => Has(ctx, "call", k)
  BY <1>7, <1>8 DEF Has
<1>11. \A k : OpenIn(Folded, k) => OpenIn(ctx, k)
  BY <1>7, <1>8 DEF OpenIn
<1>. QED BY <1>7, <1>8, <1>9, <1>10, <1>11 DEF w

(* Every part of the hold keeps to its states. *)
TalkTyped ==
  /\ said \in 0..MaxSaid /\ line \in {"quiet", "onset", "vad"}
  /\ worded \in SUBSET (1..said) /\ agg \in SUBSET worded
  /\ open \in BOOLEAN /\ commit \in {"no", "waits", "drops"}
  /\ cuts \in Seq(CutFrames) /\ timeouts \in 0..MaxRare
CtxTyped ==
  /\ ctx \in Seq(Messages) /\ lastUser \in 0..Len(ctx) /\ merge \in BOOLEAN
  /\ lastUser # 0 => User(ctx[lastUser])
LlmTyped ==
  /\ asked \in SUBSET {"commit", "turn", "result"}
  /\ replies \in Numbers /\ writing \in 0..replies
  /\ answers \in [Replies -> SUBSET Words]
  /\ call \in [Replies -> {"no", "running", "reported", "cancelled"}]
GateTyped ==
  /\ q \in Seq(QFrames) /\ drops \in Nat /\ droppedCalls \in SUBSET Replies
  /\ armed \in BOOLEAN /\ tool_call \in BOOLEAN /\ holding \in BOOLEAN
  /\ ending \in BOOLEAN /\ discard_to_end \in BOOLEAN /\ capped \in BOOLEAN
OutTyped ==
  /\ out \in Seq(OutFrames) /\ overtaken \in SUBSET Replies
  /\ played \in SUBSET (1..replies) /\ settled \in SUBSET Numbers /\ over \in BOOLEAN
HoldTyped == TalkTyped /\ CtxTyped /\ LlmTyped /\ GateTyped /\ OutTyped

(* Frames are of replies that were asked, and the frame of a call, like the one *)
(* of its result, is in one place, the result's behind.                         *)
FramesAsked ==
  \A k \in {"audio", "over", "call", "result"}, n \in Numbers :
     Has(q, k, n) \/ Has(out, k, n) => n \in 1..replies
FramesInv ==
  /\ OncePlaced(q) /\ OncePlaced(out)
  /\ \A n \in Replies :
       /\ ~(Has(q, "call", n) /\ Has(out, "call", n))
       /\ ~(Has(q, "result", n) /\ Has(out, "result", n))
       /\ ~(Has(q, "call", n) /\ Has(out, "result", n))
       /\ Has(q, "call", n) \/ Has(out, "call", n) => n \notin droppedCalls
       /\ Has(q, "call", n) \/ Has(out, "call", n) \/ n \in droppedCalls => ~Has(ctx, "call", n)

(* What becomes of a call: a result on its way while it is open, or its cancel. *)
CallWell(n) ==
  /\ n > replies => call[n] = "no"
  /\ call[n] = "no" => ~Has(q, "call", n) /\ ~Has(out, "call", n) /\ ~Has(ctx, "call", n) /\ n \notin droppedCalls
  /\ Has(q, "result", n) \/ Has(out, "result", n) => call[n] = "reported"
  /\ call[n] = "reported" /\ (Has(q, "call", n) \/ Has(out, "call", n) \/ OpenIn(ctx, n))
       => Has(q, "result", n) \/ Has(out, "result", n)
  /\ call[n] = "cancelled" =>
       /\ Has(q, "call", n) \/ Has(out, "call", n) => n \in overtaken
       /\ ~OpenIn(ctx, n)
CallsInv ==
  /\ writing # 0 => call[writing] = "no"
  /\ \A n \in Replies : CallWell(n)
HoldCalls == FramesAsked /\ FramesInv /\ CallsInv

(* A request is of words committed, or of a result that was let by. *)
Answered == {n \in Replies : call[n] = "reported" /\ ~Has(q, "result", n) /\ ~Has(out, "result", n)}
Called == {n \in Replies : call[n] # "no"}
CountInv ==
  /\ replies + Cardinality(asked) <= Cardinality(worded \ agg) + Cardinality(Answered)
  /\ timeouts + Cardinality(Called) <= MaxRare
  /\ commit # "no" => open /\ agg # {}
  /\ ending => ~holding

callVars == <<q, out, ctx, call, droppedCalls, overtaken, replies, writing>>

(* Calls keep their frames when nothing of theirs moves. *)
LEMMA CallsUnmoved ==
  ASSUME HoldCalls, UNCHANGED callVars
  PROVE  HoldCalls'
BY DEF HoldCalls, FramesAsked, FramesInv, CallsInv, CallWell, callVars

(* A committed turn is behind the calls, and a folded one takes no call with it but cancelled ones. *)
LEMMA CallsUnderTurns ==
  ASSUME HoldCalls, UNCHANGED <<q, out, call, droppedCalls, overtaken, replies, writing>>,
         \A n : Has(ctx', "call", n) => Has(ctx, "call", n),
         \A n : OpenIn(ctx', n) => OpenIn(ctx, n)
  PROVE  HoldCalls'
<1>1. FramesAsked'
  BY DEF HoldCalls, FramesAsked
<1>2. FramesInv'
  BY DEF HoldCalls, FramesInv
<1>3. CallsInv'
  BY DEF HoldCalls, CallsInv, CallWell
<1>. QED BY <1>1, <1>2, <1>3 DEF HoldCalls

(* The bound on replies leaves room for every one that is asked. *)
LEMMA RoomToAsk ==
  ASSUME MaxSaid \in Nat, MaxRare \in Nat, HoldTyped, CountInv, asked # {}
  PROVE  replies + 1 \in Replies
<1>1. IsFiniteSet(1..MaxSaid) /\ Cardinality(1..MaxSaid) = MaxSaid
  BY FS_Interval
<1>2. worded \ agg \in SUBSET (1..MaxSaid)
  BY DEF HoldTyped, TalkTyped
<1>3. Cardinality(worded \ agg) <= MaxSaid /\ Cardinality(worded \ agg) \in Nat
  BY <1>1, <1>2, FS_Subset, FS_CardinalityType
<1>4. IsFiniteSet(Called) /\ Cardinality(Called) \in Nat
  <2>1. IsFiniteSet(1..(MaxSaid + MaxRare))
    BY FS_Interval
  <2>2. Called \in SUBSET (1..(MaxSaid + MaxRare))
    BY DEF Called, Replies
  <2>. QED BY <2>1, <2>2, FS_Subset, FS_CardinalityType
<1>5. Cardinality(Answered) <= Cardinality(Called) /\ Cardinality(Answered) \in Nat
  <2>1. Answered \in SUBSET Called
    BY DEF Answered, Called
  <2>. QED BY <2>1, <1>4, FS_Subset, FS_CardinalityType
<1>6. Cardinality(asked) \in Nat /\ Cardinality(asked) # 0
  <2>1. IsFiniteSet({"commit", "turn", "result"})
    <3>1. IsFiniteSet({} \cup {"commit"})
      BY FS_AddElement, FS_EmptySet
    <3>2. IsFiniteSet(({} \cup {"commit"}) \cup {"turn"})
      BY <3>1, FS_AddElement
    <3>3. IsFiniteSet((({} \cup {"commit"}) \cup {"turn"}) \cup {"result"})
      BY <3>2, FS_AddElement
    <3>4. (({} \cup {"commit"}) \cup {"turn"}) \cup {"result"} = {"commit", "turn", "result"}
      OBVIOUS
    <3>. QED BY <3>3, <3>4
  <2>2. IsFiniteSet(asked)
    BY <2>1, FS_Subset DEF HoldTyped, LlmTyped
  <2>. QED BY <2>2, FS_EmptySet, FS_CardinalityType
<1>7. replies \in Nat /\ timeouts \in Nat
  BY DEF HoldTyped, LlmTyped, TalkTyped, Numbers
<1>8. replies + Cardinality(asked) <= Cardinality(worded \ agg) + Cardinality(Answered)
      /\ timeouts + Cardinality(Called) <= MaxRare
  BY DEF CountInv
<1>9. replies + 1 <= MaxSaid + MaxRare
  BY <1>3, <1>4, <1>5, <1>6, <1>7, <1>8
<1>. QED BY <1>7, <1>9 DEF Replies

LEMMA CallsOnAsk ==
  ASSUME MaxSaid \in Nat, MaxRare \in Nat, HoldTyped, CountInv, HoldCalls, NEW who, Asks(who)
  PROVE  HoldCalls'
<1>1. replies + 1 \in Replies /\ replies \in Nat
  BY RoomToAsk DEF Asks, HoldTyped, LlmTyped, Numbers
<1>2. /\ replies' = replies + 1 /\ writing' = replies + 1
      /\ UNCHANGED <<q, out, ctx, call, droppedCalls, overtaken>>
  BY DEF Asks, ctxVars, gateVars, outVars
<1>3. FramesAsked'
  BY <1>1, <1>2 DEF HoldCalls, FramesAsked
<1>4. FramesInv'
  BY <1>2 DEF HoldCalls, FramesInv
<1>5. \A n \in Replies : n \in Int
  BY DEF Replies
<1>6. CallsInv'
  <2>1. call[replies + 1] = "no"
    BY <1>1 DEF HoldCalls, CallsInv, CallWell
  <2>2. \A n \in Replies : n > replies + 1 => n > replies
    BY <1>1, <1>5
  <2>. QED BY <1>1, <1>2, <2>1, <2>2 DEF HoldCalls, CallsInv, CallWell
<1>. QED BY <1>3, <1>4, <1>6 DEF HoldCalls

LEMMA CallsOnWrite ==
  ASSUME MaxSaid \in Nat, MaxRare \in Nat, HoldTyped, HoldCalls, Writes
  PROVE  HoldCalls'
<1>. DEFINE w == writing
<1>1. /\ w \in Replies /\ w \in 1..replies /\ w \in Numbers /\ writing' = 0 /\ call[w] = "no" /\ w # 0
      /\ UNCHANGED <<out, ctx, droppedCalls, overtaken, replies>>
  BY DEF Writes, HoldTyped, LlmTyped, Replies, Numbers, HoldCalls, CallsInv, CallWell,
     ctxVars, outVars
<1>2. /\ ~Has(q, "call", w) /\ ~Has(out, "call", w) /\ ~Has(ctx, "call", w)
      /\ ~Has(q, "result", w) /\ ~Has(out, "result", w)
      /\ w \notin droppedCalls
  BY <1>1 DEF HoldCalls, CallsInv, CallWell
<1>3. q \in Seq(QFrames) /\ \A k \in {"audio", "over", "call", "result", "end"} :
        Frame(k, w) \in QFrames /\ Frame(k, w).is = k /\ Frame(k, w).n = w
  BY <1>1 DEF Frame, QFrames, HoldTyped, GateTyped
<1>4. ASSUME NEW k \in {"audio", "over"}, q' = Append(q, Frame(k, w)), UNCHANGED call
      PROVE  HoldCalls'
  <2>1. \A l, n : Has(q', l, n) <=> Has(q, l, n) \/ (l = k /\ n = w)
    BY <1>3, <1>4, HasAppend
  <2>2. OncePlaced(q) => OncePlaced(q')
    BY <1>3, <1>4, OnceAppend
  <2>3. FramesAsked'
    BY <2>1, <1>1 DEF HoldCalls, FramesAsked
  <2>4. FramesInv'
    BY <2>1, <2>2, <1>1, <1>4 DEF HoldCalls, FramesInv
  <2>5. CallsInv'
    BY <2>1, <1>1, <1>4 DEF HoldCalls, CallsInv, CallWell
  <2>. QED BY <2>3, <2>4, <2>5 DEF HoldCalls
<1>5. ASSUME call' = [call EXCEPT ![writing] = "running"],
             q' = q \o <<Frame("call", writing), Frame("over", writing)>>
      PROVE  HoldCalls'
  <2>. DEFINE a == Append(q, Frame("call", w))
  <2>1. q' = Append(a, Frame("over", w)) /\ a \in Seq(QFrames)
    BY <1>3, <1>5
  <2>2. \A l, n : Has(a, l, n) <=> Has(q, l, n) \/ (l = "call" /\ n = w)
    BY <1>3, HasAppend
  <2>3. OncePlaced(q) => OncePlaced(a)
    BY <1>2, <1>3, OnceAppend
  <2>. HIDE DEF a
  <2>4. \A l, n : Has(q', l, n) <=> Has(a, l, n) \/ (l = "over" /\ n = w)
    BY <1>3, <2>1, HasAppend
  <2>5. OncePlaced(a) => OncePlaced(q')
    BY <1>3, <2>1, OnceAppend
  <2>6. \A n \in Replies : call'[n] = IF n = w THEN "running" ELSE call[n]
    BY <1>5 DEF HoldTyped, LlmTyped
  <2>7. \A l, n : Has(q', l, n) <=> Has(q, l, n) \/ (l \in {"call", "over"} /\ n = w)
    BY <2>2, <2>4
  <2>8. FramesAsked'
    BY <2>7, <1>1 DEF HoldCalls, FramesAsked
  <2>9. FramesInv'
    BY <2>3, <2>5, <2>7, <1>1, <1>2 DEF HoldCalls, FramesInv
  <2>10. CallsInv'
    <3>1. writing' = 0
      BY <1>1
    <3>2. ~(w > replies)
      BY <1>1 DEF HoldTyped, LlmTyped, Numbers
    <3>3. \A n \in Replies : n # w => call'[n] = call[n]
      BY <2>6
    <3>4. call'[w] = "running"
      BY <2>6, <1>1
    <3>5. UNCHANGED <<out, ctx, droppedCalls, overtaken, replies>>
      BY <1>1
    <3>6. ASSUME NEW n \in Replies PROVE CallWell(n)'
      <4>1. CASE n = w
        BY <4>1, <2>7, <1>2, <3>2, <3>4, <3>5 DEF HoldCalls, CallsInv, CallWell
      <4>2. CASE n # w
        BY <4>2, <2>7, <3>3, <3>5 DEF HoldCalls, CallsInv, CallWell
      <4>. QED BY <4>1, <4>2
    <3>. QED BY <3>1, <3>6 DEF CallsInv
  <2>. QED BY <2>8, <2>9, <2>10 DEF HoldCalls
<1>. QED BY <1>4, <1>5 DEF Writes

LEMMA CallsOnResult ==
  ASSUME MaxSaid \in Nat, MaxRare \in Nat, HoldTyped, HoldCalls, NEW n \in Replies, ToolEnds(n)
  PROVE  HoldCalls'
<1>1. /\ call[n] = "running" /\ q' = Append(q, Frame("result", n)) /\ n \in Numbers
      /\ UNCHANGED <<out, ctx, droppedCalls, overtaken, replies, writing>>
  BY DEF ToolEnds, ctxVars, outVars, llmVars, Replies, Numbers
<1>2. \A m \in Replies : call'[m] = IF m = n THEN "reported" ELSE call[m]
  BY DEF ToolEnds, HoldTyped, LlmTyped
<1>3. q \in Seq(QFrames) /\ Frame("result", n) \in QFrames /\ Frame("result", n).is = "result"
      /\ Frame("result", n).n = n
  BY <1>1 DEF Frame, QFrames, HoldTyped, GateTyped
<1>4. ~Has(q, "result", n) /\ ~Has(out, "result", n) /\ n <= replies
  BY <1>1 DEF HoldCalls, CallsInv, CallWell, HoldTyped, LlmTyped, Numbers, Replies
<1>5. \A l, m : Has(q', l, m) <=> Has(q, l, m) \/ (l = "result" /\ m = n)
  BY <1>1, <1>3, HasAppend
<1>6. OncePlaced(q')
  BY <1>1, <1>3, <1>4, OnceAppend DEF HoldCalls, FramesInv
<1>7. FramesAsked'
  <2>1. n \in 1..replies
    BY <1>4 DEF HoldTyped, LlmTyped, Numbers, Replies
  <2>. QED BY <2>1, <1>1, <1>5 DEF HoldCalls, FramesAsked
<1>8. FramesInv'
  BY <1>1, <1>4, <1>5, <1>6 DEF HoldCalls, FramesInv
<1>9. CallsInv'
  <2>1. ASSUME NEW m \in Replies PROVE CallWell(m)'
    <3>1. CASE m = n
      <4>1. ~(n > replies)
        BY <1>4 DEF HoldTyped, LlmTyped, Numbers, Replies
      <4>. QED BY <4>1, <3>1, <1>1, <1>2, <1>5 DEF HoldCalls, CallsInv, CallWell
    <3>2. CASE m # n
      BY <3>2, <1>1, <1>2, <1>5 DEF HoldCalls, CallsInv, CallWell
    <3>. QED BY <3>1, <3>2
  <2>2. writing # 0 => writing \in Replies
    BY DEF HoldTyped, LlmTyped, Numbers, Replies
  <2>. QED BY <2>1, <2>2, <1>1, <1>2 DEF HoldCalls, CallsInv
<1>. QED BY <1>7, <1>8, <1>9 DEF HoldCalls

LEMMA CallsOnCutAtLlm ==
  ASSUME HoldTyped, HoldCalls, NEW i, CutAtLlm(i)
  PROVE  HoldCalls'
<1>1. UNCHANGED <<q, out, droppedCalls, replies>> /\ writing' = 0
  BY DEF CutAtLlm, gateVars
<1>2. CASE UNCHANGED <<call, ctx, overtaken>>
  BY <1>1, <1>2 DEF HoldCalls, FramesAsked, FramesInv, CallsInv, CallWell
<1>3. ASSUME NEW n \in Replies, call[n] = "running", call' = [call EXCEPT ![n] = "cancelled"],
             IF InCtx(n) THEN ctx' = Marked(ctx, n, "cancelled") /\ UNCHANGED overtaken
             ELSE overtaken' = overtaken \cup {n} /\ UNCHANGED ctx
      PROVE  HoldCalls'
  <2>1. \A m \in Replies : call'[m] = IF m = n THEN "cancelled" ELSE call[m]
    BY <1>3 DEF HoldTyped, LlmTyped
  <2>2. /\ \A m : Has(ctx', "call", m) <=> Has(ctx, "call", m)
        /\ \A m : OpenIn(ctx', m) => OpenIn(ctx, m)
        /\ ~OpenIn(ctx', n)
        /\ Has(q, "call", n) \/ Has(out, "call", n) => n \in overtaken'
        /\ \A m : m \in overtaken => m \in overtaken'
    <3>1. CASE InCtx(n)
      <4>1. ctx \in Seq(Messages) /\ ctx' = Marked(ctx, n, "cancelled") /\ overtaken' = overtaken
        BY <3>1, <1>3 DEF HoldTyped, CtxTyped
      <4>2. Has(ctx, "call", n)
        BY <3>1 DEF InCtx, Has
      <4>3. ~Has(q, "call", n) /\ ~Has(out, "call", n)
        BY <4>2 DEF HoldCalls, FramesInv
      <4>. QED BY <4>1, <4>3, MarkedIs
    <3>2. CASE ~InCtx(n)
      BY <3>2, <1>3 DEF InCtx, OpenIn
    <3>. QED BY <3>1, <3>2
  <2>3. FramesAsked'
    BY <1>1 DEF HoldCalls, FramesAsked
  <2>4. FramesInv'
    BY <1>1, <2>2 DEF HoldCalls, FramesInv
  <2>5. ASSUME NEW m \in Replies PROVE CallWell(m)'
    <3>1. CASE m = n
      BY <3>1, <1>1, <1>3, <2>1, <2>2 DEF HoldCalls, CallsInv, CallWell
    <3>2. CASE m # n
      BY <3>2, <1>1, <2>1, <2>2 DEF HoldCalls, CallsInv, CallWell
    <3>. QED BY <3>1, <3>2
  <2>. QED BY <1>1, <2>3, <2>4, <2>5 DEF HoldCalls, CallsInv
<1>. QED BY <1>2, <1>3 DEF CutAtLlm

LEMMA CallsOnCutAtGate ==
  ASSUME HoldTyped, HoldCalls, NEW i, CutAtGate(i)
  PROVE  HoldCalls'
<1>1. UNCHANGED <<out, ctx, call, droppedCalls, overtaken, replies, writing>> /\ q' = Kept(q)
      /\ q \in Seq(QFrames)
  BY DEF CutAtGate, llmVars, outVars, HoldTyped, GateTyped
<1>2. /\ \A k \in {"call", "result"} : \A n : Has(q', k, n) <=> Has(q, k, n)
      /\ \A k, n : Has(q', k, n) => Has(q, k, n)
      /\ OncePlaced(q) => OncePlaced(q')
  BY <1>1, HasKept
<1>3. FramesAsked'
  BY <1>1, <1>2 DEF HoldCalls, FramesAsked
<1>4. FramesInv'
  BY <1>1, <1>2 DEF HoldCalls, FramesInv
<1>5. CallsInv'
  BY <1>1, <1>2 DEF HoldCalls, CallsInv, CallWell
<1>. QED BY <1>3, <1>4, <1>5 DEF HoldCalls

LEMMA CallsOnCutAtOut ==
  ASSUME HoldTyped, HoldCalls, NEW i, CutAtOut(i)
  PROVE  HoldCalls'
<1>1. /\ UNCHANGED <<q, call, droppedCalls, overtaken, replies, writing>> /\ out' = Kept(out)
      /\ out \in Seq(OutFrames) /\ ctx \in Seq(Messages) /\ ctx' = ctx \o Sounds(out)
  BY DEF CutAtOut, llmVars, gateVars, HoldTyped, OutTyped, CtxTyped
<1>2. /\ \A k \in {"call", "result"} : \A n : Has(out', k, n) <=> Has(out, k, n)
      /\ \A k, n : Has(out', k, n) => Has(out, k, n)
      /\ OncePlaced(out) => OncePlaced(out')
  BY <1>1, HasKept
<1>3. /\ \A n : Has(ctx', "call", n) <=> Has(ctx, "call", n)
      /\ \A n : OpenIn(ctx', n) <=> OpenIn(ctx, n)
  BY <1>1, SoundsAre
<1>4. FramesAsked'
  BY <1>1, <1>2 DEF HoldCalls, FramesAsked
<1>5. FramesInv'
  BY <1>1, <1>2, <1>3 DEF HoldCalls, FramesInv
<1>6. CallsInv'
  BY <1>1, <1>2, <1>3 DEF HoldCalls, CallsInv, CallWell
<1>. QED BY <1>4, <1>5, <1>6 DEF HoldCalls

LEMMA CallsOnEnd ==
  ASSUME HoldTyped, HoldCalls, Ends
  PROVE  HoldCalls'
<1>1. UNCHANGED <<out, ctx, call, droppedCalls, overtaken, replies, writing>> /\ q' = Append(q, Frame("end", 0))
      /\ q \in Seq(QFrames)
  BY DEF Ends, llmVars, ctxVars, outVars, HoldTyped, GateTyped
<1>2. Frame("end", 0) \in [is : {"audio", "over", "call", "result", "end"}, n : {0}, drops : Nat]
      /\ Frame("end", 0).is = "end"
  BY DEF Frame, HoldTyped, GateTyped
<1>3. q \in Seq(QFrames \cup {Frame("end", 0)})
  BY <1>1
<1>4. \A k \in {"audio", "over", "call", "result"} : \A n : Has(q', k, n) <=> Has(q, k, n)
  BY <1>1, <1>2, <1>3, HasAppend
<1>5. OncePlaced(q) => OncePlaced(q')
  BY <1>1, <1>2, <1>3, OnceAppend
<1>6. FramesAsked'
  BY <1>1, <1>4 DEF HoldCalls, FramesAsked
<1>7. FramesInv'
  BY <1>1, <1>4, <1>5 DEF HoldCalls, FramesInv
<1>8. CallsInv'
  BY <1>1, <1>4 DEF HoldCalls, CallsInv, CallWell
<1>. QED BY <1>6, <1>7, <1>8 DEF HoldCalls

LEMMA CallsOnPass ==
  ASSUME MaxSaid \in Nat, MaxRare \in Nat, HoldTyped, HoldCalls, Passes
  PROVE  HoldCalls'
<1>. DEFINE f == Head(q)
            g == [is |-> f.is, n |-> f.n, asks |-> AsksAgain(f)]
<1>1. /\ q \in Seq(QFrames) /\ out \in Seq(OutFrames) /\ q # <<>> /\ q' = Tail(q)
      /\ UNCHANGED <<ctx, call, overtaken, replies, writing>>
  BY DEF Passes, llmVars, ctxVars, HoldTyped, GateTyped, OutTyped
<1>2. f \in QFrames
  BY <1>1, TailIs
<1>3. droppedCalls' = IF f.is = "call" /\ DropsFrame(f) THEN droppedCalls \cup {f.n} ELSE droppedCalls
  BY DEF Passes
<1>4. DropsFrame(f) => UNCHANGED out /\ (f.is = "result" => f.n \in droppedCalls)
  BY <1>2 DEF Passes, DropsFrame, QFrames
<1>5. ~DropsFrame(f) => out' = IF f.is = "over" THEN out ELSE Append(out, g)
  BY DEF Passes
<1>6. f.is # "over" => g \in OutFrames
  BY <1>2 DEF QFrames, OutFrames, AsksAgain
<1>7. g.is = f.is /\ g.n = f.n /\ f.n \in Numbers /\ f.is \in {"audio", "over", "call", "result", "end"}
  BY <1>2 DEF QFrames
<1>8. DropsFrame(f) /\ f.is \in {"call", "result"} => f.is = "call" \/ f.n \in droppedCalls
  BY <1>4
<1>. DEFINE drop == DropsFrame(f)
            h == f.is
            m == f.n
            go == ~drop /\ h # "over"
<1>9. \A k, n : Has(q, k, n) <=> Has(q', k, n) \/ (h = k /\ m = n)
  BY <1>1, HasTail
<1>10. /\ OncePlaced(q) => OncePlaced(q')
       /\ OncePlaced(q) /\ h \in {"call", "result"} => ~Has(q', h, m)
       /\ OncePlaced(q) /\ h = "result" => ~Has(q', "call", m)
  BY <1>1, OnceTail
<1>11. \A k, n : Has(out', k, n) <=> Has(out, k, n) \/ (go /\ k = h /\ n = m)
  <2>1. CASE go
    <3>1. out' = Append(out, g) /\ g \in OutFrames
      BY <2>1, <1>5, <1>6
    <3>2. \A k, n : Has(out', k, n) <=> Has(out, k, n) \/ (g.is = k /\ g.n = n)
      BY <3>1, <1>1, HasAppend
    <3>3. \A k, n : Has(out', k, n) <=> Has(out, k, n) \/ (k = h /\ n = m)
      BY <3>2, <1>7
    <3>. QED BY <3>3, <2>1
  <2>2. CASE ~go
    BY <2>2, <1>4, <1>5
  <2>. QED BY <2>1, <2>2
<1>12. h \in {"call", "result"} => m \in Replies /\ m \in 1..replies
  <2>1. Has(q, h, m)
    BY <1>9
  <2>2. h \in {"call", "result"} => m \in 1..replies
    BY <2>1, <1>7 DEF HoldCalls, FramesAsked
  <2>. QED BY <2>2 DEF HoldTyped, LlmTyped, Numbers, Replies
<1>13. OncePlaced(out')
  <2>1. CASE go
    <3>1. Has(q, h, m)
      BY <1>9
    <3>2. h \in {"call", "result"} => ~Has(out, h, m)
      BY <3>1, <1>12 DEF HoldCalls, FramesInv
    <3>3. h = "call" => ~Has(out, "result", m)
      BY <3>1, <1>12 DEF HoldCalls, FramesInv
    <3>4. OncePlaced(Append(out, g))
      BY <3>2, <3>3, <2>1, <1>1, <1>6, <1>7, OnceAppend DEF HoldCalls, FramesInv
    <3>. QED BY <3>4, <2>1, <1>5
  <2>2. CASE ~go
    BY <2>2, <1>4, <1>5 DEF HoldCalls, FramesInv
  <2>. QED BY <2>1, <2>2
<1>14. /\ drop /\ h = "result" => m \in droppedCalls
       /\ droppedCalls' = IF drop /\ h = "call" THEN droppedCalls \cup {m} ELSE droppedCalls
  BY <1>3, <1>4
<1>. HIDE DEF f, g, h, m, drop
<1>15. FramesAsked'
  BY <1>1, <1>9, <1>11 DEF HoldCalls, FramesAsked
<1>16. FramesInv'
  <2>1. OncePlaced(q)
    BY DEF HoldCalls, FramesInv
  <2>2. ASSUME NEW n \in Replies
        PROVE  /\ ~(Has(q', "call", n) /\ Has(out', "call", n))
               /\ ~(Has(q', "result", n) /\ Has(out', "result", n))
               /\ ~(Has(q', "call", n) /\ Has(out', "result", n))
               /\ Has(q', "call", n) \/ Has(out', "call", n) => n \notin droppedCalls'
               /\ Has(q', "call", n) \/ Has(out', "call", n) \/ n \in droppedCalls' => ~Has(ctx', "call", n)
    BY <2>1, <1>1, <1>9, <1>10, <1>11, <1>14 DEF HoldCalls, FramesInv
  <2>. QED BY <2>1, <2>2, <1>10, <1>13 DEF FramesInv
<1>17. ASSUME NEW n \in Replies PROVE CallWell(n)'
  <2>1. /\ call[n] = "no" => ~Has(q, "call", n) /\ n \notin droppedCalls'
        /\ Has(q', "call", n) \/ Has(out', "call", n) => Has(q, "call", n) \/ Has(out, "call", n)
        /\ Has(q', "result", n) \/ Has(out', "result", n) => Has(q, "result", n) \/ Has(out, "result", n)
    BY <1>9, <1>11, <1>14 DEF HoldCalls, CallsInv, CallWell
  <2>2. Has(q, "result", n) \/ Has(out, "result", n) =>
          Has(q', "result", n) \/ Has(out', "result", n) \/ (drop /\ h = "result" /\ n = m /\ n \in droppedCalls)
    <3>1. Has(q, "result", n) => Has(q', "result", n) \/ (h = "result" /\ m = n)
      BY <1>9
    <3>2. Has(out, "result", n) => Has(out', "result", n)
      BY <1>11
    <3>3. h = "result" /\ ~drop => go
      OBVIOUS
    <3>4. go /\ h = "result" /\ m = n => Has(out', "result", n)
      BY <1>11
    <3>. QED BY <3>1, <3>2, <3>3, <3>4, <1>14
  <2>3. n \in droppedCalls => ~Has(q, "call", n) /\ ~Has(out, "call", n) /\ ~OpenIn(ctx, n)
    <3>1. OpenIn(ctx, n) => Has(ctx, "call", n)
      BY DEF OpenIn, Has
    <3>. QED BY <3>1 DEF HoldCalls, FramesInv
  <2>4. UNCHANGED <<ctx, call, overtaken, replies>>
    BY <1>1
  <2>. QED BY <2>1, <2>2, <2>3, <2>4 DEF HoldCalls, CallsInv, CallWell
<1>. QED BY <1>1, <1>15, <1>16, <1>17 DEF HoldCalls, CallsInv

LEMMA CallsOnOut ==
  ASSUME MaxSaid \in Nat, MaxRare \in Nat, HoldTyped, HoldCalls, OutGoesOn
  PROVE  HoldCalls'
<1>. DEFINE f == Head(out)
            h == f.is
            m == f.n
<1>1. /\ out \in Seq(OutFrames) /\ ctx \in Seq(Messages) /\ out # <<>> /\ out' = Tail(out)
      /\ UNCHANGED <<q, call, droppedCalls, replies, writing>>
      /\ overtaken' = overtaken \ (IF h = "call" THEN {m} ELSE {})
  BY DEF OutGoesOn, gateVars, HoldTyped, CtxTyped, OutTyped
<1>2. f \in OutFrames
  BY <1>1, TailIs
<1>3. m \in Numbers /\ h \in {"audio", "call", "result", "end"} /\ f \in OutFrames
  BY <1>2 DEF OutFrames
<1>4. \A k, n : Has(out, k, n) <=> Has(out', k, n) \/ (h = k /\ m = n)
  BY <1>1, HasTail
<1>5. /\ OncePlaced(out')
      /\ h \in {"call", "result"} => ~Has(out', h, m)
      /\ h = "result" => ~Has(out', "call", m)
  BY <1>1, OnceTail DEF HoldCalls, FramesInv
<1>6. Has(out, h, m) /\ (h \in {"call", "result"} => m \in Replies)
  <2>1. Has(out, h, m)
    BY <1>4
  <2>2. h \in {"call", "result"} => m \in 1..replies
    BY <2>1, <1>3 DEF HoldCalls, FramesAsked
  <2>. QED BY <2>1, <2>2 DEF HoldTyped, LlmTyped, Numbers, Replies
<1>7. /\ h = "call" /\ m \notin overtaken =>
           /\ \A n : Has(ctx', "call", n) <=> Has(ctx, "call", n) \/ n = m
           /\ \A n : OpenIn(ctx', n) <=> OpenIn(ctx, n) \/ n = m
      /\ ~(h = "call" /\ m \notin overtaken) =>
           /\ \A n : Has(ctx', "call", n) <=> Has(ctx, "call", n)
           /\ \A n : OpenIn(ctx', n) => OpenIn(ctx, n) /\ ~(h = "result" /\ n = m)
  <2>1. CASE h = "call" /\ m \notin overtaken
    <3>1. ctx' = Append(ctx, [is |-> "call", n |-> m, st |-> "open"])
      BY <2>1 DEF OutGoesOn
    <3>2. [is |-> "call", n |-> m, st |-> "open"] \in Messages
      BY <1>6, <2>1 DEF Messages, Rounds
    <3>. QED BY <3>1, <3>2, <1>1, <2>1, HasAppend, OpenAppend
  <2>2. CASE h = "call" /\ m \in overtaken
    BY <2>2 DEF OutGoesOn
  <2>3. CASE h = "result"
    <3>1. ctx' = Marked(ctx, m, "done")
      BY <2>3 DEF OutGoesOn
    <3>. QED BY <3>1, <1>1, <2>3, MarkedIs
  <2>4. CASE h = "audio"
    <3>1. ctx' = Append(ctx, f)
      BY <2>4 DEF OutGoesOn
    <3>2. f \in Messages
      BY <2>4, <1>3 DEF Messages, Heard, OutFrames
    <3>. QED BY <3>1, <3>2, <1>1, <2>4, HasAppend, OpenAppend
  <2>5. CASE h = "end"
    BY <2>5 DEF OutGoesOn
  <2>. QED BY <2>1, <2>2, <2>3, <2>4, <2>5, <1>3
<1>. HIDE DEF f, h, m
<1>8. FramesAsked'
  BY <1>1, <1>4 DEF HoldCalls, FramesAsked
<1>9. FramesInv'
  <2>1. ASSUME NEW n \in Replies
        PROVE  /\ ~(Has(q', "call", n) /\ Has(out', "call", n))
               /\ ~(Has(q', "result", n) /\ Has(out', "result", n))
               /\ ~(Has(q', "call", n) /\ Has(out', "result", n))
               /\ Has(q', "call", n) \/ Has(out', "call", n) => n \notin droppedCalls'
               /\ Has(q', "call", n) \/ Has(out', "call", n) \/ n \in droppedCalls' => ~Has(ctx', "call", n)
    <3>1. n = m /\ h = "call" => ~Has(q', "call", n) /\ ~Has(out', "call", n) /\ n \notin droppedCalls'
      BY <1>1, <1>5, <1>6 DEF HoldCalls, FramesInv
    <3>2. Has(ctx', "call", n) => Has(ctx, "call", n) \/ (h = "call" /\ n = m)
      BY <1>7
    <3>. QED BY <3>1, <3>2, <1>1, <1>4 DEF HoldCalls, FramesInv
  <2>2. OncePlaced(q')
    BY <1>1 DEF HoldCalls, FramesInv
  <2>. QED BY <2>1, <2>2, <1>5 DEF FramesInv
<1>10. ASSUME NEW n \in Replies PROVE CallWell(n)'
  <2>1. /\ n = m /\ h = "call" => ~Has(q', "call", n) /\ ~Has(out', "call", n) /\ Has(out, "call", n)
        /\ n = m /\ h = "result" => ~Has(q', "call", n) /\ ~Has(out', "call", n) /\ Has(out, "result", n)
    BY <1>1, <1>5, <1>6 DEF HoldCalls, FramesInv
  <2>2. CASE h = "call" /\ n = m
    <3>1. call[n] # "no" /\ call'[n] = call[n] /\ (Has(out', "result", n) <=> Has(out, "result", n))
          /\ (Has(q', "result", n) <=> Has(q, "result", n)) /\ (call[n] = "cancelled" => m \in overtaken)
      BY <2>1, <2>2, <1>1, <1>4 DEF HoldCalls, CallsInv, CallWell
    <3>2. call[n] = "cancelled" => ~OpenIn(ctx', n)
      BY <3>1, <2>2, <1>7 DEF HoldCalls, CallsInv, CallWell
    <3>. QED BY <3>1, <3>2, <2>1, <2>2, <1>1 DEF HoldCalls, CallsInv, CallWell
  <2>3. CASE h = "result" /\ n = m
    <3>1. call[n] = "reported" /\ call'[n] = call[n] /\ ~OpenIn(ctx', n)
      BY <2>1, <2>3, <1>1, <1>7 DEF HoldCalls, CallsInv, CallWell
    <3>. QED BY <3>1, <2>1, <2>3, <1>1, <1>4 DEF HoldCalls, CallsInv, CallWell
  <2>4. CASE ~(h \in {"call", "result"} /\ n = m)
    <3>1. /\ Has(ctx', "call", n) <=> Has(ctx, "call", n)
          /\ OpenIn(ctx', n) => OpenIn(ctx, n)
          /\ n \in overtaken => n \in overtaken'
      BY <2>4, <1>1, <1>7
    <3>2. /\ Has(out', "call", n) <=> Has(out, "call", n)
          /\ Has(out', "result", n) <=> Has(out, "result", n)
      BY <2>4, <1>4
    <3>. QED BY <3>1, <3>2, <1>1 DEF HoldCalls, CallsInv, CallWell
  <2>. QED BY <2>2, <2>3, <2>4
<1>. QED BY <1>1, <1>8, <1>9, <1>10 DEF HoldCalls, CallsInv

LEMMA AggIsWords ==
  ASSUME MaxSaid \in Nat, HoldTyped
  PROVE  agg \in SUBSET Words /\ worded \in SUBSET Words
<1>1. said \in 0..MaxSaid /\ agg \in SUBSET (1..said) /\ worded \in SUBSET (1..said)
  BY DEF HoldTyped, TalkTyped
<1>2. 1..said \in SUBSET (1..MaxSaid)
  BY <1>1
<1>. QED BY <1>1, <1>2 DEF Words

LEMMA CallsOnPush ==
  ASSUME MaxSaid \in Nat, HoldTyped, HoldCalls, Pushes, UNCHANGED <<call, outVars>>
  PROVE  HoldCalls'
<1>. DEFINE t == [is |-> "user", says |-> agg]
<1>1. ctx \in Seq(Messages) /\ t \in Messages /\ t.is = "user" /\ ctx' = Append(ctx, t)
  BY AggIsWords DEF Pushes, HoldTyped, CtxTyped, Messages, Turns
<1>. HIDE DEF t
<1>2. \A n : Has(ctx', "call", n) => Has(ctx, "call", n)
  BY <1>1, HasAppend
<1>3. \A n : OpenIn(ctx', n) => OpenIn(ctx, n)
  BY <1>1, OpenAppend
<1>4. UNCHANGED <<q, out, call, droppedCalls, overtaken, replies, writing>>
  BY DEF Pushes, outVars
<1>. QED BY <1>2, <1>3, <1>4, CallsUnderTurns

LEMMA CallsOnFold ==
  ASSUME HoldTyped, HoldCalls, Reconciles
  PROVE  HoldCalls'
<1>1. UNCHANGED <<q, out, call, droppedCalls, overtaken, replies, writing>>
  BY DEF Reconciles, outVars, gateVars
<1>2. CASE Folds
  <2>1. /\ ctx \in Seq(Messages) /\ lastUser \in 1..Len(ctx) /\ User(ctx[lastUser])
        /\ lastUser < Len(ctx) /\ User(ctx[Len(ctx)]) /\ ctx' = Folded
    BY <1>2 DEF Folds, Reconciles, HoldTyped, CtxTyped
  <2>2. \A n : Has(ctx', "call", n) => Has(ctx, "call", n)
    BY <2>1, FoldedIs
  <2>3. \A n : OpenIn(ctx', n) => OpenIn(ctx, n)
    BY <2>1, FoldedIs
  <2>. QED BY <1>1, <2>2, <2>3, CallsUnderTurns
<1>3. CASE ~Folds
  BY <1>1, <1>3, CallsUnmoved DEF Reconciles, callVars
<1>. QED BY <1>2, <1>3

(* Calls keep their frames and their results, whatever happens. *)
LEMMA CallsKeep ==
  ASSUME MaxSaid \in Nat, MaxRare \in Nat, HoldTyped, HoldCalls, CountInv, [Next]_vars
  PROVE  HoldCalls'
<1>1. CASE Onset
  BY <1>1, CallsUnmoved DEF Onset, Hears, callVars, ctxVars, llmVars, outVars
<1>2. CASE VadStarts
  BY <1>2, CallsUnmoved DEF VadStarts, Hears, callVars, ctxVars, llmVars, outVars
<1>3. CASE Stops
  BY <1>3, CallsUnmoved DEF Stops, callVars, ctxVars, llmVars, gateVars, outVars
<1>4. CASE WordsCome
  BY <1>4, CallsUnmoved DEF WordsCome, callVars, ctxVars, llmVars, gateVars, outVars
<1>5. CASE Commits
  BY <1>5, CallsUnmoved DEF Commits, callVars, ctxVars, llmVars, gateVars, outVars
<1>6. CASE Proceeds
  <2>1. CASE Pushes
    BY <1>6, <2>1, CallsOnPush DEF Proceeds
  <2>2. CASE ~Pushes
    BY <1>6, <2>2, CallsUnmoved DEF Proceeds, callVars, ctxVars, llmVars, gateVars, outVars
  <2>. QED BY <2>1, <2>2
<1>7. CASE WaitRunsOut
  BY <1>7, CallsOnPush DEF WaitRunsOut
<1>8. CASE Closes
  BY <1>8, CallsUnmoved DEF Closes, callVars, ctxVars, llmVars, gateVars, outVars
<1>9. CASE Reconciles
  BY <1>9, CallsOnFold
<1>10. CASE AsksOnTurn \/ AsksOnResult
  BY <1>10, CallsOnAsk DEF AsksOnTurn, AsksOnResult
<1>11. CASE Writes
  BY <1>11, CallsOnWrite
<1>12. ASSUME NEW n \in Replies, ToolEnds(n) PROVE HoldCalls'
  BY <1>12, CallsOnResult
<1>13. CASE Cuts
  BY <1>13, CallsOnCutAtLlm, CallsOnCutAtGate, CallsOnCutAtOut DEF Cuts
<1>14. CASE Passes
  BY <1>14, CallsOnPass
<1>15. CASE OutGoesOn
  BY <1>15, CallsOnOut
<1>16. CASE Released
  BY <1>16, CallsUnmoved DEF Released, callVars, ctxVars, llmVars, outVars
<1>17. CASE CapReached
  BY <1>17, CallsUnmoved DEF CapReached, callVars, ctxVars, llmVars, outVars
<1>18. CASE Ends
  BY <1>18, CallsOnEnd
<1>19. CASE Over \/ UNCHANGED vars
  BY <1>19, CallsUnmoved DEF Over, vars, callVars, ctxVars, llmVars, gateVars, outVars
<1>. QED
  BY <1>1, <1>2, <1>3, <1>4, <1>5, <1>6, <1>7, <1>8, <1>9, <1>10, <1>11, <1>12, <1>13,
     <1>14, <1>15,
     <1>16, <1>17, <1>18, <1>19 DEF Next

-----------------------------------------------------------------------------
(* The hold keeps to its states.                                            *)

LEMMA PushTyped ==
  ASSUME MaxSaid \in Nat, MaxRare \in Nat, HoldTyped, Pushes, UNCHANGED <<said, line, worded, call,
                                                                          outVars, over>>
  PROVE  CtxTyped' /\ LlmTyped' /\ GateTyped' /\ OutTyped' /\ agg' \in SUBSET worded' /\ open' \in BOOLEAN
         /\ commit' = "no"
<1>. DEFINE t == [is |-> "user", says |-> agg]
<1>1. ctx \in Seq(Messages) /\ t \in Messages /\ t.is = "user" /\ ctx' = Append(ctx, t) /\ UNCHANGED <<lastUser, merge>>
  BY AggIsWords DEF Pushes, HoldTyped, CtxTyped, Messages, Turns
<1>. HIDE DEF t
<1>2. CtxTyped'
  BY <1>1 DEF HoldTyped, CtxTyped
<1>3. LlmTyped'
  BY DEF Pushes, HoldTyped, LlmTyped
<1>4. GateTyped'
  BY DEF Pushes, HoldTyped, GateTyped
<1>5. OutTyped'
  BY DEF Pushes, HoldTyped, OutTyped, outVars
<1>. QED BY <1>2, <1>3, <1>4, <1>5 DEF Pushes

LEMMA FoldTyped ==
  ASSUME HoldTyped, Reconciles
  PROVE  CtxTyped'
<1>1. Len(ctx') \in Nat /\ ctx' \in Seq(Messages)
  <2>1. CASE Folds
    <3>1. /\ ctx \in Seq(Messages) /\ lastUser \in 1..Len(ctx) /\ User(ctx[lastUser])
          /\ lastUser < Len(ctx) /\ User(ctx[Len(ctx)]) /\ ctx' = Folded
      BY <2>1 DEF Folds, Reconciles, HoldTyped, CtxTyped
    <3>. QED BY <3>1, FoldedIs
  <2>2. CASE ~Folds
    BY <2>2 DEF Reconciles, HoldTyped, CtxTyped
  <2>. QED BY <2>1, <2>2
<1>2. merge' = FALSE /\ lastUser' = IF User(ctx'[Len(ctx')]) THEN Len(ctx') ELSE 0
  BY DEF Reconciles
<1>3. lastUser' \in 0..Len(ctx') /\ (lastUser' # 0 => ctx'[lastUser'].is = "user")
  <2>1. CASE ctx'[Len(ctx')].is = "user"
    <3>1. lastUser' = Len(ctx')
      BY <1>2, <2>1 DEF User
    <3>. QED BY <3>1, <1>1, <2>1
  <2>2. CASE ctx'[Len(ctx')].is # "user"
    <3>1. lastUser' = 0
      BY <1>2, <2>2 DEF User
    <3>. QED BY <3>1, <1>1
  <2>. QED BY <2>1, <2>2
<1>. QED BY <1>1, <1>2, <1>3 DEF CtxTyped, User

LEMMA CutTyped ==
  ASSUME HoldTyped, NEW i \in DOMAIN cuts, CutAtLlm(i) \/ CutAtGate(i) \/ CutAtOut(i)
  PROVE  HoldTyped'
<1>1. cuts \in Seq(CutFrames) /\ cuts[i] \in CutFrames
  BY DEF HoldTyped, TalkTyped
<1>5. ASSUME NEW s \in {"gate", "out"} PROVE [cuts EXCEPT ![i].at = s] \in Seq(CutFrames)
  <2>1. [cuts[i] EXCEPT !.at = s] \in CutFrames
    BY <1>1 DEF CutFrames
  <2>2. [cuts EXCEPT ![i].at = s] = [cuts EXCEPT ![i] = [cuts[i] EXCEPT !.at = s]]
    OBVIOUS
  <2>. QED BY <1>1, <2>1, <2>2
<1>2. CASE CutAtLlm(i)
  <2>1. cuts' \in Seq(CutFrames)
    BY <1>5, <1>2 DEF CutAtLlm
  <2>2. TalkTyped'
    BY <1>2, <2>1 DEF CutAtLlm, HoldTyped, TalkTyped, callerVars, turnVars
  <2>3. CtxTyped' /\ OutTyped' /\ LlmTyped'
    <3>1. UNCHANGED <<lastUser, merge, replies, answers, out, played, settled, over>> /\ writing' = 0
          /\ asked' \in SUBSET {"commit", "turn", "result"}
      BY <1>2 DEF CutAtLlm, HoldTyped, LlmTyped
    <3>2. CASE UNCHANGED <<call, ctx, overtaken>>
      BY <3>1, <3>2 DEF HoldTyped, CtxTyped, OutTyped, LlmTyped, Numbers
    <3>3. ASSUME NEW n \in Replies, call[n] = "running", call' = [call EXCEPT ![n] = "cancelled"],
                 IF InCtx(n) THEN ctx' = Marked(ctx, n, "cancelled") /\ UNCHANGED overtaken
                 ELSE overtaken' = overtaken \cup {n} /\ UNCHANGED ctx
          PROVE  CtxTyped' /\ OutTyped' /\ LlmTyped'
      <4>1. LlmTyped'
        BY <3>1, <3>3 DEF HoldTyped, LlmTyped, Numbers
      <4>2. OutTyped'
        BY <3>1, <3>3 DEF HoldTyped, OutTyped
      <4>3. CtxTyped'
        <5>1. /\ ctx' \in Seq(Messages) /\ Len(ctx') = Len(ctx)
              /\ \A j \in DOMAIN ctx : ctx'[j].is = ctx[j].is
          BY <3>3, MarkedIs DEF HoldTyped, CtxTyped
        <5>. QED BY <5>1, <3>1 DEF HoldTyped, CtxTyped, User
      <4>. QED BY <4>1, <4>2, <4>3
    <3>. QED BY <1>2, <3>2, <3>3 DEF CutAtLlm
  <2>4. GateTyped'
    BY <1>2 DEF CutAtLlm, HoldTyped, GateTyped, gateVars
  <2>. QED BY <2>2, <2>3, <2>4 DEF HoldTyped
<1>3. CASE CutAtGate(i)
  <2>1. cuts' \in Seq(CutFrames)
    BY <1>5, <1>3 DEF CutAtGate
  <2>2. TalkTyped'
    BY <1>3, <2>1 DEF CutAtGate, HoldTyped, TalkTyped, callerVars, turnVars
  <2>3. CtxTyped' /\ OutTyped' /\ LlmTyped'
    BY <1>3 DEF CutAtGate, HoldTyped, CtxTyped, OutTyped, LlmTyped, llmVars, outVars
  <2>4. q' \in Seq(QFrames)
    BY <1>3, HasKept DEF CutAtGate, HoldTyped, GateTyped
  <2>5. GateTyped'
    <3>1. /\ armed' = FALSE /\ holding' = FALSE /\ drops' = IF holding THEN drops + 1 ELSE drops
          /\ UNCHANGED <<tool_call, droppedCalls, ending, discard_to_end, capped>>
      BY <1>3 DEF CutAtGate
    <3>2. drops' \in Nat
      BY <3>1 DEF HoldTyped, GateTyped
    <3>. QED BY <3>1, <3>2, <2>4 DEF HoldTyped, GateTyped
  <2>. QED BY <2>2, <2>3, <2>5 DEF HoldTyped
<1>4. CASE CutAtOut(i)
  <2>1. cuts' \in Seq(CutFrames)
    BY <1>1, <1>4 DEF CutAtOut
  <2>2. TalkTyped'
    BY <1>4, <2>1 DEF CutAtOut, HoldTyped, TalkTyped, callerVars, turnVars
  <2>3. LlmTyped' /\ GateTyped'
    BY <1>4 DEF CutAtOut, HoldTyped, LlmTyped, GateTyped, llmVars, gateVars
  <2>4. CtxTyped'
    <3>1. /\ ctx' \in Seq(Messages) /\ Len(ctx') >= Len(ctx) /\ \A j \in DOMAIN ctx : ctx'[j] = ctx[j]
          /\ UNCHANGED <<lastUser, merge>> /\ Len(ctx) \in Nat
      BY <1>4, SoundsAre DEF CutAtOut, HoldTyped, CtxTyped, OutTyped
    <3>. QED BY <3>1 DEF HoldTyped, CtxTyped, User
  <2>5. OutTyped'
    <3>1. out \in Seq(OutFrames) /\ out' \in Seq(OutFrames)
      BY <1>4, HasKept DEF CutAtOut, HoldTyped, OutTyped
    <3>2. \A f \in Range(out) : f.n \in Numbers
      BY <3>1 DEF Range, OutFrames
    <3>3. settled' \in SUBSET Numbers
      BY <1>4, <3>2 DEF CutAtOut, HoldTyped, OutTyped
    <3>4. UNCHANGED <<overtaken, played, over, replies>>
      BY <1>4 DEF CutAtOut, llmVars
    <3>. QED BY <3>1, <3>3, <3>4 DEF HoldTyped, OutTyped
  <2>. QED BY <2>2, <2>3, <2>4, <2>5 DEF HoldTyped
<1>. QED BY <1>2, <1>3, <1>4

LEMMA PassTyped ==
  ASSUME MaxSaid \in Nat, MaxRare \in Nat, HoldTyped, FramesAsked, Passes
  PROVE  GateTyped' /\ OutTyped'
<1>. DEFINE f == Head(q)
            g == [is |-> f.is, n |-> f.n, asks |-> AsksAgain(f)]
<1>1. /\ q \in Seq(QFrames) /\ out \in Seq(OutFrames) /\ q # <<>> /\ q' = Tail(q)
      /\ UNCHANGED <<holding, drops, ending, capped, overtaken, over, replies, call>>
  BY DEF Passes, llmVars, HoldTyped, GateTyped, OutTyped
<1>2. f \in QFrames /\ q' \in Seq(QFrames)
  BY <1>1, TailIs
<1>3. f.is # "over" => g \in OutFrames
  BY <1>2 DEF QFrames, OutFrames, AsksAgain
<1>4. f.is \in {"audio", "over", "call", "result", "end"} /\ f.n \in Numbers
      /\ (f.is # "end" => f.n \in 1..replies)
  <2>1. f.is \in {"audio", "over", "call", "result", "end"} /\ f.n \in Numbers
    BY <1>2 DEF QFrames
  <2>2. Has(q, f.is, f.n)
    BY <1>1, HasTail
  <2>. QED BY <2>1, <2>2 DEF FramesAsked
<1>5. f.is # "end" => f.n \in Replies
  BY <1>4 DEF HoldTyped, LlmTyped, Numbers, Replies
<1>6. droppedCalls' \in SUBSET Replies
  BY <1>5 DEF Passes, HoldTyped, GateTyped
<1>7. out' \in Seq(OutFrames)
  BY <1>1, <1>3 DEF Passes
<1>8. played' \in SUBSET (1..replies) /\ settled' \in SUBSET Numbers
  BY <1>4 DEF Passes, HoldTyped, OutTyped
<1>9. discard_to_end' \in BOOLEAN /\ armed' \in BOOLEAN /\ tool_call' \in BOOLEAN
  BY Zenon DEF Passes, HoldTyped, GateTyped
<1>. HIDE DEF f, g
<1>10. GateTyped'
  BY <1>1, <1>2, <1>6, <1>9 DEF HoldTyped, GateTyped
<1>11. OutTyped'
  BY <1>1, <1>7, <1>8 DEF HoldTyped, OutTyped
<1>. QED BY <1>10, <1>11

LEMMA OutTypedOn ==
  ASSUME MaxSaid \in Nat, MaxRare \in Nat, HoldTyped, FramesAsked, OutGoesOn
  PROVE  CtxTyped' /\ LlmTyped' /\ OutTyped'
<1>. DEFINE f == Head(out)
<1>1. /\ out \in Seq(OutFrames) /\ ctx \in Seq(Messages) /\ out # <<>> /\ out' = Tail(out) /\ Len(ctx) \in Nat
      /\ UNCHANGED <<lastUser, merge, writing, replies, answers, call, played>>
  BY DEF OutGoesOn, HoldTyped, OutTyped, CtxTyped
<1>2. f \in OutFrames /\ out' \in Seq(OutFrames)
  BY <1>1, TailIs
<1>3. f.is \in {"audio", "call", "result", "end"} /\ f.n \in Numbers
  BY <1>2 DEF OutFrames
<1>4. ctx' \in Seq(Messages) /\ Len(ctx') >= Len(ctx) /\ \A j \in DOMAIN ctx : ctx'[j].is = ctx[j].is
  <2>1. CASE ctx' = ctx
    BY <2>1, <1>1
  <2>2. ASSUME NEW m \in Messages, ctx' = Append(ctx, m)
        PROVE  ctx' \in Seq(Messages) /\ Len(ctx') >= Len(ctx) /\ \A j \in DOMAIN ctx : ctx'[j].is = ctx[j].is
    BY <2>2, <1>1
  <2>3. CASE f.is = "call"
    <3>1. [is |-> "call", n |-> f.n, st |-> "open"] \in Messages
      <4>1. Has(out, "call", f.n)
        BY <1>1, <2>3, HasTail
      <4>2. f.n \in 1..replies
        BY <4>1, <1>3 DEF FramesAsked
      <4>3. f.n \in Replies
        BY <4>2 DEF HoldTyped, LlmTyped, Numbers, Replies
      <4>. QED BY <4>3 DEF Messages, Rounds
    <3>. QED BY <3>1, <2>1, <2>2, <2>3 DEF OutGoesOn
  <2>4. CASE f.is = "result"
    <3>1. ctx' = Marked(ctx, f.n, "done")
      BY <2>4 DEF OutGoesOn
    <3>. QED BY <3>1, <1>1, MarkedIs
  <2>5. CASE f.is = "audio"
    <3>1. f \in Messages
      BY <2>5, <1>2 DEF Messages, Heard, OutFrames
    <3>. QED BY <3>1, <2>2, <2>5 DEF OutGoesOn
  <2>6. CASE f.is = "end"
    BY <2>1, <2>6 DEF OutGoesOn
  <2>. QED BY <1>3, <2>3, <2>4, <2>5, <2>6
<1>5. asked' \in SUBSET {"commit", "turn", "result"}
  BY DEF OutGoesOn, HoldTyped, LlmTyped
<1>6. overtaken' \in SUBSET Replies /\ settled' \in SUBSET Numbers
  BY <1>3 DEF OutGoesOn, HoldTyped, OutTyped
<1>7. over' \in BOOLEAN
  BY Zenon DEF OutGoesOn, HoldTyped, OutTyped
<1>. HIDE DEF f
<1>8. CtxTyped'
  BY <1>1, <1>4 DEF HoldTyped, CtxTyped, User
<1>9. LlmTyped'
  BY <1>1, <1>5 DEF HoldTyped, LlmTyped
<1>10. OutTyped'
  BY <1>1, <1>2, <1>6, <1>7 DEF HoldTyped, OutTyped
<1>. QED BY <1>8, <1>9, <1>10

LEMMA AskTyped ==
  ASSUME MaxSaid \in Nat, MaxRare \in Nat, HoldTyped, CountInv, NEW who, Asks(who)
  PROVE  HoldTyped'
<1>1. replies + 1 \in Replies /\ replies \in Nat
  BY RoomToAsk DEF Asks, HoldTyped, LlmTyped, Numbers
<1>2. /\ replies' = replies + 1 /\ writing' = replies + 1 /\ asked' = asked \ {who}
      /\ answers' = [answers EXCEPT ![replies + 1] = Said(ctx)]
      /\ UNCHANGED <<callerVars, turnVars, cuts, ctxVars, call, gateVars, outVars, timeouts, over>>
  BY DEF Asks
<1>3. Said(ctx) \in SUBSET Words
  <2>1. \A m \in Range(ctx) : User(m) => m.says \in SUBSET Words
    BY DEF HoldTyped, CtxTyped, Range, User, Messages, Turns, Rounds, Heard
  <2>. QED BY <2>1 DEF Said
<1>4. LlmTyped'
  <2>1. replies + 1 \in Numbers /\ replies + 1 \in 0..(replies + 1)
    BY <1>1 DEF Replies, Numbers
  <2>. QED BY <1>2, <1>3, <2>1 DEF HoldTyped, LlmTyped
<1>5. TalkTyped' /\ CtxTyped' /\ GateTyped'
  BY <1>2 DEF HoldTyped, TalkTyped, CtxTyped, GateTyped, callerVars, turnVars, ctxVars,
     gateVars
<1>6. OutTyped'
  <2>1. played \in SUBSET (1..(replies + 1))
    BY <1>1 DEF HoldTyped, OutTyped
  <2>. QED BY <1>2, <2>1 DEF HoldTyped, OutTyped, outVars
<1>. QED BY <1>4, <1>5, <1>6 DEF HoldTyped

LEMMA WriteTyped ==
  ASSUME MaxSaid \in Nat, MaxRare \in Nat, HoldTyped, Writes
  PROVE  q' \in Seq(QFrames) /\ call' \in [Replies -> {"no", "running", "reported", "cancelled"}]
<1>1. writing \in Numbers /\ writing \in Replies
  BY DEF Writes, HoldTyped, LlmTyped, Numbers, Replies
<1>2. q \in Seq(QFrames) /\ \A k \in {"audio", "over", "call"} : Frame(k, writing) \in QFrames
  BY <1>1 DEF Frame, QFrames, HoldTyped, GateTyped
<1>. DEFINE a == Frame("call", writing)
            b == Frame("over", writing)
<1>3. q \o <<a, b>> \in Seq(QFrames)
  <2>1. a \in QFrames /\ b \in QFrames
    BY <1>2
  <2>. HIDE DEF a, b
  <2>. QED BY <1>2, <2>1
<1>4. q' \in Seq(QFrames)
  <2>1. ASSUME NEW k \in {"audio", "over"}, q' = Append(q, Frame(k, writing)) PROVE q' \in Seq(QFrames)
    BY <1>2, <2>1
  <2>2. q' = q \o <<a, b>> => q' \in Seq(QFrames)
    BY <1>3
  <2>. QED BY <2>1, <2>2 DEF Writes
<1>5. call' \in [Replies -> {"no", "running", "reported", "cancelled"}]
  BY <1>1 DEF Writes, HoldTyped, LlmTyped
<1>. QED BY <1>4, <1>5

LEMMA TypedKeeps ==
  ASSUME MaxSaid \in Nat, MaxRare \in Nat, HoldTyped, HoldCalls, CountInv, [Next]_vars
  PROVE  HoldTyped'
<1>. USE DEF callerVars, turnVars, ctxVars, llmVars, gateVars, outVars
<1>1. CASE Onset
  <2>1. said' \in 0..MaxSaid /\ 1..said \in SUBSET (1..said')
    BY <1>1 DEF Onset, HoldTyped, TalkTyped
  <2>2. TalkTyped'
    BY <1>1, <2>1 DEF Onset, HoldTyped, TalkTyped
  <2>3. GateTyped'
    BY <1>1 DEF Onset, Hears, HoldTyped, GateTyped
  <2>. QED BY <1>1, <2>2, <2>3 DEF Onset, HoldTyped, CtxTyped, LlmTyped, OutTyped
<1>2. CASE VadStarts
  <2>1. TalkTyped'
    BY <1>2 DEF VadStarts, HoldTyped, TalkTyped
  <2>2. GateTyped'
    BY <1>2 DEF VadStarts, Hears, HoldTyped, GateTyped
  <2>. QED BY <1>2, <2>1, <2>2 DEF VadStarts, HoldTyped, CtxTyped, LlmTyped, OutTyped
<1>3. CASE Stops
  <2>1. TalkTyped'
    BY <1>3 DEF Stops, HoldTyped, TalkTyped
  <2>. QED BY <1>3, <2>1 DEF Stops, HoldTyped, CtxTyped, LlmTyped, GateTyped, OutTyped
<1>4. ASSUME NEW by \in 0..MaxSaid, UNCHANGED <<said, timeouts>> PROVE Cut(by) \in Seq(CutFrames)
  <2>1. [at |-> "llm", known |-> TRUE, by |-> by] \in CutFrames
    BY DEF CutFrames
  <2>. QED BY <2>1 DEF Cut, HoldTyped, TalkTyped
<1>5. CASE WordsCome
  <2>1. cuts' \in Seq(CutFrames)
    BY <1>4, <1>5 DEF WordsCome, HoldTyped, TalkTyped
  <2>2. TalkTyped'
    BY <1>5, <2>1 DEF WordsCome, HoldTyped, TalkTyped
  <2>. QED BY <1>5, <2>2 DEF WordsCome, HoldTyped, CtxTyped, LlmTyped, GateTyped, OutTyped
<1>6. CASE Commits
  <2>1. TalkTyped'
    BY <1>6 DEF Commits, HoldTyped, TalkTyped
  <2>. QED BY <1>6, <2>1 DEF Commits, HoldTyped, CtxTyped, LlmTyped, GateTyped, OutTyped
<1>7. ASSUME Pushes, UNCHANGED <<callerVars, call, outVars, over>>, cuts' \in Seq(CutFrames), timeouts' \in 0..MaxRare
      PROVE  HoldTyped'
  <2>1. CtxTyped' /\ LlmTyped' /\ GateTyped' /\ OutTyped' /\ agg' \in SUBSET worded' /\ open' \in BOOLEAN
        /\ commit' = "no"
    BY <1>7, PushTyped
  <2>2. TalkTyped'
    BY <1>7, <2>1 DEF HoldTyped, TalkTyped
  <2>. QED BY <2>1, <2>2 DEF HoldTyped
<1>8. CASE Proceeds
  <2>1. CASE Pushes /\ UNCHANGED cuts
    BY <1>7, <1>8, <2>1 DEF Proceeds, HoldTyped, TalkTyped
  <2>2. CASE commit' = "drops" /\ cuts' = Cut(0) /\ UNCHANGED <<open, agg, ctxVars, llmVars, gateVars>>
    <3>1. cuts' \in Seq(CutFrames)
      BY <1>4, <1>8, <2>2 DEF Proceeds
    <3>2. TalkTyped'
      BY <1>8, <2>2, <3>1 DEF Proceeds, HoldTyped, TalkTyped
    <3>. QED BY <1>8, <2>2, <3>2 DEF Proceeds, HoldTyped, CtxTyped, LlmTyped, GateTyped, OutTyped
  <2>. QED BY <1>8, <2>1, <2>2 DEF Proceeds
<1>9. CASE WaitRunsOut
  <2>1. timeouts' \in 0..MaxRare
    <3>1. IsFiniteSet(Called) /\ Cardinality(Called) \in Nat
      <4>1. Called \in SUBSET (1..(MaxSaid + MaxRare)) /\ IsFiniteSet(1..(MaxSaid + MaxRare))
        BY FS_Interval DEF Called, Replies
      <4>. QED BY <4>1, FS_Subset, FS_CardinalityType
    <3>2. timeouts + Cardinality(Called) < MaxRare /\ timeouts' = timeouts + 1
      BY <1>9 DEF WaitRunsOut, Rare, Called
    <3>. QED BY <3>1, <3>2 DEF HoldTyped, TalkTyped
  <2>2. cuts' \in Seq(CutFrames)
    <3>1. cuts' = [i \in DOMAIN cuts |-> [cuts[i] EXCEPT !.known = FALSE]] /\ cuts \in Seq(CutFrames)
      BY <1>9 DEF WaitRunsOut, HoldTyped, TalkTyped
    <3>2. \A x \in CutFrames : [x EXCEPT !.known = FALSE] \in CutFrames
      BY DEF CutFrames
    <3>. QED BY <3>1, <3>2
  <2>. QED BY <1>7, <1>9, <2>1, <2>2 DEF WaitRunsOut
<1>10. CASE Closes
  <2>1. TalkTyped'
    BY <1>10 DEF Closes, HoldTyped, TalkTyped
  <2>. QED BY <1>10, <2>1 DEF Closes, HoldTyped, CtxTyped, LlmTyped, GateTyped, OutTyped
<1>11. CASE Reconciles
  <2>1. CtxTyped'
    BY <1>11, FoldTyped
  <2>2. LlmTyped'
    BY <1>11 DEF Reconciles, HoldTyped, LlmTyped
  <2>. QED BY <1>11, <2>1, <2>2 DEF Reconciles, HoldTyped, TalkTyped, GateTyped, OutTyped
<1>12. CASE AsksOnTurn \/ AsksOnResult
  BY <1>12, AskTyped DEF AsksOnTurn, AsksOnResult
<1>13. CASE Writes
  <2>1. q' \in Seq(QFrames) /\ call' \in [Replies -> {"no", "running", "reported", "cancelled"}]
    BY <1>13, WriteTyped
  <2>2. LlmTyped'
    BY <1>13, <2>1 DEF Writes, HoldTyped, LlmTyped, Numbers
  <2>3. GateTyped'
    BY <1>13, <2>1 DEF Writes, HoldTyped, GateTyped
  <2>. QED BY <1>13, <2>2, <2>3 DEF Writes, HoldTyped, TalkTyped, CtxTyped, OutTyped
<1>14. ASSUME NEW n \in Replies, ToolEnds(n) PROVE HoldTyped'
  <2>1. Frame("result", n) \in QFrames
    BY DEF Frame, QFrames, HoldTyped, GateTyped, Replies, Numbers
  <2>2. LlmTyped'
    BY <1>14 DEF ToolEnds, HoldTyped, LlmTyped
  <2>3. GateTyped'
    BY <1>14, <2>1 DEF ToolEnds, HoldTyped, GateTyped
  <2>. QED BY <1>14, <2>2, <2>3 DEF ToolEnds, HoldTyped, TalkTyped, CtxTyped, OutTyped
<1>15. CASE Cuts
  BY <1>15, CutTyped DEF Cuts
<1>16. CASE Passes
  <2>1. GateTyped' /\ OutTyped'
    BY <1>16, PassTyped DEF HoldCalls
  <2>. QED BY <1>16, <2>1 DEF Passes, HoldTyped, TalkTyped, CtxTyped, LlmTyped
<1>17. CASE OutGoesOn
  <2>1. CtxTyped' /\ LlmTyped' /\ OutTyped'
    BY <1>17, OutTypedOn DEF HoldCalls
  <2>. QED BY <1>17, <2>1 DEF OutGoesOn, HoldTyped, TalkTyped, GateTyped
<1>18. CASE Released
  <2>1. GateTyped'
    BY <1>18 DEF Released, HoldTyped, GateTyped
  <2>. QED BY <1>18, <2>1 DEF Released, HoldTyped, TalkTyped, CtxTyped, LlmTyped, OutTyped
<1>19. CASE CapReached
  <2>1. GateTyped'
    BY <1>19 DEF CapReached, HoldTyped, GateTyped
  <2>. QED BY <1>19, <2>1 DEF CapReached, HoldTyped, TalkTyped, CtxTyped, LlmTyped, OutTyped
<1>20. CASE Ends
  <2>1. Frame("end", 0) \in QFrames
    BY DEF Frame, QFrames, HoldTyped, GateTyped, Numbers
  <2>2. q' \in Seq(QFrames) /\ drops' \in Nat /\ discard_to_end' \in BOOLEAN
    BY <1>20, <2>1 DEF Ends, HoldTyped, GateTyped
  <2>3. GateTyped'
    BY <1>20, <2>2 DEF Ends, EndHolds, HoldTyped, GateTyped
  <2>. QED BY <1>20, <2>3 DEF Ends, HoldTyped, TalkTyped, CtxTyped, LlmTyped, OutTyped
<1>21. CASE Over \/ UNCHANGED vars
  <2>1. UNCHANGED vars
    BY <1>21 DEF Over
  <2>2. TalkTyped' /\ CtxTyped'
    BY <2>1 DEF vars, HoldTyped, TalkTyped, CtxTyped
  <2>3. LlmTyped' /\ GateTyped'
    BY <2>1 DEF vars, HoldTyped, LlmTyped, GateTyped
  <2>4. OutTyped'
    BY <2>1 DEF vars, HoldTyped, OutTyped
  <2>. QED BY <2>2, <2>3, <2>4 DEF HoldTyped
<1>. QED
  BY <1>1, <1>2, <1>3, <1>5, <1>6, <1>8, <1>9, <1>10, <1>11, <1>12, <1>13, <1>14, <1>15,
     <1>16, <1>17,
     <1>18, <1>19, <1>20, <1>21 DEF Next

-----------------------------------------------------------------------------
(* The requests are counted.                                                *)

LEMMA SmallSets ==
  ASSUME MaxSaid \in Nat, MaxRare \in Nat
  PROVE  /\ \A S \in SUBSET Words : IsFiniteSet(S) /\ Cardinality(S) \in Nat
         /\ \A S \in SUBSET Replies : IsFiniteSet(S) /\ Cardinality(S) \in Nat
         /\ \A S \in SUBSET {"commit", "turn", "result"} : IsFiniteSet(S) /\ Cardinality(S) \in Nat
<1>1. IsFiniteSet(Words) /\ IsFiniteSet(Replies)
  BY FS_Interval DEF Words, Replies
<1>2. IsFiniteSet({"commit", "turn", "result"})
  <2>1. IsFiniteSet({} \cup {"commit"})
    BY FS_AddElement, FS_EmptySet
  <2>2. IsFiniteSet(({} \cup {"commit"}) \cup {"turn"})
    BY <2>1, FS_AddElement
  <2>3. IsFiniteSet((({} \cup {"commit"}) \cup {"turn"}) \cup {"result"})
    BY <2>2, FS_AddElement
  <2>4. (({} \cup {"commit"}) \cup {"turn"}) \cup {"result"} = {"commit", "turn", "result"}
    OBVIOUS
  <2>. QED BY <2>3, <2>4
<1>. QED BY <1>1, <1>2, FS_Subset, FS_CardinalityType

LEMMA CountedAre ==
  ASSUME MaxSaid \in Nat, HoldTyped
  PROVE  /\ worded \in SUBSET Words /\ agg \in SUBSET Words /\ worded \ agg \in SUBSET Words
         /\ asked \in SUBSET {"commit", "turn", "result"} /\ replies \in Nat /\ timeouts \in Nat
         /\ Answered \in SUBSET Replies /\ Called \in SUBSET Replies
BY AggIsWords DEF HoldTyped, LlmTyped, TalkTyped, Answered, Called, Numbers

LEMMA CountStep ==
  ASSUME MaxSaid \in Nat, MaxRare \in Nat, HoldTyped, HoldTyped', CountInv,
         UNCHANGED <<replies, timeouts, Called>>,
         Cardinality(asked') <= Cardinality(asked),
         worded \ agg \in SUBSET (worded' \ agg'), Answered \in SUBSET Answered',
         commit' # "no" => open' /\ agg' # {},
         ending' => ~holding'
  PROVE  CountInv'
<1>1. worded' \ agg' \in SUBSET Words /\ Answered' \in SUBSET Replies /\ asked' \in SUBSET {"commit", "turn", "result"}
  <2>1. said' \in 0..MaxSaid /\ worded' \in SUBSET (1..said') /\ asked' \in SUBSET {"commit", "turn", "result"}
    BY DEF HoldTyped, TalkTyped, LlmTyped
  <2>2. worded' \in SUBSET Words
    BY <2>1 DEF Words
  <2>. QED BY <2>1, <2>2 DEF Answered
<1>2. Cardinality(worded \ agg) <= Cardinality(worded' \ agg')
      /\ Cardinality(Answered) <= Cardinality(Answered')
      /\ Cardinality(worded' \ agg') \in Nat /\ Cardinality(Answered') \in Nat /\ Cardinality(asked') \in Nat
  BY <1>1, SmallSets, FS_Subset
<1>3. Cardinality(worded \ agg) \in Nat /\ Cardinality(Answered) \in Nat /\ Cardinality(asked) \in Nat
      /\ replies \in Nat
  BY CountedAre, SmallSets
<1>4. replies' + Cardinality(asked') <= Cardinality(worded' \ agg') + Cardinality(Answered')
  BY <1>1, <1>2, <1>3 DEF CountInv
<1>5. timeouts' + Cardinality(Called') <= MaxRare
  BY DEF CountInv
<1>. QED BY <1>4, <1>5 DEF CountInv

(* A result let by stays so. *)
LEMMA AnsweredStays ==
  ASSUME UNCHANGED <<q, out, call>>
  PROVE  UNCHANGED Answered /\ UNCHANGED Called
BY DEF Answered, Called

LEMMA CountOnPush ==
  ASSUME MaxSaid \in Nat, MaxRare \in Nat, HoldTyped, CountInv, Pushes, commit # "no",
         UNCHANGED <<worded, call, out>>,
         timeouts' + Cardinality(Called) <= MaxRare
  PROVE  CountInv'
<1>1. agg # {} /\ agg \in SUBSET worded
  BY DEF CountInv, HoldTyped, TalkTyped
<1>2. /\ agg' = {} /\ commit' = "no" /\ UNCHANGED <<replies, q, ending>> /\ asked' \in SUBSET {"commit"}
      /\ (ending' => ~holding')
  BY DEF Pushes, CountInv
<1>3. UNCHANGED Answered /\ UNCHANGED Called
  BY <1>2, AnsweredStays
<1>4. IsFiniteSet({"commit"}) /\ Cardinality({"commit"}) = 1
  BY FS_Singleton
<1>5. Cardinality(asked') <= 1 /\ Cardinality(asked') \in Nat
  BY <1>2, <1>4, FS_Subset, FS_CardinalityType
<1>6. Cardinality(worded \ agg) + 1 <= Cardinality(worded)
  <2>1. PICK u \in agg : u \in worded
    BY <1>1
  <2>2. IsFiniteSet(worded) /\ worded \ agg \in SUBSET Words
    BY CountedAre, SmallSets
  <2>3. IsFiniteSet(worded \ agg) /\ u \notin worded \ agg
    BY <2>1, <2>2, SmallSets
  <2>4. Cardinality((worded \ agg) \cup {u}) = Cardinality(worded \ agg) + 1
    BY <2>3, FS_AddElement
  <2>5. (worded \ agg) \cup {u} \in SUBSET worded
    BY <2>1
  <2>6. Cardinality((worded \ agg) \cup {u}) <= Cardinality(worded)
    BY <2>2, <2>5, FS_Subset
  <2>. QED BY <2>4, <2>6
<1>7. worded' \ agg' = worded
  BY <1>2
<1>8. replies \in Nat /\ Cardinality(worded) \in Nat /\ Cardinality(worded \ agg) \in Nat
      /\ Cardinality(Answered) \in Nat /\ Cardinality(asked) \in Nat
  BY CountedAre, SmallSets
<1>9. replies' + Cardinality(asked') <= Cardinality(worded' \ agg') + Cardinality(Answered')
  <2>1. replies + Cardinality(asked) <= Cardinality(worded \ agg) + Cardinality(Answered)
    BY DEF CountInv
  <2>2. replies' = replies /\ Answered' = Answered
    BY <1>2, <1>3
  <2>3. replies + Cardinality(asked') <= Cardinality(worded) + Cardinality(Answered)
    BY <2>1, <1>5, <1>6, <1>8
  <2>4. Cardinality(worded' \ agg') = Cardinality(worded) /\ Cardinality(Answered') = Cardinality(Answered)
    BY <2>2, <1>7
  <2>. QED BY <2>2, <2>3, <2>4
<1>. QED BY <1>2, <1>3, <1>9 DEF CountInv

LEMMA CountOnAsk ==
  ASSUME MaxSaid \in Nat, MaxRare \in Nat, HoldTyped, CountInv, NEW who, Asks(who)
  PROVE  CountInv'
<1>1. /\ who \in asked /\ asked' = asked \ {who} /\ replies' = replies + 1
      /\ UNCHANGED <<worded, agg, q, out, call, timeouts, commit, open, ending, holding>>
  BY DEF Asks, callerVars, turnVars, gateVars, outVars
<1>2. UNCHANGED Answered /\ UNCHANGED Called
  BY <1>1, AnsweredStays
<1>3. IsFiniteSet(asked)
  BY CountedAre, SmallSets
<1>4. Cardinality(asked') = Cardinality(asked) - 1
  BY <1>1, <1>3, FS_RemoveElement
<1>5. Cardinality(asked) \in Nat /\ replies \in Nat
  BY CountedAre, SmallSets
<1>6. replies' + Cardinality(asked') = replies + Cardinality(asked)
  BY <1>1, <1>4, <1>5
<1>. QED BY <1>1, <1>2, <1>6 DEF CountInv

LEMMA CountOnWrite ==
  ASSUME MaxSaid \in Nat, MaxRare \in Nat, HoldTyped, HoldTyped', HoldCalls, CountInv, Writes
  PROVE  CountInv'
<1>1. /\ UNCHANGED <<worded, agg, out, timeouts, commit, open, ending, holding, asked, replies>>
      /\ writing \in Replies /\ call[writing] = "no"
  BY DEF Writes, callerVars, turnVars, outVars, HoldTyped, LlmTyped, Numbers, Replies,
     HoldCalls, CallsInv
<1>2. \A n : Has(q', "result", n) => Has(q, "result", n)
  <2>1. q \in Seq(QFrames) /\ \A k \in {"audio", "over", "call"} :
          Frame(k, writing) \in QFrames /\ Frame(k, writing).is = k
    BY <1>1 DEF Frame, QFrames, HoldTyped, GateTyped, Replies, Numbers
  <2>2. ASSUME NEW k \in {"audio", "over"}, q' = Append(q, Frame(k, writing))
        PROVE  \A n : Has(q', "result", n) => Has(q, "result", n)
    BY <2>1, <2>2, HasAppend
  <2>3. ASSUME q' = q \o <<Frame("call", writing), Frame("over", writing)>>
        PROVE  \A n : Has(q', "result", n) => Has(q, "result", n)
    <3>. DEFINE a == Append(q, Frame("call", writing))
    <3>1. q' = Append(a, Frame("over", writing)) /\ a \in Seq(QFrames)
      BY <2>1, <2>3
    <3>2. \A n : Has(a, "result", n) => Has(q, "result", n)
      BY <2>1, HasAppend
    <3>. HIDE DEF a
    <3>3. \A n : Has(q', "result", n) => Has(a, "result", n)
      BY <2>1, <3>1, HasAppend
    <3>. QED BY <3>2, <3>3
  <2>. QED BY <2>2, <2>3 DEF Writes
<1>3. \A n \in Replies : call[n] = "reported" => call'[n] = "reported"
  BY <1>1 DEF Writes, HoldTyped, LlmTyped
<1>4. Answered \in SUBSET Answered'
  BY <1>1, <1>2, <1>3 DEF Answered
<1>5. CASE UNCHANGED call
  <2>1. UNCHANGED Called
    BY <1>5 DEF Called
  <2>2. Cardinality(asked') <= Cardinality(asked)
    BY <1>1, CountedAre, SmallSets
  <2>. QED BY <1>1, <1>4, <2>1, <2>2, CountStep DEF CountInv
<1>6. CASE Rare < MaxRare /\ call' = [call EXCEPT ![writing] = "running"]
  <2>1. Called' = Called \cup {writing} /\ writing \notin Called
    BY <1>1, <1>6 DEF Called, HoldTyped, LlmTyped
  <2>2. Cardinality(Called') = Cardinality(Called) + 1
    BY <2>1, CountedAre, SmallSets, FS_AddElement
  <2>3. timeouts + Cardinality(Called) < MaxRare
    BY <1>6 DEF Rare, Called
  <2>4. timeouts' + Cardinality(Called') <= MaxRare
    BY <2>2, <2>3, <1>1, CountedAre, SmallSets
  <2>5. Cardinality(Answered) <= Cardinality(Answered') /\ Cardinality(Answered') \in Nat
    <3>1. Answered' \in SUBSET Replies
      BY DEF Answered
    <3>. QED BY <3>1, <1>4, SmallSets, FS_Subset
  <2>6. replies' + Cardinality(asked') <= Cardinality(worded' \ agg') + Cardinality(Answered')
    <3>1. Cardinality(worded \ agg) \in Nat /\ Cardinality(Answered) \in Nat /\ Cardinality(asked) \in Nat
          /\ replies \in Nat
      BY CountedAre, SmallSets
    <3>2. replies + Cardinality(asked) <= Cardinality(worded \ agg) + Cardinality(Answered)
      BY DEF CountInv
    <3>3. UNCHANGED <<replies, asked, worded, agg>>
      BY <1>1
    <3>. QED BY <2>5, <3>1, <3>2, <3>3
  <2>. QED BY <2>4, <2>6, <1>1 DEF CountInv
<1>. QED BY <1>5, <1>6 DEF Writes

LEMMA CountOnOut ==
  ASSUME MaxSaid \in Nat, MaxRare \in Nat, HoldTyped, HoldTyped', HoldCalls, CountInv, OutGoesOn
  PROVE  CountInv'
<1>. DEFINE f == Head(out)
<1>1. /\ out \in Seq(OutFrames) /\ out # <<>> /\ out' = Tail(out)
      /\ UNCHANGED <<q, call, replies, worded, agg, timeouts, commit, open, ending, holding>>
  BY DEF OutGoesOn, callerVars, turnVars, gateVars, HoldTyped, OutTyped
<1>2. f \in OutFrames
  BY <1>1, TailIs
<1>3. \A k, n : Has(out, k, n) <=> Has(out', k, n) \/ (f.is = k /\ f.n = n)
  BY <1>1, HasTail
<1>4. UNCHANGED Called /\ Answered \in SUBSET Answered' /\ Answered' \in SUBSET Replies
  BY <1>1, <1>3 DEF Answered, Called
<1>5. CASE asked' = asked
  <2>1. Cardinality(asked') <= Cardinality(asked)
    BY <1>5, CountedAre, SmallSets
  <2>. QED BY <1>1, <1>4, <2>1, CountStep DEF CountInv
<1>6. CASE f.asks /\ asked' = asked \cup {"result"}
  <2>1. f.is = "result"
    BY <1>2, <1>6 DEF OutFrames
  <2>2. Has(out, "result", f.n) /\ f.n \in Replies
    <3>1. Has(out, "result", f.n)
      BY <1>3, <2>1
    <3>2. f.n \in Numbers
      BY <1>2 DEF OutFrames
    <3>3. f.n \in 1..replies
      BY <3>1, <3>2 DEF HoldCalls, FramesAsked
    <3>. QED BY <3>1, <3>3 DEF HoldTyped, LlmTyped, Numbers, Replies
  <2>3. f.n \notin Answered
    BY <2>2 DEF Answered
  <2>4. f.n \in Answered'
    <3>1. call'[f.n] = "reported" /\ ~Has(q', "result", f.n)
      BY <1>1, <2>2 DEF HoldCalls, FramesInv, CallsInv, CallWell
    <3>2. ~Has(out', "result", f.n)
      BY <1>1, <2>1, OnceTail DEF HoldCalls, FramesInv
    <3>. QED BY <3>1, <3>2, <2>2 DEF Answered
  <2>5. IsFiniteSet(Answered) /\ Cardinality(Answered \cup {f.n}) = Cardinality(Answered) + 1
    BY <2>3, CountedAre, SmallSets, FS_AddElement
  <2>6. Cardinality(Answered) + 1 <= Cardinality(Answered') /\ Cardinality(Answered') \in Nat
    <3>1. Answered \cup {f.n} \in SUBSET Answered' /\ IsFiniteSet(Answered')
      BY <2>4, <1>4, SmallSets
    <3>2. Cardinality(Answered \cup {f.n}) <= Cardinality(Answered')
      BY <3>1, FS_Subset
    <3>. QED BY <3>1, <3>2, <2>5, FS_CardinalityType
  <2>7. IsFiniteSet(asked) /\ Cardinality(asked') <= Cardinality(asked) + 1 /\ Cardinality(asked') \in Nat
    <3>1. IsFiniteSet(asked) /\ Cardinality(asked) \in Nat
      BY CountedAre, SmallSets
    <3>2. asked' \in SUBSET {"commit", "turn", "result"}
      BY DEF HoldTyped, LlmTyped
    <3>. QED BY <3>1, <3>2, <1>6, SmallSets, FS_AddElement
  <2>8. Cardinality(worded \ agg) \in Nat /\ Cardinality(Answered) \in Nat /\ Cardinality(asked) \in Nat
        /\ replies \in Nat
    BY CountedAre, SmallSets
  <2>9. replies + Cardinality(asked) <= Cardinality(worded \ agg) + Cardinality(Answered)
    BY DEF CountInv
  <2>10. replies + Cardinality(asked') <= Cardinality(worded \ agg) + Cardinality(Answered')
    BY <2>6, <2>7, <2>8, <2>9
  <2>11. replies' + Cardinality(asked') <= Cardinality(worded' \ agg') + Cardinality(Answered')
    BY <2>10, <1>1
  <2>. QED BY <1>1, <1>4, <2>11 DEF CountInv
<1>. QED BY <1>5, <1>6 DEF OutGoesOn

(* Requests are no more than what was committed, and the calls answered. *)
LEMMA CountKeeps ==
  ASSUME MaxSaid \in Nat, MaxRare \in Nat, HoldTyped, HoldTyped', HoldCalls, CountInv, [Next]_vars
  PROVE  CountInv'
<1>. USE DEF callerVars, turnVars, ctxVars, llmVars, gateVars, outVars
<1>1. Cardinality(asked) \in Nat /\ IsFiniteSet(asked)
  BY CountedAre, SmallSets
<1>2. \A S \in SUBSET asked : Cardinality(S) <= Cardinality(asked)
  BY <1>1, FS_Subset
<1>3. ASSUME UNCHANGED <<replies, timeouts, worded, agg, q, out, call>>, asked' \in SUBSET asked,
             commit' # "no" => open' /\ agg' # {}, ending' => ~holding'
      PROVE  CountInv'
  <2>1. UNCHANGED Answered /\ UNCHANGED Called
    BY <1>3, AnsweredStays
  <2>. QED BY <1>2, <1>3, <2>1, CountStep
<1>4. CASE Onset
  BY <1>3, <1>4 DEF Onset, Hears, CountInv
<1>5. CASE VadStarts
  BY <1>3, <1>5 DEF VadStarts, Hears, CountInv
<1>6. CASE Stops
  BY <1>3, <1>6 DEF Stops, CountInv
<1>7. CASE WordsCome
  <2>1. worded \ agg \in SUBSET (worded' \ agg')
    BY <1>7 DEF WordsCome
  <2>2. UNCHANGED <<replies, timeouts, q, out, call, asked, commit, ending,
                    holding>> /\ open' /\ agg' # {}
    BY <1>7 DEF WordsCome
  <2>3. UNCHANGED Answered /\ UNCHANGED Called
    BY <2>2, AnsweredStays
  <2>. QED BY <1>2, <2>1, <2>2, <2>3, CountStep DEF CountInv
<1>8. CASE Commits
  BY <1>3, <1>8 DEF Commits, CountInv
<1>9. CASE Proceeds
  <2>1. CASE Pushes
    <3>1. commit # "no" /\ UNCHANGED <<worded, call, out, timeouts>>
      BY <1>9 DEF Proceeds
    <3>. QED BY <2>1, <3>1, CountOnPush DEF CountInv
  <2>2. CASE ~Pushes
    BY <1>3, <1>9, <2>2 DEF Proceeds, CountInv
  <2>. QED BY <2>1, <2>2
<1>10. CASE WaitRunsOut
  <2>1. timeouts' + Cardinality(Called) <= MaxRare
    <3>1. timeouts + Cardinality(Called) < MaxRare /\ timeouts' = timeouts + 1
      BY <1>10 DEF WaitRunsOut, Rare, Called
    <3>. QED BY <3>1, CountedAre, SmallSets
  <2>. QED BY <1>10, <2>1, CountOnPush DEF WaitRunsOut
<1>11. CASE Closes
  BY <1>3, <1>11 DEF Closes, CountInv
<1>12. CASE Reconciles
  <2>1. /\ UNCHANGED <<replies, timeouts, worded, agg, q, out, call, commit, open, ending, holding>>
        /\ asked' = (asked \ {"commit"}) \cup {"turn"} /\ "commit" \in asked
    BY <1>12 DEF Reconciles
  <2>2. Cardinality(asked \ {"commit"}) = Cardinality(asked) - 1 /\ IsFiniteSet(asked \ {"commit"})
    BY <1>1, <2>1, FS_RemoveElement
  <2>3. Cardinality(asked') <= Cardinality(asked)
    <3>. DEFINE r == asked \ {"commit"}
    <3>1. asked' = r \cup {"turn"} /\ IsFiniteSet(r) /\ Cardinality(r) = Cardinality(asked) - 1
      BY <2>1, <2>2
    <3>. HIDE DEF r
    <3>2. Cardinality(r \cup {"turn"}) = IF "turn" \in r THEN Cardinality(r) ELSE Cardinality(r) + 1
      BY <3>1, FS_AddElement
    <3>. QED BY <3>1, <3>2, <1>1
  <2>4. UNCHANGED Answered /\ UNCHANGED Called
    BY <2>1, AnsweredStays
  <2>. QED BY <2>1, <2>3, <2>4, CountStep DEF CountInv
<1>13. CASE AsksOnTurn \/ AsksOnResult
  BY <1>13, CountOnAsk DEF AsksOnTurn, AsksOnResult
<1>14. CASE Writes
  BY <1>14, CountOnWrite
<1>15. ASSUME NEW n \in Replies, ToolEnds(n) PROVE CountInv'
  <2>1. /\ UNCHANGED <<replies, timeouts, worded, agg, asked, out, commit, open, ending, holding>>
        /\ call[n] = "running" /\ call' = [call EXCEPT ![n] = "reported"] /\ q' = Append(q, Frame("result", n))
    BY <1>15 DEF ToolEnds
  <2>2. \A m \in Replies : call'[m] = IF m = n THEN "reported" ELSE call[m]
    BY <2>1 DEF HoldTyped, LlmTyped
  <2>3. UNCHANGED Called
    BY <2>1, <2>2 DEF Called
  <2>4. \A m \in Replies : Has(q', "result", m) <=> Has(q, "result", m) \/ m = n
    <3>1. q \in Seq(QFrames) /\ Frame("result", n) \in QFrames /\ Frame("result", n).is = "result"
          /\ Frame("result", n).n = n
      BY DEF Frame, QFrames, HoldTyped, GateTyped, Replies, Numbers
    <3>. QED BY <2>1, <3>1, HasAppend
  <2>5. Answered \in SUBSET Answered'
    BY <2>1, <2>2, <2>4 DEF Answered
  <2>. QED BY <1>2, <2>1, <2>3, <2>5, CountStep DEF CountInv
<1>16. ASSUME NEW i, CutAtLlm(i) PROVE CountInv'
  <2>1. UNCHANGED <<replies, timeouts, worded, agg, q, out, commit, open, ending, holding>>
        /\ asked' \in SUBSET asked
    BY <1>16 DEF CutAtLlm
  <2>2. \A m \in Replies : call'[m] = call[m] \/ (call[m] = "running" /\ call'[m] = "cancelled")
    BY <1>16 DEF CutAtLlm, HoldTyped, LlmTyped
  <2>3. UNCHANGED Called
    BY <2>2 DEF Called
  <2>4. Answered \in SUBSET Answered'
    BY <2>1, <2>2 DEF Answered
  <2>. QED BY <1>2, <2>1, <2>3, <2>4, CountStep DEF CountInv
<1>17. ASSUME NEW i, CutAtGate(i) PROVE CountInv'
  <2>1. UNCHANGED <<replies, timeouts, worded, agg, asked, out, call, commit, open,
                    ending>> /\ holding' = FALSE
        /\ q' = Kept(q)
    BY <1>17 DEF CutAtGate
  <2>2. UNCHANGED Called
    BY <2>1 DEF Called
  <2>3. \A n : Has(q', "result", n) <=> Has(q, "result", n)
    BY <2>1, HasKept DEF HoldTyped, GateTyped
  <2>4. Answered \in SUBSET Answered'
    BY <2>1, <2>3 DEF Answered
  <2>. QED BY <1>2, <2>1, <2>2, <2>4, CountStep DEF CountInv
<1>18. ASSUME NEW i, CutAtOut(i) PROVE CountInv'
  <2>1. UNCHANGED <<replies, timeouts, worded, agg, asked, q, call, commit, open, ending, holding>>
        /\ out' = Kept(out)
    BY <1>18 DEF CutAtOut
  <2>2. UNCHANGED Called
    BY <2>1 DEF Called
  <2>3. \A n : Has(out', "result", n) <=> Has(out, "result", n)
    BY <2>1, HasKept DEF HoldTyped, OutTyped
  <2>4. Answered \in SUBSET Answered'
    BY <2>1, <2>3 DEF Answered
  <2>. QED BY <1>2, <2>1, <2>2, <2>4, CountStep DEF CountInv
<1>19. CASE Passes
  <2>. DEFINE f == Head(q)
              g == [is |-> f.is, n |-> f.n, asks |-> AsksAgain(f)]
  <2>1. /\ UNCHANGED <<replies, timeouts, worded, agg, asked, call, commit, open, ending, holding>>
        /\ q' = Tail(q) /\ q # <<>> /\ q \in Seq(QFrames) /\ out \in Seq(OutFrames)
        /\ out' = out \/ (f.is # "over" /\ out' = Append(out, g))
    BY <1>19 DEF Passes, HoldTyped, GateTyped, OutTyped
  <2>2. f \in QFrames
    BY <2>1, TailIs
  <2>3. f.is # "over" => g \in OutFrames
    BY <2>2 DEF QFrames, OutFrames, AsksAgain
  <2>4. g.is = f.is /\ g.n = f.n
    OBVIOUS
  <2>5. \A n : Has(q, "result", n) <=> Has(q', "result", n) \/ (f.is = "result" /\ f.n = n)
    BY <2>1, HasTail
  <2>6. \A n : Has(out', "result", n) => Has(out, "result", n) \/ (f.is = "result" /\ f.n = n)
    <3>1. CASE out' = out
      BY <3>1
    <3>2. CASE f.is # "over" /\ out' = Append(out, g)
      BY <3>2, <2>1, <2>3, <2>4, HasAppend
    <3>. QED BY <2>1, <3>1, <3>2
  <2>. HIDE DEF f, g
  <2>7. Answered \in SUBSET Answered'
    BY <2>1, <2>5, <2>6 DEF Answered
  <2>8. UNCHANGED Called
    BY <2>1 DEF Called
  <2>. QED BY <1>2, <2>1, <2>7, <2>8, CountStep DEF CountInv
<1>20. CASE OutGoesOn
  BY <1>20, CountOnOut
<1>21. CASE Released \/ CapReached
  BY <1>3, <1>21 DEF Released, CapReached, CountInv
<1>22. CASE Ends
  <2>1. UNCHANGED <<replies, timeouts, worded, agg, asked, out, call, commit, open>> /\ holding' = FALSE
        /\ q' = Append(q, Frame("end", 0))
    BY <1>22 DEF Ends, EndHolds
  <2>2. UNCHANGED Called
    BY <2>1 DEF Called
  <2>3. \A n : Has(q', "result", n) => Has(q, "result", n)
    <3>1. q \in Seq(QFrames) /\ Frame("end", 0) \in QFrames /\ Frame("end", 0).is = "end"
      BY DEF Frame, QFrames, HoldTyped, GateTyped, Numbers
    <3>. QED BY <2>1, <3>1, HasAppend
  <2>4. Answered \in SUBSET Answered'
    BY <2>1, <2>3 DEF Answered
  <2>. QED BY <1>2, <2>1, <2>2, <2>4, CountStep DEF CountInv
<1>23. CASE Over \/ UNCHANGED vars
  <2>1. UNCHANGED <<replies, timeouts, worded, agg, q, out, call, asked, commit, open, ending, holding>>
    BY <1>23 DEF Over, vars
  <2>. QED BY <1>3, <2>1 DEF CountInv
<1>. QED
  BY <1>4, <1>5, <1>6, <1>7, <1>8, <1>9, <1>10, <1>11, <1>12, <1>13, <1>14, <1>15, <1>16,
     <1>17, <1>18,
     <1>19, <1>20, <1>21, <1>22, <1>23 DEF Next, Cuts

LEMMA HoldStarts ==
  ASSUME MaxSaid \in Nat, MaxRare \in Nat, Init
  PROVE  HoldTyped /\ HoldCalls /\ CountInv
<1>1. TalkTyped
  <2>1. cuts \in Seq(CutFrames) /\ Len(cuts) = 0
    BY DEF Init
  <2>2. worded = {} /\ agg = {} /\ said = 0 /\ timeouts = 0 /\ line = "quiet" /\ open \in BOOLEAN /\ commit = "no"
    BY DEF Init
  <2>. QED BY <2>1, <2>2 DEF TalkTyped
<1>2. CtxTyped /\ OutTyped
  <2>1. ctx \in Seq(Messages) /\ Len(ctx) = 0 /\ out \in Seq(OutFrames)
    BY DEF Init
  <2>2. lastUser = 0 /\ merge \in BOOLEAN /\ overtaken = {} /\ played = {} /\ settled = {} /\ over \in BOOLEAN
    BY DEF Init
  <2>. QED BY <2>1, <2>2 DEF CtxTyped, OutTyped
<1>3. LlmTyped /\ GateTyped
  <2>1. q \in Seq(QFrames)
    BY DEF Init
  <2>2. LlmTyped
    BY DEF Init, LlmTyped, Numbers
  <2>. QED BY <2>1, <2>2 DEF Init, GateTyped
<1>4. \A k, n : ~Has(q, k, n) /\ ~Has(out, k, n) /\ ~Has(ctx, k, n) /\ ~OpenIn(ctx, n)
  BY DEF Init, Has, OpenIn
<1>5. OncePlaced(q) /\ OncePlaced(out)
  BY DEF Init, OncePlaced
<1>6. FramesAsked /\ FramesInv
  BY <1>4, <1>5 DEF FramesAsked, FramesInv, Init
<1>7. CallsInv
  BY <1>4 DEF CallsInv, CallWell, Init
<1>8. CountInv
  <2>1. Answered = {} /\ Called = {} /\ worded \ agg = {} /\ asked = {}
    BY DEF Answered, Called, Init
  <2>2. Cardinality({}) = 0
    BY FS_EmptySet
  <2>3. replies = 0 /\ timeouts = 0 /\ commit = "no" /\ holding = FALSE
    BY DEF Init
  <2>. QED BY <2>1, <2>2, <2>3 DEF CountInv
<1>. QED BY <1>1, <1>2, <1>3, <1>6, <1>7, <1>8 DEF HoldTyped, HoldCalls

HoldInv == HoldTyped /\ HoldCalls /\ CountInv

LEMMA HoldGivesNothingHangs ==
  ASSUME MaxSaid \in Nat, MaxRare \in Nat, HoldInv
  PROVE  NoOrphanCall /\ EndIsNotHeld
<1>1. EndIsNotHeld
  BY DEF HoldInv, CountInv, EndIsNotHeld
<1>2. ASSUME NEW i \in DOMAIN ctx, ctx[i].is = "call", ctx[i].st = "open"
      PROVE  call[ctx[i].n] = "running"
             \/ \E f \in Range(q) \cup Range(out) : f.is = "result" /\ f.n = ctx[i].n
  <2>. DEFINE n == ctx[i].n
  <2>1. OpenIn(ctx, n) /\ Has(ctx, "call", n)
    BY <1>2 DEF OpenIn, Has
  <2>2. n \in Replies
    BY <1>2 DEF HoldInv, HoldTyped, CtxTyped, Messages, Turns, Rounds, Heard
  <2>3. call[n] \in {"running", "reported"}
    BY <2>1, <2>2 DEF HoldInv, HoldTyped, LlmTyped, HoldCalls, CallsInv, CallWell
  <2>4. call[n] = "reported" => Has(q, "result", n) \/ Has(out, "result", n)
    BY <2>1, <2>2 DEF HoldInv, HoldCalls, CallsInv, CallWell
  <2>5. Has(q, "result", n) => \E f \in Range(q) : f.is = "result" /\ f.n = n
    BY DEF Has, Range
  <2>6. Has(out, "result", n) => \E f \in Range(out) : f.is = "result" /\ f.n = n
    BY DEF Has, Range
  <2>. QED BY <2>3, <2>4, <2>5, <2>6
<1>. QED BY <1>1, <1>2 DEF NoOrphanCall

-----------------------------------------------------------------------------
(* What the caller has said, of a context.                                  *)

LEMMA SaidAppend ==
  ASSUME NEW c \in Seq(Messages), NEW m \in Messages
  PROVE  /\ User(m) => Said(Append(c, m)) = Said(c) \cup m.says
         /\ ~User(m) => Said(Append(c, m)) = Said(c)
<1>. DEFINE a == Append(c, m)
<1>1. /\ DOMAIN a = DOMAIN c \cup {Len(c) + 1} /\ a[Len(c) + 1] = m
      /\ \A i \in DOMAIN c : a[i] = c[i]
  BY AppendIs
<1>. HIDE DEF a
<1>2. Range(a) = Range(c) \cup {m}
  BY <1>1 DEF Range
<1>. QED BY <1>2 DEF Said, a

(* A context with the same turns at the same places, and no other, says the same. *)
SameTurns(c, d) ==
  /\ \A i \in DOMAIN c : User(c[i]) => i \in DOMAIN d /\ d[i] = c[i]
  /\ \A i \in DOMAIN d : User(d[i]) => i \in DOMAIN c /\ c[i] = d[i]

LEMMA SameTurnsSay ==
  ASSUME NEW c, NEW d, SameTurns(c, d)
  PROVE  Said(c) = Said(d)
<1>1. \A m \in Range(c) : User(m) => m \in Range(d)
  BY DEF SameTurns, Range
<1>2. \A m \in Range(d) : User(m) => m \in Range(c)
  BY DEF SameTurns, Range
<1>. QED BY <1>1, <1>2 DEF Said

LEMMA FoldedSays ==
  ASSUME ctx \in Seq(Messages), lastUser \in 1..Len(ctx), User(ctx[lastUser]), Folds
  PROVE  Said(Folded) = Said(ctx)
<1>1. lastUser < Len(ctx) /\ User(ctx[Len(ctx)]) /\ Len(ctx) \in Nat
      /\ \A i \in (lastUser + 1)..(Len(ctx) - 1) : ~User(ctx[i])
  BY DEF Folds, Cancelled, User
<1>2. /\ DOMAIN Folded = 1..lastUser
      /\ \A i \in 1..lastUser : i \in DOMAIN ctx /\ i # lastUser => Folded[i] = ctx[i]
      /\ User(Folded[lastUser])
      /\ Folded[lastUser].says = ctx[lastUser].says \cup ctx[Len(ctx)].says
  BY <1>1, FoldedIs DEF User
<1>3. \A i \in DOMAIN ctx : User(ctx[i]) => i \in 1..lastUser \/ i = Len(ctx)
  BY <1>1
<1>4. Said(ctx) = UNION {ctx[i].says : i \in {j \in DOMAIN ctx : User(ctx[j])}}
  BY DEF Said, Range
<1>5. Said(Folded) = UNION {Folded[i].says : i \in {j \in 1..lastUser : User(Folded[j])}}
  BY <1>2 DEF Said, Range
<1>6. ASSUME NEW u \in Said(Folded) PROVE u \in Said(ctx)
  <2>1. PICK i \in 1..lastUser : User(Folded[i]) /\ u \in Folded[i].says
    BY <1>5, <1>6
  <2>2. i \in DOMAIN ctx /\ lastUser \in DOMAIN ctx /\ Len(ctx) \in DOMAIN ctx
    BY <1>1
  <2>3. CASE i = lastUser
    <3>1. u \in ctx[lastUser].says \/ u \in ctx[Len(ctx)].says
      BY <2>1, <2>3, <1>2
    <3>. QED BY <3>1, <1>1, <1>4, <2>2
  <2>4. CASE i # lastUser
    BY <2>1, <2>2, <2>4, <1>2, <1>4
  <2>. QED BY <2>3, <2>4
<1>7. ASSUME NEW u \in Said(ctx) PROVE u \in Said(Folded)
  <2>1. PICK i \in DOMAIN ctx : User(ctx[i]) /\ u \in ctx[i].says
    BY <1>4, <1>7
  <2>2. lastUser \in 1..lastUser
    OBVIOUS
  <2>3. CASE i \in {lastUser, Len(ctx)}
    <3>1. u \in Folded[lastUser].says
      BY <2>1, <2>3, <1>2
    <3>. QED BY <3>1, <2>2, <1>2, <1>5
  <2>4. CASE i \notin {lastUser, Len(ctx)}
    <3>1. i \in 1..lastUser /\ Folded[i] = ctx[i]
      BY <2>1, <2>4, <1>2, <1>3
    <3>. QED BY <3>1, <2>1, <1>5
  <2>. QED BY <2>3, <2>4
<1>. QED BY <1>6, <1>7

-----------------------------------------------------------------------------
(* The reply fits the turn.                                                 *)

TurnInv ==
  /\ Said(ctx) \in SUBSET worded /\ Said(ctx) \cap agg = {}
  /\ \A n \in 1..replies : answers[n] \in SUBSET Said(ctx)
  /\ ending => asked \in SUBSET {"result"}
  /\ discard_to_end => ending
  /\ ~("commit" \in asked /\ "turn" \in asked)

Sound(f) == f.is \in {"audio", "over"}
SilentIn(s) == \A i \in DOMAIN s : ~Sound(s[i])
OneSoundIn(s) == \A i, j \in DOMAIN s : Sound(s[i]) /\ Sound(s[j]) => i = j
Silent == SilentIn(q)
Unasked == "commit" \notin asked /\ "turn" \notin asked
Cutting(stage) == cuts # <<>> /\ cuts[1].at = stage

(* What was asked before the turn is gone, or its cut is on the way to it. *)
Swept ==
  Cutting("llm") \/ (writing = 0 /\ Unasked /\ (Silent \/ Cutting("gate")))

(* Or the one reply to what was committed is to come, and is armed. *)
OneToCome ==
  /\ armed /\ cuts = <<>> /\ OneSoundIn(q)
  /\ ~Unasked => writing = 0 /\ Silent
  /\ writing # 0 => Silent

CutInv ==
  /\ Len(cuts) <= 1
  /\ cuts # <<>> => cuts[1].known /\ cuts[1].by \notin Said(ctx) /\ open /\ agg # {}
  /\ commit = "drops" => Swept
  /\ open /\ ~ending => Swept \/ OneToCome

(* What is about to play answers all that was said. *)
NewInv ==
  /\ \A i \in DOMAIN q : q[i].is = "audio" => Said(ctx) \in SUBSET answers[q[i].n]
  /\ writing # 0 => Said(ctx) \in SUBSET answers[writing]

(* The turn whose reply has not played is the last, or the one before a commit on its way. *)
Latest(c, i) == i \in DOMAIN c /\ User(c[i]) /\ \A j \in DOMAIN c : j > i => ~User(c[j])
BeforeLatest(c, i) ==
  /\ i \in DOMAIN c /\ User(c[i])
  /\ \E l \in DOMAIN c : i < l /\ Latest(c, l) /\ \A j \in DOMAIN c : i < j /\ j < l => ~User(c[j])
Unheard(w) == \A n \in played : ~(w \in SUBSET answers[n])
LatestUnheard == \A i \in DOMAIN ctx : Latest(ctx, i) => Unheard(ctx[i].says)
MergeInv ==
  /\ "commit" \in asked => armed /\ Silent
  /\ armed => LatestUnheard
  /\ merge /\ "commit" \notin asked =>
       open /\ agg # {} /\ Silent /\ writing = 0 /\ Unasked /\ LatestUnheard
  /\ merge /\ "commit" \in asked => \A i \in DOMAIN ctx : BeforeLatest(ctx, i) => Unheard(ctx[i].says)

(* While no wait of the fence has run out, and the session is not ending. *)
FitInv ==
  /\ TurnInv
  /\ timeouts = 0 => CutInv
  /\ timeouts = 0 /\ ~ending => NewInv /\ MergeInv

LEMMA SoundsAppend ==
  ASSUME NEW T, NEW s \in Seq(T), NEW f \in T
  PROVE  /\ ~Sound(f) => /\ SilentIn(s) => SilentIn(Append(s, f))
                         /\ OneSoundIn(s) => OneSoundIn(Append(s, f))
         /\ SilentIn(s) => OneSoundIn(Append(s, f))
         /\ \A i \in DOMAIN Append(s, f) : Append(s, f)[i] = f \/ \E j \in DOMAIN s : Append(s, f)[i] = s[j]
<1>. DEFINE a == Append(s, f)
<1>1. /\ DOMAIN a = DOMAIN s \cup {Len(s) + 1} /\ a[Len(s) + 1] = f
      /\ \A i \in DOMAIN s : a[i] = s[i]
  BY AppendIs
<1>. HIDE DEF a
<1>2. ~Sound(f) /\ SilentIn(s) => SilentIn(a)
  BY <1>1 DEF SilentIn
<1>3. ~Sound(f) /\ OneSoundIn(s) => OneSoundIn(a)
  BY <1>1 DEF OneSoundIn
<1>4. SilentIn(s) => OneSoundIn(a)
  BY <1>1 DEF SilentIn, OneSoundIn
<1>5. \A i \in DOMAIN a : a[i] = f \/ \E j \in DOMAIN s : a[i] = s[j]
  BY <1>1
<1>. QED BY <1>2, <1>3, <1>4, <1>5 DEF a

LEMMA SoundsTail ==
  ASSUME NEW T, NEW s \in Seq(T), s # <<>>
  PROVE  /\ SilentIn(s) => SilentIn(Tail(s)) /\ ~Sound(Head(s))
         /\ OneSoundIn(s) => OneSoundIn(Tail(s))
         /\ OneSoundIn(s) /\ Sound(Head(s)) => SilentIn(Tail(s))
         /\ \A i \in DOMAIN Tail(s) : \E j \in DOMAIN s : Tail(s)[i] = s[j]
<1>. DEFINE t == Tail(s)
            h == Head(s)
<1>1. h = s[1] /\ 1 \in DOMAIN s /\ \A i \in DOMAIN t : i \in Nat /\ i # 0 /\ i + 1 \in DOMAIN s /\ t[i] = s[i + 1]
  BY TailIs
<1>. HIDE DEF t, h
<1>2. SilentIn(s) => SilentIn(t) /\ ~Sound(h)
  BY <1>1 DEF SilentIn
<1>3. ASSUME OneSoundIn(s), NEW i \in DOMAIN t, NEW j \in DOMAIN t, Sound(t[i]), Sound(t[j]) PROVE i = j
  <2>1. i + 1 = j + 1
    BY <1>1, <1>3 DEF OneSoundIn
  <2>. QED BY <2>1, <1>1
<1>4. ASSUME OneSoundIn(s), Sound(h), NEW i \in DOMAIN t, Sound(t[i]) PROVE FALSE
  <2>1. i + 1 = 1
    BY <1>1, <1>4 DEF OneSoundIn
  <2>. QED BY <2>1, <1>1
<1>5. \A i \in DOMAIN t : \E j \in DOMAIN s : t[i] = s[j]
  BY <1>1
<1>. QED BY <1>2, <1>3, <1>4, <1>5 DEF t, h, OneSoundIn, SilentIn

LEMMA SameTurnsLast ==
  ASSUME NEW c, NEW d, SameTurns(c, d)
  PROVE  /\ \A i : Latest(d, i) => Latest(c, i) /\ c[i] = d[i]
         /\ \A i : BeforeLatest(d, i) => BeforeLatest(c, i) /\ c[i] = d[i]
<1>1. \A i : i \in DOMAIN c /\ User(c[i]) <=> i \in DOMAIN d /\ User(d[i])
  BY DEF SameTurns
<1>2. \A i : Latest(d, i) => Latest(c, i) /\ c[i] = d[i]
  BY <1>1 DEF SameTurns, Latest
<1>3. \A i : BeforeLatest(d, i) => BeforeLatest(c, i) /\ c[i] = d[i]
  <2>. SUFFICES ASSUME NEW i, BeforeLatest(d, i) PROVE BeforeLatest(c, i) /\ c[i] = d[i]
    OBVIOUS
  <2>1. i \in DOMAIN d /\ User(d[i])
    BY DEF BeforeLatest
  <2>2. PICK l \in DOMAIN d : i < l /\ Latest(d, l) /\ \A j \in DOMAIN d : i < j /\ j < l => ~User(d[j])
    BY DEF BeforeLatest
  <2>3. l \in DOMAIN c /\ Latest(c, l)
    BY <2>2, <1>2 DEF Latest
  <2>4. \A j \in DOMAIN c : i < j /\ j < l => ~User(c[j])
    BY <2>2, <1>1
  <2>. QED BY <2>1, <2>2, <2>3, <2>4, <1>1 DEF BeforeLatest, SameTurns
<1>. QED BY <1>2, <1>3

(* What adds no sound and no turn keeps the reply fit. *)
LEMMA FitStep ==
  ASSUME FitInv, SameTurns(ctx, ctx'),
         UNCHANGED <<cuts, agg, worded, open, writing, replies, answers, played, merge, armed,
                     timeouts>>,
         commit' = "drops" => commit = "drops",
         "commit" \in asked' <=> "commit" \in asked,
         "turn" \in asked' <=> "turn" \in asked,
         ending => ending', ending' => asked' \in SUBSET {"result"}, discard_to_end' => ending',
         SilentIn(q) => SilentIn(q'), OneSoundIn(q) => OneSoundIn(q'),
         \A i \in DOMAIN q' : q'[i].is = "audio" => \E j \in DOMAIN q : q'[i] = q[j]
  PROVE  FitInv'
<1>1. Said(ctx') = Said(ctx)
  BY SameTurnsSay
<1>2. TurnInv'
  BY <1>1 DEF FitInv, TurnInv
<1>3. Unasked' <=> Unasked
  BY DEF Unasked
<1>4. \A s : Cutting(s)' <=> Cutting(s)
  BY DEF Cutting
<1>5. Swept => Swept'
  BY <1>3, <1>4 DEF Swept, Silent
<1>6. OneToCome => OneToCome'
  BY <1>3 DEF OneToCome, Silent
<1>7. timeouts' = 0 => CutInv'
  BY <1>1, <1>5, <1>6 DEF FitInv, CutInv
<1>8. ASSUME timeouts' = 0, ~ending' PROVE NewInv'
  <2>1. NewInv
    BY <1>8 DEF FitInv
  <2>. QED BY <2>1, <1>1 DEF NewInv
<1>9. ASSUME timeouts' = 0, ~ending' PROVE MergeInv'
  <2>1. MergeInv
    BY <1>9 DEF FitInv
  <2>2. \A w : Unheard(w) => Unheard(w)'
    BY DEF Unheard
  <2>3. LatestUnheard => LatestUnheard'
    BY <2>2, SameTurnsLast DEF LatestUnheard, Latest
  <2>4. (\A i \in DOMAIN ctx : BeforeLatest(ctx, i) => Unheard(ctx[i].says))
          => (\A i \in DOMAIN ctx : BeforeLatest(ctx, i) => Unheard(ctx[i].says))'
    BY <2>2, SameTurnsLast DEF BeforeLatest
  <2>. QED BY <2>1, <2>3, <2>4, <1>3 DEF MergeInv, Silent
<1>. QED BY <1>2, <1>7, <1>8, <1>9 DEF FitInv

(* While nothing of the replies moves. *)
LEMMA FitUnmoved ==
  ASSUME FitInv, UNCHANGED <<cuts, agg, worded, open, writing, replies, answers, played, merge,
                             armed, timeouts, ctx, asked, q, ending, discard_to_end>>,
         commit' = "drops" => commit = "drops"
  PROVE  FitInv'
<1>1. SameTurns(ctx, ctx')
  BY DEF SameTurns
<1>2. ending => asked \in SUBSET {"result"}
  BY DEF FitInv, TurnInv
<1>3. discard_to_end => ending
  BY DEF FitInv, TurnInv
<1>. QED BY <1>1, <1>2, <1>3, FitStep

LEMMA FitOnWords ==
  ASSUME HoldTyped, FitInv, WordsCome
  PROVE  FitInv'
<1>1. /\ said \notin worded /\ worded' = worded \cup {said} /\ agg' = agg \cup {said} /\ open' = TRUE
      /\ cuts' = IF open THEN cuts ELSE Cut(said)
      /\ UNCHANGED <<commit, ctx, asked, writing, replies, answers, q, armed, ending,
                     discard_to_end, played, merge, timeouts>>
  BY DEF WordsCome, ctxVars, llmVars, gateVars, outVars
<1>2. said \notin Said(ctx)
  BY <1>1 DEF FitInv, TurnInv
<1>3. TurnInv'
  <2>1. Said(ctx') = Said(ctx)
    BY <1>1
  <2>. QED BY <2>1, <1>1, <1>2 DEF FitInv, TurnInv
<1>4. ASSUME timeouts' = 0 PROVE CutInv'
  <2>1. CutInv
    BY <1>1, <1>4 DEF FitInv
  <2>2. CASE open
    <3>1. cuts' = cuts /\ agg' # {}
      BY <1>1, <2>2
    <3>2. Swept => Swept'
      BY <3>1, <1>1 DEF Swept, Cutting, Silent, Unasked
    <3>3. OneToCome => OneToCome'
      BY <3>1, <1>1 DEF OneToCome, Silent, Unasked
    <3>4. Said(ctx') = Said(ctx) /\ open' /\ ending' = ending /\ commit' = commit
      BY <1>1
    <3>. QED BY <2>1, <2>2, <3>1, <3>2, <3>3, <3>4 DEF CutInv
  <2>3. CASE ~open
    <3>1. cuts = <<>>
      BY <2>1, <2>3 DEF CutInv
    <3>2. cuts' = <<[at |-> "llm", known |-> TRUE, by |-> said]>>
      <4>1. cuts' = Cut(said)
        BY <1>1, <2>3
      <4>. QED BY <3>1, <4>1 DEF Cut
    <3>3. Len(cuts') = 1 /\ cuts' # <<>> /\ cuts'[1].known /\ cuts'[1].by = said /\ cuts'[1].at = "llm"
      BY <3>2
    <3>4. Swept'
      BY <3>3 DEF Swept, Cutting
    <3>5. said \notin Said(ctx') /\ agg' # {} /\ open'
      BY <1>1, <1>2
    <3>. QED BY <3>3, <3>4, <3>5 DEF CutInv
  <2>. QED BY <2>2, <2>3
<1>5. ASSUME timeouts' = 0, ~ending' PROVE NewInv' /\ MergeInv'
  <2>1. NewInv /\ MergeInv
    BY <1>1, <1>5 DEF FitInv
  <2>2. NewInv'
    BY <2>1, <1>1 DEF NewInv
  <2>3. LatestUnheard => LatestUnheard'
    BY <1>1 DEF LatestUnheard, Unheard
  <2>4. (\A i \in DOMAIN ctx : BeforeLatest(ctx, i) => Unheard(ctx[i].says))
          => (\A i \in DOMAIN ctx : BeforeLatest(ctx, i) => Unheard(ctx[i].says))'
    BY <1>1 DEF Unheard
  <2>5. MergeInv'
    <3>1. agg # {} => agg' # {}
      BY <1>1
    <3>. QED BY <2>1, <2>3, <2>4, <3>1, <1>1 DEF MergeInv, Silent, Unasked
  <2>. QED BY <2>2, <2>5
<1>. QED BY <1>3, <1>4, <1>5 DEF FitInv

LEMMA JustOne ==
  ASSUME NEW x
  PROVE  <<x>> # <<>> /\ <<x>>[1] = x /\ Len(<<x>>) <= 1
OBVIOUS

(* With nothing cut, and nothing open, there is no turn to sweep for. *)
LEMMA FitOnClose ==
  ASSUME FitInv, CountInv, Closes
  PROVE  FitInv'
<1>1. /\ agg = {} /\ open' = FALSE
      /\ UNCHANGED <<worded, agg, commit, cuts, ctx, asked, writing, replies, answers, q, armed,
                     ending, discard_to_end, played, merge, timeouts>>
  BY DEF Closes, callerVars, ctxVars, llmVars, gateVars, outVars
<1>2. commit = "no"
  BY <1>1 DEF CountInv
<1>3. TurnInv'
  <2>1. Said(ctx') = Said(ctx)
    BY <1>1
  <2>. QED BY <2>1, <1>1 DEF FitInv, TurnInv
<1>4. timeouts' = 0 => CutInv'
  BY <1>1, <1>2 DEF FitInv, CutInv
<1>5. ASSUME timeouts' = 0, ~ending' PROVE NewInv' /\ MergeInv'
  <2>1. NewInv /\ MergeInv
    BY <1>1, <1>5 DEF FitInv
  <2>2. NewInv'
    BY <2>1, <1>1 DEF NewInv
  <2>3. LatestUnheard => LatestUnheard'
    BY <1>1 DEF LatestUnheard, Unheard
  <2>4. (\A i \in DOMAIN ctx : BeforeLatest(ctx, i) => Unheard(ctx[i].says))
          => (\A i \in DOMAIN ctx : BeforeLatest(ctx, i) => Unheard(ctx[i].says))'
    BY <1>1 DEF Unheard
  <2>5. MergeInv'
    BY <2>1, <2>3, <2>4, <1>1 DEF MergeInv, Silent, Unasked
  <2>. QED BY <2>2, <2>5
<1>. QED BY <1>3, <1>4, <1>5 DEF FitInv

(* A commit finds the reply it may go on from dropped before it. *)
LEMMA FitOnDrop ==
  ASSUME HoldTyped, CountInv, FitInv, commit = "waits", Landed, commit' = "drops", cuts' = Cut(0),
         UNCHANGED <<callerVars, open, agg, ctxVars, llmVars, gateVars, outVars, timeouts>>
  PROVE  FitInv'
<1>1. UNCHANGED <<worded, agg, open, ctx, asked, writing, replies, answers, q, armed, ending,
                  discard_to_end, played, merge, timeouts>>
  BY DEF callerVars, ctxVars, llmVars, gateVars, outVars
<1>2. 0 \notin Said(ctx)
  BY DEF FitInv, TurnInv, HoldTyped, TalkTyped
<1>3. TurnInv'
  <2>1. Said(ctx') = Said(ctx)
    BY <1>1
  <2>. QED BY <2>1, <1>1 DEF FitInv, TurnInv
<1>4. ASSUME timeouts' = 0 PROVE CutInv'
  <2>1. CutInv
    BY <1>1, <1>4 DEF FitInv
  <2>2. cuts = <<>>
    <3>1. cuts # <<>> => 1 \in DOMAIN cuts
      BY DEF HoldTyped, TalkTyped
    <3>. QED BY <2>1, <3>1 DEF CutInv, Landed
  <2>3. cuts' = <<[at |-> "llm", known |-> TRUE, by |-> 0]>>
    BY <2>2 DEF Cut
  <2>. DEFINE one == [at |-> "llm", known |-> TRUE, by |-> 0]
  <2>7. one.known /\ one.by = 0 /\ one.at = "llm" /\ cuts' = <<one>>
    BY <2>3
  <2>. HIDE DEF one
  <2>8. cuts' # <<>> /\ cuts'[1] = one /\ Len(cuts') <= 1
    BY <2>7, JustOne
  <2>4. Len(cuts') <= 1 /\ cuts' # <<>> /\ cuts'[1].known /\ cuts'[1].by = 0 /\ cuts'[1].at = "llm"
    BY <2>7, <2>8
  <2>5. Swept'
    BY <2>4 DEF Swept, Cutting
  <2>6. 0 \notin Said(ctx') /\ agg' # {} /\ open'
    BY <1>1, <1>2 DEF CountInv
  <2>. QED BY <2>4, <2>5, <2>6 DEF CutInv
<1>5. ASSUME timeouts' = 0, ~ending' PROVE NewInv' /\ MergeInv'
  <2>1. NewInv /\ MergeInv
    BY <1>1, <1>5 DEF FitInv
  <2>2. NewInv'
    BY <2>1, <1>1 DEF NewInv
  <2>3. LatestUnheard => LatestUnheard'
    BY <1>1 DEF LatestUnheard, Unheard
  <2>4. (\A i \in DOMAIN ctx : BeforeLatest(ctx, i) => Unheard(ctx[i].says))
          => (\A i \in DOMAIN ctx : BeforeLatest(ctx, i) => Unheard(ctx[i].says))'
    BY <1>1 DEF Unheard
  <2>5. MergeInv'
    BY <2>1, <2>3, <2>4, <1>1 DEF MergeInv, Silent, Unasked
  <2>. QED BY <2>2, <2>5
<1>. QED BY <1>3, <1>4, <1>5 DEF FitInv

LEMMA LatestAppend ==
  ASSUME NEW c \in Seq(Messages), NEW m \in Messages, User(m)
  PROVE  /\ \A i : Latest(Append(c, m), i) => Append(c, m)[i] = m
         /\ \A i : BeforeLatest(Append(c, m), i) => Latest(c, i) /\ Append(c, m)[i] = c[i]
<1>. DEFINE a == Append(c, m)
            n == Len(c) + 1
<1>1. /\ DOMAIN a = DOMAIN c \cup {n} /\ a[n] = m /\ n \in Nat
      /\ \A i \in DOMAIN c : a[i] = c[i] /\ i < n /\ i \in Nat
  BY AppendIs
<1>. HIDE DEF a, n
<1>2. \A i : Latest(a, i) => i = n
  BY <1>1 DEF Latest
<1>3. ASSUME NEW i, BeforeLatest(a, i) PROVE Latest(c, i) /\ a[i] = c[i]
  <2>1. PICK l \in DOMAIN a : i < l /\ Latest(a, l) /\ \A j \in DOMAIN a : i < j /\ j < l => ~User(a[j])
    BY <1>3 DEF BeforeLatest
  <2>2. l = n /\ i \in DOMAIN a /\ User(a[i])
    BY <1>2, <1>3, <2>1 DEF BeforeLatest
  <2>3. i \in DOMAIN c
    BY <1>1, <2>1, <2>2
  <2>4. \A j \in DOMAIN c : j > i => ~User(c[j])
    BY <1>1, <2>1, <2>2, <2>3
  <2>. QED BY <1>1, <2>2, <2>3, <2>4 DEF Latest
<1>. QED BY <1>1, <1>2, <1>3 DEF a

LEMMA TurnOnPush ==
  ASSUME MaxSaid \in Nat, HoldTyped, FitInv, Pushes, UNCHANGED worded
  PROVE  TurnInv' /\ Said(ctx') = Said(ctx) \cup agg
<1>. DEFINE t == [is |-> "user", says |-> agg]
<1>1. ctx \in Seq(Messages) /\ t \in Messages /\ User(t) /\ t.says = agg /\ ctx' = Append(ctx, t)
  BY AggIsWords DEF Pushes, HoldTyped, CtxTyped, Messages, Turns, User
<1>. HIDE DEF t
<1>2. Said(ctx') = Said(ctx) \cup agg
  BY <1>1, SaidAppend
<1>3. /\ agg \in SUBSET worded /\ agg' = {} /\ UNCHANGED <<worded, replies, answers, ending,
                                                           discard_to_end>>
      /\ asked' = (IF ending THEN {} ELSE {"commit"})
  BY DEF Pushes, HoldTyped, TalkTyped
<1>4. \A n \in 1..replies : answers[n] \in SUBSET (Said(ctx) \cup agg)
  BY DEF FitInv, TurnInv
<1>. QED BY <1>2, <1>3, <1>4 DEF FitInv, TurnInv

LEMMA SilentIsOne ==
  ASSUME NEW s, SilentIn(s)
  PROVE  OneSoundIn(s) /\ \A i \in DOMAIN s : s[i].is # "audio"
BY DEF SilentIn, OneSoundIn, Sound

(* A commit that has waited finds nothing of an old reply left to play. *)
LEMMA FitOnPush ==
  ASSUME MaxSaid \in Nat, MaxRare \in Nat, HoldTyped, CountInv, FitInv, commit # "no", Landed,
         commit = "waits" => ~Continues, Pushes, UNCHANGED <<callerVars, call, cuts, outVars, timeouts>>
  PROVE  FitInv'
<1>1. TurnInv' /\ Said(ctx') = Said(ctx) \cup agg
  BY TurnOnPush DEF callerVars
<1>2. /\ UNCHANGED <<cuts, merge, writing, replies, answers, q, ending, played, timeouts>>
      /\ asked' = (IF ending THEN {} ELSE {"commit"}) /\ armed' = TRUE /\ commit' = "no"
  BY DEF Pushes, outVars
<1>3. agg # {} /\ open
  BY DEF CountInv
<1>4. ASSUME timeouts = 0 PROVE cuts = <<>>
  <2>1. CutInv
    BY <1>4 DEF FitInv
  <2>2. cuts # <<>> => 1 \in DOMAIN cuts
    BY DEF HoldTyped, TalkTyped
  <2>. QED BY <2>1, <2>2 DEF CutInv, Landed
<1>5. ASSUME timeouts = 0, ~ending PROVE writing = 0 /\ Unasked /\ Silent
  <2>1. CutInv /\ cuts = <<>>
    BY <1>4, <1>5 DEF FitInv
  <2>2. commit \in {"waits", "drops"}
    BY DEF HoldTyped, TalkTyped
  <2>3. Swept
    BY <2>1, <2>2, <1>3, <1>5 DEF CutInv, Continues, OneToCome
  <2>. QED BY <2>1, <2>3 DEF Swept, Cutting
<1>6. ASSUME timeouts' = 0 PROVE CutInv'
  <2>1. cuts' = <<>> /\ Len(cuts') <= 1
    BY <1>2, <1>4, <1>6
  <2>2. ASSUME ~ending' PROVE OneToCome'
    <3>1. writing = 0 /\ Silent
      BY <1>2, <1>5, <1>6, <2>2
    <3>2. OneSoundIn(q) /\ writing' = 0 /\ q' = q /\ armed'
      BY <3>1, <1>2, SilentIsOne DEF Silent
    <3>. QED BY <2>1, <3>1, <3>2 DEF OneToCome, Silent
  <2>. QED BY <1>2, <2>1, <2>2 DEF CutInv
<1>7. ASSUME timeouts' = 0, ~ending' PROVE NewInv' /\ MergeInv'
  <2>1. NewInv /\ MergeInv /\ writing = 0 /\ Unasked /\ Silent
    BY <1>2, <1>5, <1>7 DEF FitInv
  <2>2. asked' = {"commit"} /\ armed' /\ writing' = 0 /\ q' = q
    BY <1>2, <1>7, <2>1
  <2>3. NewInv'
    BY <2>1, <2>2, SilentIsOne DEF NewInv, Silent
  <2>. DEFINE t == [is |-> "user", says |-> agg]
  <2>4. ctx \in Seq(Messages) /\ t \in Messages /\ User(t) /\ t.says = agg /\ ctx' = Append(ctx, t)
    BY AggIsWords DEF Pushes, HoldTyped, CtxTyped, Messages, Turns, User
  <2>. HIDE DEF t
  <2>5. Unheard(agg)
    <3>1. \A n \in played : answers[n] \in SUBSET Said(ctx)
      BY DEF FitInv, TurnInv, HoldTyped, OutTyped
    <3>2. Said(ctx) \cap agg = {}
      BY DEF FitInv, TurnInv
    <3>. QED BY <3>1, <3>2, <1>3 DEF Unheard
  <2>6. UNCHANGED <<played, answers>>
    BY <1>2
  <2>7. LatestUnheard'
    <3>1. \A i : Latest(ctx', i) => ctx'[i].says = agg
      BY <2>4, LatestAppend
    <3>2. \A m \in played' : ~(agg \in SUBSET answers'[m])
      BY <2>5, <2>6 DEF Unheard
    <3>. QED BY <3>1, <3>2 DEF LatestUnheard, Unheard
  <2>8. merge => \A i : BeforeLatest(ctx', i) => \A m \in played' : ~(ctx'[i].says \in SUBSET answers'[m])
    <3>. SUFFICES ASSUME merge, NEW i, BeforeLatest(ctx', i)
         PROVE  \A m \in played' : ~(ctx'[i].says \in SUBSET answers'[m])
      OBVIOUS
    <3>1. Latest(ctx, i) /\ ctx'[i] = ctx[i]
      BY <2>4, LatestAppend
    <3>2. LatestUnheard
      BY <2>1 DEF MergeInv, Unasked
    <3>3. \A m \in played : ~(ctx[i].says \in SUBSET answers[m])
      BY <3>1, <3>2 DEF LatestUnheard, Latest, Unheard
    <3>. QED BY <3>1, <3>3, <2>6
  <2>9. MergeInv'
    <3>1. merge' = merge
      BY <1>2
    <3>2. (\A i \in DOMAIN ctx : BeforeLatest(ctx, i) => Unheard(ctx[i].says))' \/ ~merge'
      BY <2>8, <3>1 DEF Unheard
    <3>. QED BY <2>1, <2>2, <2>7, <3>1, <3>2 DEF MergeInv, Silent
  <2>. QED BY <2>3, <2>9
<1>. QED BY <1>1, <1>6, <1>7 DEF FitInv

LEMMA FitOnFold ==
  ASSUME HoldTyped, FitInv, Reconciles
  PROVE  FitInv'
<1>1. /\ UNCHANGED <<worded, agg, open, commit, cuts, writing, replies, answers, q, armed, ending,
                     discard_to_end, played, timeouts>>
      /\ "commit" \in asked /\ asked' = (asked \ {"commit"}) \cup {"turn"} /\ merge' = FALSE
  BY DEF Reconciles, callerVars, turnVars, gateVars, outVars
<1>2. ASSUME Folds
      PROVE  /\ ctx \in Seq(Messages) /\ lastUser \in 1..Len(ctx) /\ User(ctx[lastUser]) /\ ctx' = Folded
             /\ lastUser < Len(ctx) /\ User(ctx[Len(ctx)]) /\ Len(ctx) \in Nat
  BY <1>2 DEF Folds, Reconciles, HoldTyped, CtxTyped
<1>3. ~Folds => ctx' = ctx
  BY DEF Reconciles
<1>4. Said(ctx') = Said(ctx)
  BY <1>2, <1>3, FoldedSays
<1>5. TurnInv'
  BY <1>1, <1>4 DEF FitInv, TurnInv
<1>6. ~Unasked /\ ~Unasked'
  BY <1>1 DEF Unasked
<1>7. Swept => Swept'
  BY <1>1, <1>6 DEF Swept, Cutting
<1>8. OneToCome => OneToCome'
  BY <1>1, <1>6 DEF OneToCome, Silent
<1>9. timeouts' = 0 => CutInv'
  BY <1>1, <1>4, <1>7, <1>8 DEF FitInv, CutInv
<1>10. ASSUME timeouts' = 0, ~ending' PROVE NewInv' /\ MergeInv'
  <2>1. NewInv /\ MergeInv
    BY <1>1, <1>10 DEF FitInv
  <2>2. NewInv'
    BY <2>1, <1>1, <1>4 DEF NewInv
  <2>3. LatestUnheard
    BY <2>1, <1>1 DEF MergeInv
  <2>4. LatestUnheard'
    <3>1. CASE Folds
      <4>1. /\ DOMAIN Folded = 1..lastUser /\ User(Folded[lastUser]) /\ lastUser \in 1..lastUser
            /\ Folded[lastUser].says = ctx[lastUser].says \cup ctx[Len(ctx)].says
        BY <1>2, <3>1, FoldedIs DEF User
      <4>2. \A i : Latest(Folded, i) => i = lastUser
        BY <4>1 DEF Latest
      <4>3. Latest(ctx, Len(ctx)) /\ Len(ctx) \in DOMAIN ctx
        BY <1>2, <3>1 DEF Latest
      <4>4. \A n \in played : ~(ctx[Len(ctx)].says \in SUBSET answers[n])
        BY <4>3, <2>3 DEF LatestUnheard, Unheard
      <4>5. \A n \in played' : ~(Folded[lastUser].says \in SUBSET answers'[n])
        BY <4>1, <4>4, <1>1
      <4>6. ctx' = Folded
        BY <1>2, <3>1
      <4>7. \A i : Latest(ctx', i) => \A n \in played' : ~(ctx'[i].says \in SUBSET answers'[n])
        BY <4>2, <4>5, <4>6
      <4>. QED BY <4>7 DEF LatestUnheard, Unheard
    <3>2. CASE ~Folds
      BY <3>2, <2>3, <1>1, <1>3 DEF LatestUnheard, Unheard
    <3>. QED BY <3>1, <3>2
  <2>5. MergeInv'
    BY <2>4, <1>1 DEF MergeInv
  <2>. QED BY <2>2, <2>5
<1>. QED BY <1>5, <1>9, <1>10 DEF FitInv

(* A request is of all that is committed by then. *)
LEMMA FitOnAsk ==
  ASSUME MaxSaid \in Nat, MaxRare \in Nat, HoldTyped, HoldCalls, CountInv, FitInv,
         NEW who \in {"turn", "result"}, Asks(who), who = "result" => ~open
  PROVE  FitInv'
<1>1. replies + 1 \in Replies /\ replies \in Nat
  BY RoomToAsk DEF Asks, HoldTyped, LlmTyped, Numbers
<1>2. /\ UNCHANGED <<worded, agg, open, commit, cuts, ctx, merge, q, armed, ending, discard_to_end,
                     played, timeouts>>
      /\ who \in asked /\ asked' = asked \ {who} /\ writing = 0 /\ replies' = replies + 1 /\ writing' = replies + 1
      /\ answers' = [answers EXCEPT ![replies + 1] = Said(ctx)]
  BY DEF Asks, callerVars, turnVars, ctxVars, gateVars, outVars
<1>3. /\ answers'[replies + 1] = Said(ctx)
      /\ \A n \in 1..replies : answers'[n] = answers[n]
  BY <1>1, <1>2 DEF HoldTyped, LlmTyped
<1>4. TurnInv'
  <2>1. \A n \in 1..(replies + 1) : n \in 1..replies \/ n = replies + 1
    BY <1>1
  <2>2. \A n \in 1..replies' : answers'[n] \in SUBSET Said(ctx)
    BY <2>1, <1>2, <1>3 DEF FitInv, TurnInv
  <2>3. Said(ctx') = Said(ctx)
    BY <1>2
  <2>. QED BY <2>2, <2>3, <1>2 DEF FitInv, TurnInv
<1>5. ~open \/ who = "turn"
  OBVIOUS
<1>6. ASSUME timeouts' = 0 PROVE CutInv'
  <2>1. CutInv /\ Said(ctx') = Said(ctx)
    BY <1>2, <1>6 DEF FitInv
  <2>2. CASE who = "turn"
    <3>1. ~Unasked /\ Unasked'
      BY <1>2, <2>2 DEF Unasked, FitInv, TurnInv
    <3>2. Swept => Swept'
      BY <3>1, <1>2 DEF Swept, Cutting
    <3>3. OneToCome => OneToCome'
      BY <3>1, <1>2 DEF OneToCome, Silent
    <3>. QED BY <2>1, <3>2, <3>3, <1>2 DEF CutInv
  <2>3. CASE ~open
    <3>1. commit = "no"
      BY <2>3 DEF CountInv, HoldTyped, TalkTyped
    <3>. QED BY <2>1, <2>3, <3>1, <1>2 DEF CutInv
  <2>. QED BY <1>5, <2>2, <2>3
<1>7. ASSUME timeouts' = 0, ~ending' PROVE NewInv' /\ MergeInv'
  <2>1. NewInv /\ MergeInv /\ Said(ctx') = Said(ctx)
    BY <1>2, <1>7 DEF FitInv
  <2>2. \A i \in DOMAIN q : q[i].is = "audio" => q[i].n \in 1..replies
    <3>. SUFFICES ASSUME NEW i \in DOMAIN q, q[i].is = "audio" PROVE q[i].n \in 1..replies
      OBVIOUS
    <3>1. Has(q, "audio", q[i].n)
      BY DEF Has
    <3>2. q[i].n \in Numbers
      <4>1. q[i] \in QFrames
        BY DEF HoldTyped, GateTyped
      <4>. QED BY <4>1 DEF QFrames
    <3>. QED BY <3>1, <3>2 DEF HoldCalls, FramesAsked
  <2>3. NewInv'
    BY <2>1, <2>2, <1>2, <1>3 DEF NewInv
  <2>4. played \in SUBSET (1..replies)
    BY DEF HoldTyped, OutTyped
  <2>5. LatestUnheard => LatestUnheard'
    BY <2>4, <1>2, <1>3 DEF LatestUnheard, Unheard
  <2>6. (\A i \in DOMAIN ctx : BeforeLatest(ctx, i) => Unheard(ctx[i].says))
          => (\A i \in DOMAIN ctx : BeforeLatest(ctx, i) => Unheard(ctx[i].says))'
    BY <2>4, <1>2, <1>3 DEF Unheard
  <2>7. "commit" \in asked' <=> "commit" \in asked
    BY <1>2
  <2>8. merge => "commit" \in asked
    BY <2>1, <1>2, <1>5 DEF MergeInv, Unasked
  <2>9. UNCHANGED <<merge, armed, q>>
    BY <1>2
  <2>10. MergeInv'
    BY <2>1, <2>5, <2>6, <2>7, <2>8, <2>9 DEF MergeInv, Silent
  <2>. QED BY <2>3, <2>10
<1>. QED BY <1>4, <1>6, <1>7 DEF FitInv

LEMMA FitOnWrite ==
  ASSUME MaxSaid \in Nat, MaxRare \in Nat, HoldTyped, FitInv, Writes
  PROVE  FitInv'
<1>. DEFINE w == writing
<1>1. /\ UNCHANGED <<worded, agg, open, commit, cuts, ctx, merge, asked, replies, answers, armed,
                     ending, discard_to_end, played, timeouts>>
      /\ w # 0 /\ w \in Numbers /\ writing' = 0 /\ "commit" \notin asked
      /\ \A i \in DOMAIN cuts : cuts[i].at # "gate"
  BY DEF Writes, callerVars, turnVars, ctxVars, outVars, HoldTyped, LlmTyped, Numbers
<1>2. q \in Seq(QFrames) /\ \A k \in {"audio", "over", "call"} :
        Frame(k, w) \in QFrames /\ Frame(k, w).is = k /\ Frame(k, w).n = w
  BY <1>1 DEF Frame, QFrames, HoldTyped, GateTyped
<1>3. /\ Silent => OneSoundIn(q')
      /\ \A i \in DOMAIN q' : q'[i].is = "audio" => q'[i].n = w \/ \E j \in DOMAIN q : q'[i] = q[j]
  <2>1. ASSUME NEW k \in {"audio", "over"}, q' = Append(q, Frame(k, w))
        PROVE  /\ Silent => OneSoundIn(q')
               /\ \A i \in DOMAIN q' : q'[i].is = "audio" => q'[i].n = w \/ \E j \in DOMAIN q : q'[i] = q[j]
    BY <2>1, <1>2, SoundsAppend DEF Silent
  <2>2. ASSUME q' = q \o <<Frame("call", w), Frame("over", w)>>
        PROVE  /\ Silent => OneSoundIn(q')
               /\ \A i \in DOMAIN q' : q'[i].is = "audio" => q'[i].n = w \/ \E j \in DOMAIN q : q'[i] = q[j]
    <3>. DEFINE a == Append(q, Frame("call", w))
    <3>1. q' = Append(a, Frame("over", w)) /\ a \in Seq(QFrames)
      BY <2>2, <1>2
    <3>2. /\ Silent => SilentIn(a)
          /\ \A i \in DOMAIN a : a[i].n = w \/ \E j \in DOMAIN q : a[i] = q[j]
      BY <1>2, SoundsAppend DEF Silent, Sound
    <3>. HIDE DEF a
    <3>3. /\ SilentIn(a) => OneSoundIn(q')
          /\ \A i \in DOMAIN q' : q'[i].n = w \/ \E j \in DOMAIN a : q'[i] = a[j]
      BY <3>1, <1>2, SoundsAppend
    <3>. QED BY <3>2, <3>3
  <2>. QED BY <2>1, <2>2 DEF Writes
<1>. HIDE DEF w
<1>4. writing = w
  BY DEF w
<1>5. Said(ctx') = Said(ctx)
  BY <1>1
<1>6. TurnInv'
  BY <1>1, <1>5 DEF FitInv, TurnInv
<1>7. ASSUME timeouts' = 0 PROVE CutInv'
  <2>1. CutInv
    BY <1>1, <1>7 DEF FitInv
  <2>2. Swept => Swept'
    BY <1>1, <1>4 DEF Swept, Cutting
  <2>3. OneToCome => OneToCome'
    <3>1. ASSUME OneToCome PROVE Unasked /\ Silent
      BY <3>1, <1>1, <1>4 DEF OneToCome
    <3>2. Unasked' <=> Unasked
      BY <1>1 DEF Unasked
    <3>. QED BY <3>1, <3>2, <1>1, <1>3 DEF OneToCome
  <2>. QED BY <2>1, <2>2, <2>3, <1>1, <1>5 DEF CutInv
<1>8. ASSUME timeouts' = 0, ~ending' PROVE NewInv' /\ MergeInv'
  <2>1. NewInv /\ MergeInv
    BY <1>1, <1>8 DEF FitInv
  <2>2. NewInv'
    BY <2>1, <1>1, <1>3, <1>4, <1>5 DEF NewInv
  <2>3. LatestUnheard => LatestUnheard'
    BY <1>1 DEF LatestUnheard, Unheard
  <2>4. ~merge
    BY <2>1, <1>1, <1>4 DEF MergeInv
  <2>5. MergeInv'
    BY <2>1, <2>3, <2>4, <1>1 DEF MergeInv
  <2>. QED BY <2>2, <2>5
<1>. QED BY <1>6, <1>7, <1>8 DEF FitInv

(* The only interruption there is while no wait ran out. *)
LEMMA OnlyCut ==
  ASSUME HoldTyped, CutInv, NEW i \in DOMAIN cuts
  PROVE  i = 1 /\ cuts # <<>> /\ Len(cuts) = 1 /\ cuts[1].known /\ open /\ agg # {} /\ cuts[1].by \notin Said(ctx)
<1>1. Len(cuts) <= 1 /\ Len(cuts) \in Nat /\ DOMAIN cuts = 1..Len(cuts)
  BY DEF CutInv, HoldTyped, TalkTyped
<1>2. i = 1 /\ cuts # <<>> /\ Len(cuts) = 1
  BY <1>1
<1>. QED BY <1>2 DEF CutInv

LEMMA MarkedTurns ==
  ASSUME NEW c \in Seq(Messages), NEW n, NEW st \in {"done", "cancelled"}
  PROVE  SameTurns(c, Marked(c, n, st))
<1>1. /\ DOMAIN Marked(c, n, st) = DOMAIN c
      /\ \A i \in DOMAIN c : /\ Marked(c, n, st)[i].is = c[i].is
                             /\ c[i].is # "call" => Marked(c, n, st)[i] = c[i]
  BY MarkedIs
<1>2. \A i \in DOMAIN c : User(c[i]) => c[i].is # "call"
  BY DEF User
<1>3. \A i \in DOMAIN c : User(Marked(c, n, st)[i]) <=> User(c[i])
  BY <1>1 DEF User
<1>. QED BY <1>1, <1>2, <1>3 DEF SameTurns

LEMMA AppendTurns ==
  ASSUME NEW c \in Seq(Messages), NEW m \in Messages, ~User(m)
  PROVE  SameTurns(c, Append(c, m))
<1>. DEFINE a == Append(c, m)
<1>1. /\ DOMAIN a = DOMAIN c \cup {Len(c) + 1} /\ a[Len(c) + 1] = m
      /\ \A i \in DOMAIN c : a[i] = c[i]
  BY AppendIs
<1>. HIDE DEF a
<1>. QED BY <1>1 DEF SameTurns, a

LEMMA SoundsTurns ==
  ASSUME NEW c \in Seq(Messages), NEW s \in Seq(OutFrames)
  PROVE  SameTurns(c, c \o Sounds(s))
<1>1. /\ \A i \in DOMAIN c : i \in DOMAIN (c \o Sounds(s)) /\ (c \o Sounds(s))[i] = c[i]
      /\ \A i \in DOMAIN (c \o Sounds(s)) : i \notin DOMAIN c => (c \o Sounds(s))[i].is = "audio"
  BY SoundsAre
<1>. QED BY <1>1 DEF SameTurns, User

LEMMA CutMoves ==
  ASSUME NEW x \in CutFrames, NEW stage \in {"gate", "out"}
  PROVE  /\ [x EXCEPT !.at = stage].known = x.known /\ [x EXCEPT !.at = stage].by = x.by
         /\ [x EXCEPT !.at = stage].at = stage
BY DEF CutFrames

(* What was unheard of the same turns is. *)
LEMMA UnheardStays ==
  ASSUME SameTurns(ctx, ctx'), UNCHANGED <<played, answers>>
  PROVE  /\ LatestUnheard => LatestUnheard'
         /\ (\A j \in DOMAIN ctx : BeforeLatest(ctx, j) => Unheard(ctx[j].says))
              => (\A j \in DOMAIN ctx : BeforeLatest(ctx, j) => Unheard(ctx[j].says))'
<1>1. \A w : Unheard(w) => Unheard(w)'
  BY DEF Unheard
<1>2. LatestUnheard => LatestUnheard'
  BY <1>1, SameTurnsLast DEF LatestUnheard, Latest
<1>3. (\A j \in DOMAIN ctx : BeforeLatest(ctx, j) => Unheard(ctx[j].says))
        => (\A j \in DOMAIN ctx : BeforeLatest(ctx, j) => Unheard(ctx[j].says))'
  BY <1>1, SameTurnsLast DEF BeforeLatest
<1>. QED BY <1>2, <1>3

(* At the LLM, what it wrote and was asked is gone. *)
LEMMA FitOnCutAtLlm ==
  ASSUME HoldTyped, FitInv, NEW i \in DOMAIN cuts, CutAtLlm(i)
  PROVE  FitInv'
<1>1. /\ UNCHANGED <<worded, agg, open, commit, merge, replies, answers, q, armed, ending,
                     discard_to_end, played, timeouts>>
      /\ writing' = 0 /\ cuts[i].at = "llm" /\ cuts' = [cuts EXCEPT ![i].at = "gate"]
      /\ asked' = IF cuts[i].known THEN {} ELSE asked
  BY DEF CutAtLlm, callerVars, turnVars, gateVars, At
<1>2. SameTurns(ctx, ctx')
  <2>1. ctx' = ctx \/ \E n \in Replies : ctx' = Marked(ctx, n, "cancelled")
    BY DEF CutAtLlm
  <2>2. ctx' = ctx => SameTurns(ctx, ctx')
    BY DEF SameTurns
  <2>. QED BY <2>1, <2>2, MarkedTurns DEF HoldTyped, CtxTyped
<1>3. Said(ctx') = Said(ctx)
  BY <1>2, SameTurnsSay
<1>4. TurnInv'
  BY <1>1, <1>3 DEF FitInv, TurnInv
<1>5. ASSUME timeouts' = 0 PROVE CutInv' /\ asked' = {} /\ open /\ agg # {}
  <2>1. CutInv
    BY <1>1, <1>5 DEF FitInv
  <2>2. i = 1 /\ Len(cuts) = 1 /\ cuts # <<>> /\ cuts[1].known /\ open /\ agg # {} /\ cuts[1].by \notin Said(ctx)
    BY <2>1, OnlyCut
  <2>3. /\ Len(cuts') <= 1 /\ cuts' # <<>> /\ cuts'[1].known = cuts[1].known /\ cuts'[1].by = cuts[1].by
        /\ cuts'[1].at = "gate"
    <3>1. cuts \in Seq(CutFrames) /\ cuts[1] \in CutFrames
      BY <2>2 DEF HoldTyped, TalkTyped
    <3>2. cuts'[1] = [cuts[1] EXCEPT !.at = "gate"] /\ Len(cuts') <= 1 /\ cuts' # <<>>
      <4>. DEFINE c == [cuts[1] EXCEPT !.at = "gate"]
      <4>1. cuts' = [cuts EXCEPT ![1] = c]
        BY <2>2, <1>1
      <4>. HIDE DEF c
      <4>2. cuts'[1] = c /\ Len(cuts') = 1
        BY <4>1, <3>1, <2>2
      <4>3. cuts' # <<>>
        BY <4>2
      <4>. QED BY <4>2, <4>3 DEF c
    <3>. QED BY <3>1, <3>2, CutMoves
  <2>4. asked' = {}
    BY <1>1, <2>2
  <2>5. Swept'
    BY <2>3, <2>4, <1>1 DEF Swept, Cutting, Unasked
  <2>. QED BY <2>2, <2>3, <2>4, <2>5, <1>1, <1>3 DEF CutInv
<1>6. ASSUME timeouts' = 0, ~ending' PROVE NewInv' /\ MergeInv'
  <2>1. NewInv /\ MergeInv /\ asked' = {} /\ open /\ agg # {}
    BY <1>1, <1>5, <1>6 DEF FitInv
  <2>2. NewInv'
    BY <2>1, <1>1, <1>3 DEF NewInv
  <2>3. LatestUnheard => LatestUnheard'
    BY <1>1, <1>2, UnheardStays
  <2>4. merge => Silent /\ LatestUnheard
    BY <2>1 DEF MergeInv
  <2>5. MergeInv'
    BY <2>1, <2>3, <2>4, <1>1 DEF MergeInv, Silent, Unasked
  <2>. QED BY <2>2, <2>5
<1>. QED BY <1>4, <1>5, <1>6 DEF FitInv

(* At the gate, what was queued of the reply is gone, and its turn goes on with the words that come. *)
LEMMA FitOnCutAtGate ==
  ASSUME HoldTyped, FitInv, NEW i \in DOMAIN cuts, CutAtGate(i)
  PROVE  FitInv'
<1>1. /\ UNCHANGED <<worded, agg, open, commit, ctx, asked, writing, replies, answers, ending,
                     discard_to_end, played, timeouts>>
      /\ cuts[i].at = "gate" /\ cuts' = [cuts EXCEPT ![i].at = "out"]
      /\ armed' = FALSE /\ merge' = (merge \/ armed) /\ q' = Kept(q)
  BY DEF CutAtGate, callerVars, turnVars, llmVars, outVars, At
<1>2. SilentIn(q') /\ \A j \in DOMAIN q' : q'[j].is # "audio"
  <2>1. \A j \in DOMAIN q' : q'[j].is \in {"call", "result", "end"}
    BY <1>1, HasKept DEF HoldTyped, GateTyped
  <2>. QED BY <2>1 DEF SilentIn, Sound
<1>3. TurnInv'
  <2>1. Said(ctx') = Said(ctx)
    BY <1>1
  <2>. QED BY <1>1, <2>1 DEF FitInv, TurnInv
<1>4. ASSUME timeouts' = 0 PROVE CutInv' /\ open /\ agg # {} /\ (~ending => writing = 0 /\ Unasked)
  <2>1. CutInv /\ Said(ctx') = Said(ctx)
    BY <1>1, <1>4 DEF FitInv
  <2>2. i = 1 /\ Len(cuts) = 1 /\ cuts # <<>> /\ cuts[1].known /\ open /\ agg # {} /\ cuts[1].by \notin Said(ctx)
    BY <2>1, OnlyCut
  <2>3. /\ Len(cuts') <= 1 /\ cuts' # <<>> /\ cuts'[1].known = cuts[1].known /\ cuts'[1].by = cuts[1].by
    <3>1. cuts \in Seq(CutFrames) /\ cuts[1] \in CutFrames
      BY <2>2 DEF HoldTyped, TalkTyped
    <3>2. cuts'[1] = [cuts[1] EXCEPT !.at = "out"] /\ Len(cuts') <= 1 /\ cuts' # <<>>
      <4>. DEFINE c == [cuts[1] EXCEPT !.at = "out"]
      <4>1. cuts' = [cuts EXCEPT ![1] = c]
        BY <2>2, <1>1
      <4>. HIDE DEF c
      <4>2. cuts'[1] = c /\ Len(cuts') = 1
        BY <4>1, <3>1, <2>2
      <4>3. cuts' # <<>>
        BY <4>2
      <4>. QED BY <4>2, <4>3 DEF c
    <3>. QED BY <3>1, <3>2, CutMoves
  <2>4. ~Cutting("llm") /\ ~OneToCome
    BY <2>2, <1>1 DEF Cutting, OneToCome
  <2>5. Swept => Swept' /\ writing = 0 /\ Unasked
    BY <2>4, <1>1, <1>2 DEF Swept, Silent, Unasked
  <2>. QED BY <2>1, <2>2, <2>3, <2>4, <2>5, <1>1 DEF CutInv
<1>5. ASSUME timeouts' = 0, ~ending' PROVE NewInv' /\ MergeInv'
  <2>1. NewInv /\ MergeInv /\ open /\ agg # {} /\ writing = 0 /\ Unasked
    BY <1>1, <1>4, <1>5 DEF FitInv
  <2>2. NewInv'
    BY <2>1, <1>1, <1>2 DEF NewInv
  <2>3. LatestUnheard => LatestUnheard'
    BY <1>1 DEF LatestUnheard, Unheard
  <2>4. merge' => LatestUnheard
    BY <2>1, <1>1 DEF MergeInv, Unasked
  <2>5. MergeInv'
    BY <2>1, <2>3, <2>4, <1>1, <1>2 DEF MergeInv, Silent, Unasked
  <2>. QED BY <2>2, <2>5
<1>. QED BY <1>3, <1>4, <1>5 DEF FitInv

(* At the transport, the reply that was heard is committed under the turn it answered. *)
LEMMA FitOnCutAtOut ==
  ASSUME HoldTyped, FitInv, NEW i \in DOMAIN cuts, CutAtOut(i)
  PROVE  FitInv'
<1>1. /\ UNCHANGED <<worded, agg, open, commit, merge, asked, writing, replies, answers, q, armed,
                     ending, discard_to_end, played, timeouts>>
      /\ cuts[i].at = "out" /\ cuts' = Tail(cuts) /\ ctx' = ctx \o Sounds(out)
  BY DEF CutAtOut, callerVars, turnVars, llmVars, gateVars, At
<1>2. SameTurns(ctx, ctx')
  BY <1>1, SoundsTurns DEF HoldTyped, CtxTyped, OutTyped
<1>3. Said(ctx') = Said(ctx)
  BY <1>2, SameTurnsSay
<1>4. TurnInv'
  BY <1>1, <1>3 DEF FitInv, TurnInv
<1>5. ASSUME timeouts' = 0 PROVE CutInv'
  <2>1. CutInv
    BY <1>1, <1>5 DEF FitInv
  <2>2. i = 1 /\ Len(cuts) = 1 /\ cuts # <<>>
    BY <2>1, OnlyCut
  <2>3. cuts' = <<>> /\ Len(cuts') <= 1
    BY <2>2, <1>1 DEF HoldTyped, TalkTyped
  <2>4. ~Cutting("llm") /\ ~Cutting("gate") /\ ~OneToCome
    BY <2>2, <1>1 DEF Cutting, OneToCome
  <2>5. Swept => Swept'
    BY <2>4, <1>1 DEF Swept, Silent, Unasked
  <2>. QED BY <2>1, <2>3, <2>4, <2>5, <1>1 DEF CutInv
<1>6. ASSUME timeouts' = 0, ~ending' PROVE NewInv' /\ MergeInv'
  <2>1. NewInv /\ MergeInv
    BY <1>1, <1>6 DEF FitInv
  <2>2. NewInv'
    BY <2>1, <1>1, <1>3 DEF NewInv
  <2>3. LatestUnheard => LatestUnheard'
    BY <1>1, <1>2, UnheardStays
  <2>4. (\A j \in DOMAIN ctx : BeforeLatest(ctx, j) => Unheard(ctx[j].says))
          => (\A j \in DOMAIN ctx : BeforeLatest(ctx, j) => Unheard(ctx[j].says))'
    BY <1>1, <1>2, UnheardStays
  <2>5. MergeInv'
    BY <2>1, <2>3, <2>4, <1>1 DEF MergeInv, Silent, Unasked
  <2>. QED BY <2>2, <2>5
<1>. QED BY <1>4, <1>5, <1>6 DEF FitInv

(* The reply plays, and leaves no other behind it. *)
LEMMA FitOnPass ==
  ASSUME HoldTyped, FitInv, Passes
  PROVE  FitInv'
<1>. DEFINE f == Head(q)
<1>1. /\ UNCHANGED <<worded, agg, open, commit, cuts, ctx, merge, asked, writing, replies, answers,
                     ending, timeouts>>
      /\ q \in Seq(QFrames) /\ q # <<>> /\ q' = Tail(q)
  BY DEF Passes, callerVars, turnVars, ctxVars, llmVars, HoldTyped, GateTyped
<1>2. /\ armed' => armed
      /\ ~Sound(f) => armed' = armed
      /\ f.is # "audio" => UNCHANGED played
      /\ armed' => UNCHANGED played
      /\ discard_to_end' => discard_to_end
  BY Zenon DEF Passes, Sound, HoldTyped, GateTyped
<1>3. /\ SilentIn(q) => SilentIn(q') /\ ~Sound(f)
      /\ OneSoundIn(q) => OneSoundIn(q')
      /\ OneSoundIn(q) /\ Sound(f) => SilentIn(q')
      /\ \A i \in DOMAIN q' : \E j \in DOMAIN q : q'[i] = q[j]
  BY <1>1, SoundsTail
<1>4. 1 \in DOMAIN q /\ q[1] = f
  BY <1>1, TailIs
<1>. HIDE DEF f
<1>5. Said(ctx') = Said(ctx)
  BY <1>1
<1>6. TurnInv'
  BY <1>1, <1>2, <1>5 DEF FitInv, TurnInv
<1>7. ASSUME timeouts' = 0 PROVE CutInv'
  <2>1. CutInv
    BY <1>1, <1>7 DEF FitInv
  <2>2. Swept => Swept'
    BY <1>1, <1>3 DEF Swept, Cutting, Silent, Unasked
  <2>3. ASSUME OneToCome PROVE OneToCome' \/ Swept'
    <3>1. CASE ~Sound(f)
      BY <2>3, <3>1, <1>1, <1>2, <1>3 DEF OneToCome, Silent, Unasked
    <3>2. CASE Sound(f)
      <4>1. ~Silent /\ OneSoundIn(q)
        BY <2>3, <3>2, <1>3 DEF Silent, OneToCome
      <4>2. writing = 0 /\ Unasked
        BY <2>3, <4>1 DEF OneToCome
      <4>. QED BY <3>2, <4>1, <4>2, <1>1, <1>3 DEF Swept, Silent, Unasked
    <3>. QED BY <3>1, <3>2
  <2>. QED BY <2>1, <2>2, <2>3, <1>1, <1>5 DEF CutInv
<1>8. ASSUME timeouts' = 0, ~ending' PROVE NewInv' /\ MergeInv'
  <2>1. NewInv /\ MergeInv
    BY <1>1, <1>8 DEF FitInv
  <2>2. NewInv'
    BY <2>1, <1>1, <1>3, <1>5 DEF NewInv
  <2>3. Silent => UNCHANGED played /\ Silent'
    BY <1>2, <1>3 DEF Silent, Sound
  <2>4. SameTurns(ctx, ctx') /\ UNCHANGED answers
    BY <1>1 DEF SameTurns
  <2>5. "commit" \in asked' => armed' /\ Silent'
    BY <2>1, <1>1, <1>2, <1>3 DEF MergeInv, Silent
  <2>6. armed' => LatestUnheard'
    BY <2>1, <2>4, <1>2, UnheardStays DEF MergeInv
  <2>7. merge /\ "commit" \notin asked => LatestUnheard' /\ Silent'
    BY <2>1, <2>3, <2>4, UnheardStays DEF MergeInv
  <2>8. merge /\ "commit" \in asked =>
          (\A j \in DOMAIN ctx : BeforeLatest(ctx, j) => Unheard(ctx[j].says))'
    BY <2>1, <2>3, <2>4, UnheardStays DEF MergeInv
  <2>9. MergeInv'
    BY <2>1, <2>5, <2>6, <2>7, <2>8, <1>1 DEF MergeInv, Unasked
  <2>. QED BY <2>2, <2>9
<1>. QED BY <1>6, <1>7, <1>8 DEF FitInv

LEMMA FitOnOut ==
  ASSUME MaxSaid \in Nat, MaxRare \in Nat, HoldTyped, HoldCalls, FitInv, OutGoesOn
  PROVE  FitInv'
<1>. DEFINE f == Head(out)
<1>1. /\ out \in Seq(OutFrames) /\ ctx \in Seq(Messages) /\ out # <<>>
      /\ UNCHANGED <<cuts, agg, worded, open, commit, writing, replies, answers, q, played, merge,
                     armed, ending, discard_to_end, timeouts>>
      /\ asked' = asked \/ asked' = asked \cup {"result"}
  BY DEF OutGoesOn, callerVars, turnVars, gateVars, HoldTyped, CtxTyped, OutTyped
<1>2. f \in OutFrames
  BY <1>1, TailIs
<1>3. f.is \in {"audio", "call", "result", "end"} /\ f.n \in Numbers
  BY <1>2 DEF OutFrames
<1>4. SameTurns(ctx, ctx')
  <2>1. ctx' = ctx => SameTurns(ctx, ctx')
    BY DEF SameTurns
  <2>2. CASE f.is = "call"
    <3>1. [is |-> "call", n |-> f.n, st |-> "open"] \in Messages /\ ~User([is |-> "call", n |-> f.n, st |-> "open"])
      <4>1. Has(out, "call", f.n)
        BY <1>1, <2>2, HasTail
      <4>2. f.n \in 1..replies
        BY <4>1, <1>3 DEF HoldCalls, FramesAsked
      <4>3. f.n \in Replies
        BY <4>2 DEF HoldTyped, LlmTyped, Numbers, Replies
      <4>. QED BY <4>3 DEF Messages, Rounds, User
    <3>. QED BY <3>1, <1>1, <2>1, <2>2, AppendTurns DEF OutGoesOn
  <2>3. CASE f.is = "result"
    <3>1. ctx' = Marked(ctx, f.n, "done")
      BY <2>3 DEF OutGoesOn
    <3>. QED BY <3>1, <1>1, MarkedTurns
  <2>4. CASE f.is = "audio"
    <3>1. ctx' = Append(ctx, f) /\ ~User(f)
      BY <2>4 DEF OutGoesOn, User
    <3>2. f \in Messages
      BY <2>4, <1>2 DEF Messages, Heard, OutFrames
    <3>. QED BY <3>1, <3>2, <1>1, AppendTurns
  <2>5. CASE f.is = "end"
    BY <2>1, <2>5 DEF OutGoesOn
  <2>. QED BY <1>3, <2>2, <2>3, <2>4, <2>5
<1>5. ("commit" \in asked' <=> "commit" \in asked) /\ ("turn" \in asked' <=> "turn" \in asked)
      /\ (asked \in SUBSET {"result"} => asked' \in SUBSET {"result"})
  BY <1>1
<1>6. TurnInv
  BY DEF FitInv
<1>. QED BY <1>1, <1>4, <1>5, <1>6, FitStep DEF TurnInv

(* The reply fits its turn, whatever happens. *)
LEMMA FitKeeps ==
  ASSUME MaxSaid \in Nat, MaxRare \in Nat, HoldTyped, HoldCalls, CountInv, FitInv, [Next]_vars
  PROVE  FitInv'
<1>. USE DEF callerVars, turnVars, ctxVars, llmVars, gateVars, outVars
<1>0. TurnInv
  BY DEF FitInv
<1>1. CASE Onset
  BY <1>1, FitUnmoved DEF Onset, Hears
<1>2. CASE VadStarts
  BY <1>2, FitUnmoved DEF VadStarts, Hears
<1>3. CASE Stops
  BY <1>3, FitUnmoved DEF Stops
<1>4. CASE WordsCome
  BY <1>4, FitOnWords
<1>5. CASE Commits
  BY <1>5, FitUnmoved DEF Commits
<1>6. CASE Proceeds
  <2>1. CASE Pushes
    <3>1. /\ commit # "no" /\ Landed /\ (commit = "waits" => ~Continues)
          /\ UNCHANGED <<callerVars, call, cuts, outVars, timeouts>>
      BY <1>6, <2>1 DEF Proceeds, Pushes
    <3>. QED BY <2>1, <3>1, FitOnPush
  <2>2. CASE ~Pushes
    <3>1. /\ commit = "waits" /\ Landed /\ commit' = "drops" /\ cuts' = Cut(0)
          /\ UNCHANGED <<callerVars, open, agg, ctxVars, llmVars, gateVars, outVars, timeouts>>
      BY <1>6, <2>2 DEF Proceeds
    <3>. QED BY <3>1, FitOnDrop
  <2>. QED BY <2>1, <2>2
<1>7. CASE WaitRunsOut
  <2>1. TurnInv'
    BY <1>7, TurnOnPush DEF WaitRunsOut
  <2>2. timeouts' # 0
    BY <1>7 DEF WaitRunsOut, HoldTyped, TalkTyped
  <2>. QED BY <2>1, <2>2 DEF FitInv
<1>8. CASE Closes
  BY <1>8, FitOnClose
<1>9. CASE Reconciles
  BY <1>9, FitOnFold
<1>10. CASE AsksOnTurn
  BY <1>10, FitOnAsk DEF AsksOnTurn
<1>11. CASE AsksOnResult
  BY <1>11, FitOnAsk DEF AsksOnResult
<1>12. CASE Writes
  BY <1>12, FitOnWrite
<1>13. ASSUME NEW n \in Replies, ToolEnds(n) PROVE FitInv'
  <2>1. UNCHANGED <<cuts, agg, worded, open, commit, ctx, asked, writing, replies, answers, played,
                    merge, armed, ending, discard_to_end, timeouts>>
        /\ q' = Append(q, Frame("result", n))
    BY <1>13 DEF ToolEnds
  <2>2. q \in Seq(QFrames) /\ Frame("result", n) \in QFrames /\ ~Sound(Frame("result", n))
        /\ Frame("result", n).is # "audio"
    BY DEF Frame, QFrames, HoldTyped, GateTyped, Replies, Numbers, Sound
  <2>3. /\ SilentIn(q) => SilentIn(q')
        /\ OneSoundIn(q) => OneSoundIn(q')
        /\ \A i \in DOMAIN q' : q'[i].is = "audio" => \E j \in DOMAIN q : q'[i] = q[j]
    BY <2>1, <2>2, SoundsAppend
  <2>4. SameTurns(ctx, ctx')
    BY <2>1 DEF SameTurns
  <2>. QED BY <1>0, <2>1, <2>3, <2>4, FitStep DEF TurnInv
<1>14. CASE Cuts
  BY <1>14, FitOnCutAtLlm, FitOnCutAtGate, FitOnCutAtOut DEF Cuts
<1>15. CASE Passes
  BY <1>15, FitOnPass
<1>16. CASE OutGoesOn
  BY <1>16, FitOnOut
<1>17. CASE Released \/ CapReached
  BY <1>17, FitUnmoved DEF Released, CapReached
<1>18. CASE Ends
  <2>1. UNCHANGED <<cuts, agg, worded, open, commit, ctx, asked, writing, replies, answers, played,
                    merge, armed, timeouts>>
        /\ q' = Append(q, Frame("end", 0)) /\ ending' = TRUE /\ asked = {}
    BY <1>18 DEF Ends
  <2>2. q \in Seq(QFrames) /\ Frame("end", 0) \in QFrames /\ ~Sound(Frame("end", 0)) /\ Frame("end", 0).is # "audio"
    BY DEF Frame, QFrames, HoldTyped, GateTyped, Numbers, Sound
  <2>3. /\ SilentIn(q) => SilentIn(q')
        /\ OneSoundIn(q) => OneSoundIn(q')
        /\ \A i \in DOMAIN q' : q'[i].is = "audio" => \E j \in DOMAIN q : q'[i] = q[j]
    BY <2>1, <2>2, SoundsAppend
  <2>4. SameTurns(ctx, ctx')
    BY <2>1 DEF SameTurns
  <2>. QED BY <1>0, <2>1, <2>3, <2>4, FitStep DEF TurnInv
<1>19. CASE Over \/ UNCHANGED vars
  <2>1. UNCHANGED vars
    BY <1>19 DEF Over
  <2>. QED BY <2>1, FitUnmoved DEF vars
<1>. QED
  BY <1>1, <1>2, <1>3, <1>4, <1>5, <1>6, <1>7, <1>8, <1>9, <1>10, <1>11, <1>12, <1>13,
     <1>14, <1>15,
     <1>16, <1>17, <1>18, <1>19 DEF Next

LEMMA FitStarts ==
  ASSUME Init
  PROVE  FitInv
<1>1. Said(ctx) = {}
  <2>1. Range(ctx) = {}
    BY DEF Init, Range
  <2>. QED BY <2>1 DEF Said
<1>2. TurnInv
  BY <1>1 DEF Init, TurnInv
<1>3. CutInv
  <2>1. Len(cuts) = 0 /\ cuts = <<>>
    BY DEF Init
  <2>. QED BY <2>1 DEF Init, CutInv
<1>4. NewInv
  BY DEF Init, NewInv
<1>5. MergeInv
  BY DEF Init, MergeInv
<1>. QED BY <1>2, <1>3, <1>4, <1>5 DEF FitInv

(* What the invariant says of a step: the cut reply is in the context first, the one that *)
(* plays answers all that was said, and the turn folded into was not answered aloud.      *)
LEMMA CutFirst ==
  ASSUME FitInv, timeouts = 0, NEW i \in DOMAIN cuts, CutAtOut(i)
  PROVE  cuts[i].by \notin Said(ctx)
<1>1. i = 1 /\ cuts # <<>>
  BY DEF CutAtOut
<1>. QED BY <1>1 DEF FitInv, CutInv

LEMMA PlaysWhole ==
  ASSUME HoldTyped, FitInv, [Next]_vars, timeouts = 0, ~ending, NEW n \in played' \ played
  PROVE  Said(ctx) \subseteq answers[n]
<1>1. Passes
  <2>1. played' # played
    OBVIOUS
  <2>. QED
    BY <2>1 DEF Next, vars, callerVars, turnVars, ctxVars, llmVars, gateVars, outVars,
       Onset, VadStarts, Stops, WordsCome, Commits, Proceeds, WaitRunsOut, Closes,
       Reconciles, AsksOnTurn, AsksOnResult, Asks, Writes, ToolEnds, Cuts, CutAtLlm,
       CutAtGate, CutAtOut, OutGoesOn, Released, CapReached, Ends, Over
<1>2. /\ q \in Seq(QFrames) /\ q # <<>>
      /\ Head(q).is = "audio" /\ Head(q).n = n
  BY <1>1 DEF Passes, HoldTyped, GateTyped
<1>3. 1 \in DOMAIN q /\ q[1] = Head(q)
  BY <1>2, TailIs
<1>4. NewInv
  BY DEF FitInv
<1>. QED BY <1>2, <1>3, <1>4 DEF NewInv

LEMMA FoldsUnheard ==
  ASSUME HoldTyped, FitInv, Reconciles, Len(ctx') < Len(ctx), timeouts = 0, NEW n \in played
  PROVE  ~(ctx[lastUser].says \subseteq answers[n])
<1>1. "commit" \in asked /\ Folds
  BY DEF Reconciles, HoldTyped, CtxTyped
<1>2. ~ending
  BY <1>1 DEF FitInv, TurnInv
<1>3. /\ ctx \in Seq(Messages) /\ Len(ctx) \in Nat /\ lastUser \in 0..Len(ctx)
      /\ lastUser # 0 => User(ctx[lastUser])
  BY DEF HoldTyped, CtxTyped
<1>4. BeforeLatest(ctx, lastUser)
  <2>1. /\ merge /\ lastUser \in DOMAIN ctx /\ User(ctx[lastUser])
        /\ Len(ctx) \in DOMAIN ctx /\ lastUser < Len(ctx) /\ User(ctx[Len(ctx)])
    BY <1>1, <1>3 DEF Folds
  <2>2. Latest(ctx, Len(ctx))
    BY <2>1, <1>3 DEF Latest
  <2>3. \A j \in DOMAIN ctx : lastUser < j /\ j < Len(ctx) => ~User(ctx[j])
    BY <1>1, <1>3 DEF Folds, Cancelled, User
  <2>. QED BY <2>1, <2>2, <2>3 DEF BeforeLatest
<1>5. lastUser \in DOMAIN ctx /\ Unheard(ctx[lastUser].says)
  BY <1>1, <1>2, <1>4 DEF FitInv, MergeInv, BeforeLatest, Folds
<1>. QED BY <1>5 DEF Unheard

-----------------------------------------------------------------------------
(* What holds of every behaviour.                                           *)

(* A step of the hold keeps its frames, calls and counts as they should be. *)
LEMMA HoldKeeps ==
  ASSUME MaxSaid \in Nat, MaxRare \in Nat, HoldInv, [Next]_vars
  PROVE  HoldInv'
BY TypedKeeps, CallsKeep, CountKeeps DEF HoldInv

(* Only a reply that was asked has its end. *)
LEMMA SettledKeeps ==
  ASSUME MaxSaid \in Nat, MaxRare \in Nat, HoldTyped, HoldCalls, HoldTyped', settled \subseteq 1..replies, [Next]_vars
  PROVE  settled' \subseteq 1..replies'
<1>1. replies \in Nat /\ replies' \in Nat
  BY DEF HoldTyped, LlmTyped, Numbers
<1>2. replies <= replies'
  BY <1>1 DEF Next, vars, callerVars, turnVars, ctxVars, llmVars, gateVars, outVars,
     Onset, VadStarts, Stops, WordsCome, Commits, Proceeds, Pushes, WaitRunsOut, Closes,
     Reconciles, AsksOnTurn, AsksOnResult, Asks, Writes, ToolEnds, Cuts, CutAtLlm,
     CutAtGate, CutAtOut, Passes, OutGoesOn, Released, CapReached, Ends, Over
<1>3. \A k \in {"audio", "over"}, n \in Numbers : Has(q, k, n) \/ Has(out, k, n) => n \in 1..replies
  BY DEF HoldCalls, FramesAsked
<1>4. settled' \subseteq settled \cup {n \in Numbers : Has(q, "over", n) \/ Has(out, "audio", n)}
  <2>1. CASE Passes
    <3>1. q \in Seq(QFrames) /\ q # <<>>
      BY <2>1 DEF Passes, HoldTyped, GateTyped
    <3>2. 1 \in DOMAIN q /\ q[1] = Head(q) /\ Head(q) \in QFrames
      BY <3>1, TailIs
    <3>3. settled' \subseteq settled \/ (Head(q).is = "over" /\ settled' = settled \cup {Head(q).n})
      BY <2>1 DEF Passes
    <3>. QED BY <3>2, <3>3 DEF Has, QFrames
  <2>2. CASE OutGoesOn
    <3>1. out \in Seq(OutFrames) /\ out # <<>>
      BY <2>2 DEF OutGoesOn, HoldTyped, OutTyped
    <3>2. 1 \in DOMAIN out /\ out[1] = Head(out) /\ Head(out) \in OutFrames
      BY <3>1, TailIs
    <3>3. settled' \subseteq settled \/ (Head(out).is = "audio" /\ settled' = settled \cup {Head(out).n})
      BY <2>2 DEF OutGoesOn
    <3>. QED BY <3>2, <3>3 DEF Has, OutFrames
  <2>3. ASSUME NEW i \in DOMAIN cuts, CutAtOut(i)
        PROVE  settled' \subseteq settled \cup {n \in Numbers : Has(out, "audio", n)}
    <3>1. settled' = settled \cup {f.n : f \in {g \in Range(out) : g.is = "audio"}}
      BY <2>3 DEF CutAtOut
    <3>2. \A j \in DOMAIN out : out[j].n \in Numbers
      BY DEF HoldTyped, OutTyped, OutFrames
    <3>. QED BY <3>1, <3>2 DEF Has, Range
  <2>4. UNCHANGED settled \/ Passes \/ OutGoesOn \/ \E i \in DOMAIN cuts : CutAtOut(i)
    BY DEF Next, vars, callerVars, turnVars, ctxVars, llmVars, gateVars, outVars, Onset,
       VadStarts, Stops, WordsCome, Commits, Proceeds, WaitRunsOut, Closes, Reconciles,
       AsksOnTurn, AsksOnResult, Asks, Writes, ToolEnds, Cuts, CutAtLlm, CutAtGate,
       Released, CapReached, Ends, Over
  <2>. QED BY <2>1, <2>2, <2>3, <2>4
<1>5. \A n \in 1..replies : n \in 1..replies'
  BY <1>1, <1>2
<1>. QED BY <1>3, <1>4, <1>5

Inv == HoldInv /\ FitInv /\ settled \subseteq 1..replies

LEMMA InvHolds ==
  ASSUME MaxSaid \in Nat, MaxRare \in Nat
  PROVE  Spec => []Inv
<1>1. Init => Inv
  BY HoldStarts, FitStarts DEF Inv, HoldInv, Init
<1>2. Inv /\ [Next]_vars => Inv'
  <2>1. HoldInv /\ FitInv /\ [Next]_vars => FitInv'
    BY FitKeeps DEF HoldInv
  <2>2. Inv /\ [Next]_vars => HoldInv' /\ settled' \subseteq 1..replies'
    BY HoldKeeps, SettledKeeps DEF Inv, HoldInv
  <2>. QED BY <2>1, <2>2 DEF Inv
<1>. QED BY <1>1, <1>2, PTL DEF Spec

(* The caller, the commit, the LLM, the gate and what is behind it keep to *)
(* their states.                                                           *)
THEOREM TypeHolds ==
  ASSUME MaxSaid \in Nat, MaxRare \in Nat
  PROVE  Spec => []TypeOK
<1>1. ASSUME HoldTyped, settled \subseteq 1..replies PROVE TypeOK
  <2>1. cuts \in Seq(CutFrames) /\ Range(cuts) \subseteq CutFrames
    BY <1>1 DEF HoldTyped, TalkTyped, Range
  <2>2. worded \subseteq Words /\ agg \subseteq Words
    BY <1>1 DEF HoldTyped, TalkTyped, Words
  <2>3. writing \in {0} \cup Replies /\ replies \in {0} \cup Replies
    BY <1>1 DEF HoldTyped, LlmTyped, Numbers, Replies
  <2>4. UNION {droppedCalls, overtaken, played, settled} \subseteq Replies
    <3>1. played \subseteq Replies /\ settled \subseteq Replies
      BY <1>1 DEF HoldTyped, OutTyped, LlmTyped, Numbers, Replies
    <3>. QED BY <1>1, <3>1 DEF HoldTyped, GateTyped, OutTyped
  <2>. QED BY <1>1, <2>1, <2>2, <2>3, <2>4
           DEF TypeOK, HoldTyped, TalkTyped, CtxTyped, LlmTyped, GateTyped, OutTyped,
              CutFrames
<1>2. Inv => TypeOK
  BY <1>1 DEF Inv, HoldInv
<1>. QED BY <1>2, InvHolds, PTL

(* A tool call in the context has its result on the way, or is running, and *)
(* the session's End goes through the gate at once.                         *)
THEOREM NothingIsHung ==
  ASSUME MaxSaid \in Nat, MaxRare \in Nat
  PROVE  Spec => [](NoOrphanCall /\ EndIsNotHeld)
<1>1. Inv => NoOrphanCall /\ EndIsNotHeld
  BY HoldGivesNothingHangs DEF Inv
<1>. QED BY <1>1, InvHolds, PTL

(* The reply the caller's words cut is in the context before them, a reply  *)
(* that starts to play answers all that was said, and a turn is folded into *)
(* the one before only when nothing of that one's reply played: while no    *)
(* wait of the fence has run out.                                           *)
THEOREM RepliesFollow ==
  ASSUME MaxSaid \in Nat, MaxRare \in Nat
  PROVE  Spec => CutBeforeTurn /\ NoStaleReply /\ NoFalseMerge
<1>. DEFINE First == \A i \in DOMAIN cuts : CutAtOut(i) /\ timeouts = 0 => cuts[i].by \notin Said(ctx)
            Plays == \A n \in played' \ played : timeouts = 0 /\ ~ending => Said(ctx) \subseteq answers[n]
            Merges == Reconciles /\ Len(ctx') < Len(ctx) /\ timeouts = 0 =>
                        \A n \in played : ~(ctx[lastUser].says \subseteq answers[n])
<1>1. Inv /\ [Next]_vars => First /\ Plays /\ Merges
  <2>. SUFFICES ASSUME HoldTyped, FitInv, [Next]_vars
                PROVE  First /\ Plays /\ Merges
    BY DEF Inv, HoldInv
  <2>1. First
    BY CutFirst
  <2>2. Plays
    BY PlaysWhole
  <2>3. Merges
    BY FoldsUnheard
  <2>. QED BY <2>1, <2>2, <2>3
<1>2. Spec => [][First]_vars /\ [][Plays]_vars /\ [][Merges]_vars
  BY <1>1, InvHolds, PTL DEF Spec
<1>. QED BY <1>2 DEF CutBeforeTurn, NoStaleReply, NoFalseMerge

=============================================================================
